----------------------------- MODULE MCInstall -----------------------------
(* Small instances of InstallPipeline.                                     *)
EXTENDS InstallPipeline

CONSTANTS d1, d2

Ask(variant, p, s, key, tpm) ==
    {[variant |-> variant, primary |-> p, secondary |-> s, key |-> key,
      tpm |-> tpm, fresh |-> f] : f \in BOOLEAN}

\* A desktop on one disk, whatever it is asked about the TPM.
DesktopRequests ==
    UNION {Ask("desktop", d1, NoDisk, FALSE, t) : t \in {"off", "optional", "required"}}
\* A server on two disks; without a key it must be refused.
ServerRequests ==
    UNION {Ask("server", d1, d2, k, t) : k \in BOOLEAN, t \in {"optional", "required"}}
\* Every desktop and server answer, one after the other (after --fresh or a boot).
AnyRequests == DesktopRequests \cup ServerRequests
\* One disk, or both: what a second invocation can change its mind to.
MixedRequests ==
    Ask("desktop", d2, NoDisk, FALSE, "off") \cup Ask("server", d1, d2, TRUE, "required")
\* Two desktops that differ in the disk.
OneDiskRequests ==
    Ask("desktop", d1, NoDisk, FALSE, "off") \cup Ask("desktop", d2, NoDisk, FALSE, "off")
=============================================================================
