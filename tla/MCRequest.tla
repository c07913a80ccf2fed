----------------------------- MODULE MCRequest -----------------------------
(* Small instances of InstallRequest.                                      *)
EXTENDS InstallRequest

CONSTANTS n0, n1, sd, vd

SmallDisk == {n0, n1, sd, vd}
SmallPath ==
    {Node(d) : d \in SmallDisk}
    \cup [kind: {"part", "link", "partLink"}, of: {sd}]
    \cup [kind: {"link"}, of: {n0}]
    \cup [kind: {"bad"}, of: {n0}]

Link(d) == [kind |-> "link", of |-> d]
Says(l, p) == [disks |-> l, disk |-> p]

\* Lists a flag or a file may hold: both NVMe, one twice, a disk and its own
\* alias, three, and one that is not under /dev.
Lists == {<<Node(n0), Node(n1)>>, <<Node(sd), Node(sd)>>, <<Node(n0), Link(n0)>>,
          <<Node(n1), Node(sd), Node(n0)>>, <<[kind |-> "bad", of |-> n0]>>}

DiskFlags == {Silent} \cup {Says(l, NoPath) : l \in Lists}
             \cup {Says(<<>>, p) : p \in {Node(sd), Link(sd), [kind |-> "part", of |-> sd]}}
             \cup {Says(<<Node(n0)>>, Node(sd))}

Flag(v, d, yes, ask, key, tpm, dev, fresh) ==
    [variant |-> v, disks |-> d.disks, disk |-> d.disk, yes |-> yes, ask |-> ask,
     key |-> key, tpm |-> tpm, dev |-> dev, fresh |-> fresh]

\* Every way to name the disks, guided, batch and neither; the other flags
\* once each.
SmallFlags ==
    {Flag(v, d, m.yes, m.ask, "none", "auto", FALSE, FALSE) :
        v \in {"none", "server"}, d \in DiskFlags,
        m \in {[yes |-> TRUE, ask |-> TRUE], [yes |-> FALSE, ask |-> TRUE],
               [yes |-> FALSE, ask |-> FALSE]}}
    \cup {Flag("desktop", Silent, FALSE, a, k, t, TRUE, TRUE) :
            a \in BOOLEAN, k \in {"file", "junk"}, t \in {"auto", "force", "skip"}}
    \cup {Flag("server", Silent, FALSE, a, k, t, FALSE, TRUE) :
            a \in BOOLEAN, k \in {"none", "file"}, t \in {"auto", "force"}}

Env(p, b, s, v, k, t) ==
    [proc |-> p, base |-> b, server |-> s, variant |-> v, key |-> k, tpm |-> t]

\* None; the files on the ISO; an exported disk over them; a machine.env with a
\* list under a machine-server.env with one disk.
SmallEnvs ==
    LET stock == Says(<<>>, Node(n0))
        pair  == Says(<<Node(n0), Node(n1)>>, NoPath)
    IN  {Env(Silent, Silent, Silent, "desktop", "none", "auto"),
         Env(Silent, stock, pair, "desktop", "none", "auto"),
         Env(Says(<<>>, Node(sd)), stock, pair, "server", "none", "auto"),
         Env(Silent, pair, Says(<<>>, Node(sd)), "server", "file", "force"),
         Env(Silent, stock, Silent, "server", "junk", "skip")}

World(c, l, p, k, t, j) ==
    [content |-> c, live |-> l, present |-> p, baked |-> k = "baked",
     found |-> k = "found", tpm |-> t, journal |-> j]

\* Two NVMe and a USB stick, or SATA only; the stick is the live medium
\* or the machine booted over the network; blank disks and occupied ones.
SmallWorlds ==
    LET held(a, b, c) == [d \in SmallDisk |-> IF d = n0 THEN a ELSE IF d = n1 THEN b ELSE c]
        sticks == {<<"known", NoDisk>>, <<"foreign", NoDisk>>, <<"known", sd>>}
        keys == {<<"none", FALSE>>, <<"baked", TRUE>>, <<"found", FALSE>>}
    IN  {World(held(a, "blank", x[1]), x[2], p, k[1], k[2], k[2]) :
            a \in {"blank", "known"}, x \in sticks, k \in keys,
            p \in {{n0, n1, sd}, {sd, vd}}}

=============================================================================
