------------------------------ MODULE DiskRules -----------------------------
(***************************************************************************)
(* Which disk firn may erase: internal/disk/disk.go.  A listing is what    *)
(* one lsblk run shows: the whole disks present, each with its own node    *)
(* and everything stacked on it (partitions, mappers, volumes).  Every     *)
(* caller takes a new listing, and between two of them disks come, go and  *)
(* get mounted.                                                            *)
(*                                                                         *)
(* Sizes, models and serial numbers only tell disks apart on the screen.   *)
(***************************************************************************)
EXTENDS FiniteSets

CONSTANTS
    Disks,        \* paths of whole disks, /dev/sda
    Links,        \* names under /dev/disk/by-*
    Others,       \* other device paths a link may lead to, /dev/sda1
    Roots,        \* sources findmnt may report for /
    PathsBefore,  \* root source -> whole disks whose path is a prefix of it
    Listings,     \* what lsblk may show at some moment
    None

Node == [mounted : BOOLEAN,
         fstype : {"plain", "linux_raid_member", "LVM2_member"},
         medium : BOOLEAN]            \* it has an installer's label

Device == [own : Node, below : SUBSET Node]

\* Fault: only the disk itself is looked at, not what is stacked on it.
NodesTopOnly(dev) == {dev.own}

(* walk visits the device and every descendant.                            *)
Nodes(dev) == {dev.own} \cup dev.below

mountedAnywhere(dev) == \E n \in Nodes(dev) : n.mounted
memberReason(dev)    == \E n \in Nodes(dev) : n.fstype \in {"linux_raid_member", "LVM2_member"}
installerLabel(dev)  == \E n \in Nodes(dev) : n.medium

(* RootDevice: nothing when findmnt fails, as for a root in memory.        *)
RootDevice(root, answered) == IF answered THEN root ELSE None

(* RefusalReason, without its wording.                                     *)
Refused(path, dev, rootDev) ==
    \/ rootDev # None /\ path \in PathsBefore[rootDev]
    \/ mountedAnywhere(dev) \/ memberReason(dev) \/ installerLabel(dev)

(* CanonicalPath and Resolve: a by-* link must lead to a whole disk of the *)
(* listing, a plain path must be one.  A link may lead nowhere.            *)
Resolve(listing, linked, target) ==
    LET canonical == IF target \in Links THEN linked[target] ELSE target IN
    IF canonical \in DOMAIN listing THEN canonical ELSE None

Linkings == [Links -> Disks \cup Others \cup {None}]

-----------------------------------------------------------------------------
ASSUME NamesAssumption ==
    /\ Disks \cap Links = {} /\ Disks \cap Others = {}
    /\ None \notin Disks \cup Links \cup Others \cup Roots
    /\ PathsBefore \in [Roots -> SUBSET Disks]

(* lsblk lists disks, and may show anything of them.                       *)
ASSUME ListingsAssumption ==
    \A l \in Listings : DOMAIN l \subseteq Disks /\ \A d \in DOMAIN l : l[d] \in Device
=============================================================================
