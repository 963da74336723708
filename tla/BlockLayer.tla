------------------------------ MODULE BlockLayer ------------------------------
(***************************************************************************)
(* The kernel's side of device enumeration, external to the repository:    *)
(* the directories of /sys/class/block and the table behind /proc/mounts,  *)
(* both of which change while osedax reads them.                           *)
(*                                                                         *)
(* A sysfs directory is a function from the attribute files it holds to    *)
(* their contents, so "the file exists" is membership in its domain and a  *)
(* node that is not there has no files at all.  Each step is one kernel    *)
(* event; MaxEvents bounds how many happen.                                *)
(***************************************************************************)
EXTENDS Naturals

CONSTANTS
  Names,        \* the block node names that can appear in /sys/class/block
  PartsOf,      \* [Names -> SUBSET Names]: the partitions of each whole disk
  HardwareOf,   \* [Names -> sets of sysfs directories] a node may present
  OtherDevs,    \* mount sources under /dev/ that are not block node names
  MountEntries, \* the rows /proc/mounts can show
  InitMounts,   \* the mount tables the system may have at the start
  MaxEvents     \* bound: kernel events in one behaviour

Gone == [attr \in {} |-> "none"]

Hardware == UNION {HardwareOf[n] : n \in Names}
Partitions == UNION {PartsOf[n] : n \in Names}
NodeDir == Hardware \cup {Gone}

ASSUME NamesAssumption ==
  /\ PartsOf \in [Names -> SUBSET Names]
  /\ \A n \in Partitions : PartsOf[n] = {}
  /\ OtherDevs \cap Names = {}

(***************************************************************************)
(* What the sysfs ABI promises of every directory: `size` is there and     *)
(* numeric, flags are "0" or "1", and exactly the partitions carry a       *)
(* `partition` file.                                                       *)
(***************************************************************************)
ASSUME HardwareAssumption ==
  \A n \in Names : \A h \in HardwareOf[n] :
    /\ "size" \in DOMAIN h /\ h["size"] \in Nat
    /\ "partition" \in DOMAIN h <=> n \in Partitions
    /\ \A a \in {"queue/logical_block_size", "queue/physical_block_size"} :
         a \in DOMAIN h => h[a] \in Nat

(***************************************************************************)
(* A row names a device under /dev/, the mount point as the components of  *)
(* an absolute path, and whether the bytes of that path are valid UTF-8.   *)
(***************************************************************************)
ASSUME MountsAssumption ==
  /\ \A m \in MountEntries : m.dev \in Names \cup OtherDevs /\ m.utf8 \in BOOLEAN
  /\ InitMounts \subseteq SUBSET MountEntries

ASSUME MaxEventsAssumption == MaxEvents \in Nat

VARIABLES
  sysfs,     \* [Names -> NodeDir]
  mountTab,  \* the set of mounts in force
  events     \* kernel events so far

kernelVars == <<sysfs, mountTab, events>>

present == {n \in Names : sysfs[n] # Gone}

KernelTypeOK ==
  /\ sysfs \in [Names -> NodeDir]
  /\ \A n \in Names : sysfs[n] \in HardwareOf[n] \cup {Gone}
  /\ mountTab \subseteq MountEntries
  /\ events \in 0 .. MaxEvents

KernelInit ==
  /\ sysfs \in {f \in [Names -> NodeDir] :
       /\ \A n \in Names : f[n] \in HardwareOf[n] \cup {Gone}
       /\ \A n \in Names : \A p \in PartsOf[n] : f[p] # Gone => f[n] # Gone}
  /\ mountTab \in {t \in InitMounts : \A m \in t : m.dev \in Names => sysfs[m.dev] # Gone}
  /\ events = 0

Event == events < MaxEvents /\ events' = events + 1

SetDir(n, dir) == sysfs' = [sysfs EXCEPT ![n] = dir] /\ UNCHANGED mountTab

\* A disk is plugged in, or its partition table is (re)read and a partition appears.
Attach(n) ==
  /\ Event
  /\ sysfs[n] = Gone
  /\ \A d \in Names : n \in PartsOf[d] => sysfs[d] # Gone
  /\ \E h \in HardwareOf[n] : SetDir(n, h)

\* A node goes away; a disk goes after its partitions.  Mounts of it stay behind.
Detach(n) ==
  /\ Event
  /\ sysfs[n] # Gone
  /\ \A p \in PartsOf[n] : sysfs[p] = Gone
  /\ SetDir(n, Gone)

\* Write protection is switched, or a card reader's medium is changed, in place.
Alter(n) ==
  /\ Event
  /\ sysfs[n] # Gone
  /\ \E h \in HardwareOf[n] \ {sysfs[n]} :
       /\ DOMAIN h = DOMAIN sysfs[n]
       /\ \A a \in DOMAIN h \ {"size", "ro"} : h[a] = sysfs[n][a]
       /\ SetDir(n, h)

\* Mount points are taken once: stacked mounts are left out.
Mount ==
  /\ Event
  /\ \E m \in MountEntries \ mountTab :
       /\ m.dev \in Names => sysfs[m.dev] # Gone
       /\ \A other \in mountTab : other.path # m.path
       /\ mountTab' = mountTab \cup {m}
  /\ UNCHANGED sysfs

Unmount ==
  /\ Event
  /\ \E m \in mountTab : mountTab' = mountTab \ {m}
  /\ UNCHANGED sysfs

MountEvent == Mount \/ Unmount
=============================================================================
