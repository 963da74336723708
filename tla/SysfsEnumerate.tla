---------------------------- MODULE SysfsEnumerate ----------------------------
(***************************************************************************)
(* device::enumerate() on Linux (core/src/device/enumerate/linux.rs): a    *)
(* sequence of separate reads of /proc/mounts, of the directory            *)
(* /sys/class/block and of the attribute files of each node in it, with    *)
(* the kernel of BlockLayer free to act between any two of them.           *)
(*                                                                         *)
(* Every read names a file by path, so a node that goes away and comes     *)
(* back (or is replaced by other hardware under the same name) is picked   *)
(* up half-way: a Device may be assembled from two different disks.        *)
(***************************************************************************)
EXTENDS BlockLayer, DiskNames

CONSTANTS
  PathRank,         \* [Names -> Nat]: the byte order of the /dev paths
  MountsUnreadable  \* whether /proc/mounts may fail to open

(***************************************************************************)
(* How the kernel names block nodes: by its name alone, a partition of a   *)
(* disk is told from every other node and every other mount source.        *)
(***************************************************************************)
ASSUME NameScheme ==
  \A d \in Names : \A x \in Names \cup OtherDevs : is_partition_of(d, x) <=> x \in PartsOf[d]

ASSUME EnumerateAssumption ==
  /\ PathRank \in [Names -> Nat] /\ MountsUnreadable \in BOOLEAN
  /\ \A m, n \in Names : PathRank[m] = PathRank[n] => m = n

VARIABLES
  pc,        \* the next read of the call
  mounts,    \* the snapshot of /proc/mounts: <<device, mount point>> pairs
  dirSeen,   \* names in the directory at some time since it was opened
  dirKept,   \* names in the directory ever since it was opened
  yielded,   \* names read_dir has returned
  cur,       \* the name whose Device is being built
  draft,     \* the locals of build_device
  devices,   \* the Devices pushed so far
  outcome,   \* what the last call returned: "none", "Ok" or "Io"
  listing,   \* the Vec<Device> it returned
  \* History: names without a kernel event since the build of their Device began.
  quiet

dirVars == <<dirSeen, dirKept, yielded>>
callVars == <<pc, mounts, cur, draft, devices, outcome, listing>>
vars == <<kernelVars, callVars, dirVars, quiet>>

-----------------------------------------------------------------------------
(* Reading sysfs and /proc/mounts.                                         *)

\* read_attr(..).unwrap_or(default), and the existence test of a file.
exists(n, attr) == attr \in DOMAIN sysfs[n]
read_attr(n, attr, default) == IF exists(n, attr) THEN sysfs[n][attr] ELSE default

is_whole_disk(n) == ~exists(n, "partition")

\* The resolved `device` link is the set of its path components.
detect_usb(n) == \E seg \in read_attr(n, "device", {}) : IsUsbSegment(seg)
detect_virtual(n) == ~exists(n, "device")

(***************************************************************************)
(* read_mounts reads the file into one String: a single mount point that   *)
(* is not UTF-8 makes the whole read fail, and a failed read is an empty   *)
(* table.                                                                  *)
(***************************************************************************)
read_mounts(tab) ==
  IF \A m \in tab : m.utf8 THEN {<<m.dev, m.path>> : m \in tab} ELSE {}

\* A bug: only mounts of the disk node itself, as if it had no partitions.
mounts_for_ExactNode(name, tab) == {m[2] : m \in {x \in tab : x[1] = name}}

\* A bug: whatever is named after the disk is taken for a partition of it.
mounts_for_AnyPrefix(name, tab) == {m[2] : m \in {x \in tab : IsPrefix(name, x[1])}}

mounts_for(name, tab) ==
  {m[2] : m \in {x \in tab : x[1] = name \/ is_partition_of(name, x[1])}}

-----------------------------------------------------------------------------
(* The call.                                                               *)

SectorBytes == 512

NoName == "-"
NewDraft == [size |-> 0, logical_block_size |-> 512, physical_block_size |-> 512,
             removable |-> FALSE, read_only |-> FALSE, model |-> "None", is_usb |-> FALSE]

Stages == {"size", "logical", "physical", "removable", "ro", "model", "usb", "virtual"}
Scanning == pc \in {"next", "whole"} \cup Stages

\* A bug: the Vec of the last call is cached, and is handed out when this one fails.
ReadMounts_Cached ==
  /\ pc \in {"idle", "returned"}
  /\ \/ mounts' = read_mounts(mountTab)
     \/ MountsUnreadable /\ mounts' = {}
  /\ pc' = "open"
  /\ devices' = {} /\ outcome' = "none"
  /\ quiet' = {}
  /\ UNCHANGED <<kernelVars, dirVars, cur, draft, listing>>

\* A call may follow an earlier one; it starts from an empty Vec.
ReadMounts ==
  /\ pc \in {"idle", "returned"}
  /\ \/ mounts' = read_mounts(mountTab)
     \/ MountsUnreadable /\ mounts' = {}
  /\ pc' = "open"
  /\ devices' = {} /\ listing' = <<>> /\ outcome' = "none"
  /\ quiet' = {}
  /\ UNCHANGED <<kernelVars, dirVars, cur, draft>>

OpenDir ==
  /\ pc = "open"
  /\ pc' = "next"
  /\ dirSeen' = present /\ dirKept' = present /\ yielded' = {}
  /\ UNCHANGED <<kernelVars, mounts, cur, draft, devices, outcome, listing, quiet>>

\* `?` on read_dir or on one of its entries abandons the call and its Devices.
ReadDirFails ==
  /\ pc \in {"open", "next"}
  /\ pc' = "returned" /\ outcome' = "Io"
  /\ devices' = {} /\ dirSeen' = {} /\ dirKept' = {} /\ yielded' = {} /\ quiet' = {}
  /\ UNCHANGED <<kernelVars, mounts, cur, draft, listing>>

(***************************************************************************)
(* POSIX readdir: a name that was in the directory all along is returned   *)
(* once; one that came or went since opendir may be returned or not.       *)
(***************************************************************************)
NextEntry ==
  /\ pc = "next"
  /\ \E n \in dirSeen \ yielded :
       yielded' = yielded \cup {n} /\ cur' = n /\ quiet' = quiet \cup {n}
  /\ pc' = "whole"
  /\ UNCHANGED <<kernelVars, mounts, dirSeen, dirKept, draft, devices, outcome, listing>>

\* Leave the build of cur without a Device.
Skip ==
  /\ pc' = "next" /\ cur' = NoName /\ draft' = NewDraft
  /\ UNCHANGED devices

\* A bug: every node that is no pseudo-device is taken for a disk.
CheckWhole_AnyNode ==
  /\ pc = "whole"
  /\ IF ~is_pseudo_device(cur) THEN pc' = "size" /\ UNCHANGED <<cur, draft, devices>> ELSE Skip
  /\ UNCHANGED <<kernelVars, dirVars, mounts, outcome, listing, quiet>>

CheckWhole ==
  /\ pc = "whole"
  /\ IF is_whole_disk(cur) /\ ~is_pseudo_device(cur)
       THEN pc' = "size" /\ UNCHANGED <<cur, draft, devices>>
       ELSE Skip
  /\ UNCHANGED <<kernelVars, dirVars, mounts, outcome, listing, quiet>>

\* A bug: the size is read again until it is there.
ReadSize_Retries ==
  /\ pc = "size"
  /\ IF exists(cur, "size")
       THEN pc' = "logical" /\ draft' = [draft EXCEPT !.size = sysfs[cur]["size"] * SectorBytes]
       ELSE UNCHANGED <<pc, draft>>
  /\ UNCHANGED <<kernelVars, dirVars, mounts, cur, devices, outcome, listing, quiet>>

\* A bug: a disk that went away in the middle of its build makes the whole scan start again.
ReadSize_Rescans ==
  /\ pc = "size"
  /\ IF exists(cur, "size")
       THEN /\ draft' = [draft EXCEPT !.size = sysfs[cur]["size"] * SectorBytes]
            /\ pc' = "logical"
            /\ UNCHANGED <<cur, devices>>
       ELSE pc' = "open" /\ cur' = NoName /\ draft' = NewDraft /\ devices' = {}
  /\ UNCHANGED <<kernelVars, dirVars, mounts, outcome, listing, quiet>>

ReadSize ==
  /\ pc = "size"
  /\ IF exists(cur, "size")
       THEN /\ draft' = [draft EXCEPT !.size = sysfs[cur]["size"] * SectorBytes]
            /\ pc' = "logical"
            /\ UNCHANGED <<cur, devices>>
       ELSE Skip
  /\ UNCHANGED <<kernelVars, dirVars, mounts, outcome, listing, quiet>>

\* One attribute read of build_device: `let field = value;`.
Local(stage, field, value, then) ==
  /\ pc = stage
  /\ draft' = [draft EXCEPT ![field] = value]
  /\ pc' = then
  /\ UNCHANGED <<kernelVars, dirVars, mounts, cur, devices, outcome, listing, quiet>>

\* A bug: `?` where the code has unwrap_or: a disk without a request queue is dropped.
ReadLogicalBlockSize_Required ==
  /\ pc = "logical"
  /\ IF exists(cur, "queue/logical_block_size")
       THEN /\ draft' = [draft EXCEPT !.logical_block_size = sysfs[cur]["queue/logical_block_size"]]
            /\ pc' = "physical" /\ UNCHANGED <<cur, devices>>
       ELSE Skip
  /\ UNCHANGED <<kernelVars, dirVars, mounts, outcome, listing, quiet>>

ReadLogicalBlockSize ==
  Local("logical", "logical_block_size", read_attr(cur, "queue/logical_block_size", 512), "physical")

ReadPhysicalBlockSize ==
  Local("physical", "physical_block_size",
        read_attr(cur, "queue/physical_block_size", draft.logical_block_size), "removable")
ReadRemovable == Local("removable", "removable", read_attr(cur, "removable", "0") = "1", "ro")
ReadReadOnly == Local("ro", "read_only", read_attr(cur, "ro", "0") = "1", "model")
ReadModel == Local("model", "model", read_attr(cur, "device/model", "None"), "usb")
DetectUsb == Local("usb", "is_usb", detect_usb(cur), "virtual")

\* The Device struct at the end of build_device.
Built(is_virtual) ==
  [path |-> cur,
   model |-> draft.model,
   size |-> draft.size,
   logical_block_size |-> draft.logical_block_size,
   physical_block_size |-> draft.physical_block_size,
   is_usb |-> draft.is_usb,
   is_removable |-> draft.removable,
   is_system |-> ~draft.removable /\ ~is_virtual,
   is_read_only |-> draft.read_only,
   mountpoints |-> mounts_for(cur, mounts)]

\* A bug: the locals are hoisted out of the loop, and the next build starts from them.
DetectVirtualAndPush_KeepsLocals ==
  /\ pc = "virtual"
  /\ devices' = devices \cup {Built(detect_virtual(cur))}
  /\ pc' = "next" /\ cur' = NoName
  /\ UNCHANGED <<kernelVars, dirVars, mounts, draft, outcome, listing, quiet>>

DetectVirtualAndPush ==
  /\ pc = "virtual"
  /\ devices' = devices \cup {Built(detect_virtual(cur))}
  /\ pc' = "next" /\ cur' = NoName /\ draft' = NewDraft
  /\ UNCHANGED <<kernelVars, dirVars, mounts, outcome, listing, quiet>>

\* s is the Vec after sort_by(path): the Devices of S in ascending path order.
SortedByPath(s, S) ==
  /\ Range(s) = S
  /\ \A i, j \in DOMAIN s : i < j => PathRank[s[i].path] < PathRank[s[j].path]

EndOfDir ==
  /\ pc = "next"
  /\ dirKept \subseteq yielded
  /\ \E s \in [1 .. Cardinality(devices) -> devices] :
       SortedByPath(s, devices) /\ listing' = s
  /\ pc' = "returned" /\ outcome' = "Ok"
  /\ devices' = {} /\ dirSeen' = {} /\ dirKept' = {} /\ yielded' = {}
  /\ UNCHANGED <<kernelVars, mounts, cur, draft, quiet>>

Read ==
  \/ OpenDir \/ NextEntry \/ CheckWhole \/ ReadSize
  \/ ReadLogicalBlockSize \/ ReadPhysicalBlockSize \/ ReadRemovable \/ ReadReadOnly
  \/ ReadModel \/ DetectUsb \/ DetectVirtualAndPush \/ EndOfDir

Call == ReadMounts \/ ReadDirFails \/ Read

-----------------------------------------------------------------------------
(* The kernel, seen from the call in progress.                             *)

AttachSeen(n) ==
  /\ Attach(n)
  /\ dirSeen' = IF Scanning THEN dirSeen \cup {n} ELSE dirSeen
  /\ quiet' = quiet \ {n}
  /\ UNCHANGED <<callVars, dirKept, yielded>>

DetachSeen(n) ==
  /\ Detach(n)
  /\ dirKept' = dirKept \ {n}
  /\ quiet' = quiet \ {n}
  /\ UNCHANGED <<callVars, dirSeen, yielded>>

AlterSeen(n) ==
  /\ Alter(n)
  /\ quiet' = quiet \ {n}
  /\ UNCHANGED <<callVars, dirVars>>

MountSeen == MountEvent /\ UNCHANGED <<callVars, dirVars, quiet>>

Kernel == MountSeen \/ \E n \in Names : AttachSeen(n) \/ DetachSeen(n) \/ AlterSeen(n)

-----------------------------------------------------------------------------
Init ==
  /\ KernelInit
  /\ pc = "idle" /\ outcome = "none" /\ listing = <<>>
  /\ mounts = {} /\ cur = NoName /\ draft = NewDraft /\ devices = {}
  /\ dirSeen = {} /\ dirKept = {} /\ yielded = {} /\ quiet = {}

Next == Call \/ Kernel

Spec == Init /\ [][Next]_vars

-----------------------------------------------------------------------------
(* Properties.                                                             *)

MountPoints == {m.path : m \in MountEntries}
Building == pc \in {"whole"} \cup Stages

Models == {"None"} \cup {h["device/model"] : h \in {x \in Hardware : "device/model" \in DOMAIN x}}

Draft == [size : Nat, logical_block_size : Nat, physical_block_size : Nat,
          removable : BOOLEAN, read_only : BOOLEAN, model : Models, is_usb : BOOLEAN]

Device == [path : Names, model : Models, size : Nat, logical_block_size : Nat,
           physical_block_size : Nat, is_usb : BOOLEAN, is_removable : BOOLEAN,
           is_system : BOOLEAN, is_read_only : BOOLEAN, mountpoints : SUBSET MountPoints]

\* Every variable has its type, and the locals of a build exist only during a build.
TypeOK ==
  /\ KernelTypeOK
  /\ pc \in {"idle", "open", "next", "whole", "returned"} \cup Stages
  /\ mounts \subseteq (Names \cup OtherDevs) \X MountPoints
  /\ dirSeen \subseteq Names /\ dirKept \subseteq dirSeen /\ yielded \subseteq dirSeen
  /\ quiet \subseteq Names
  /\ draft \in Draft
  /\ IF Building THEN cur \in Names ELSE cur = NoName /\ draft = NewDraft
  /\ devices \subseteq Device /\ IsFiniteSet(devices)
  /\ listing \in Seq(Device)
  /\ outcome \in {"none", "Ok", "Io"}

(***************************************************************************)
(* The reference: what a Device of node n says when its directory is read  *)
(* in one piece.  Partitions are told by the kernel's own record of them,  *)
(* not by their names.                                                     *)
(***************************************************************************)
Describe(n) ==
  LET h == sysfs[n]
      has(attr) == attr \in DOMAIN h
      flag(attr) == has(attr) /\ h[attr] = "1"
      lbs == IF has("queue/logical_block_size") THEN h["queue/logical_block_size"] ELSE 512
  IN  [path |-> n,
       model |-> IF has("device/model") THEN h["device/model"] ELSE "None",
       size |-> 512 * h["size"],
       logical_block_size |-> lbs,
       physical_block_size |->
         IF has("queue/physical_block_size") THEN h["queue/physical_block_size"] ELSE lbs,
       is_usb |-> has("device") /\ \E seg \in h["device"] : IsUsbSegment(seg),
       is_removable |-> flag("removable"),
       is_system |-> has("device") /\ ~flag("removable"),
       is_read_only |-> flag("ro"),
       mountpoints |-> {p \in MountPoints : \E x \in {n} \cup PartsOf[n] : <<x, p>> \in mounts}]

Reported == devices \cup Range(listing)

(***************************************************************************)
(* A Device assembled from a dozen separate reads is right, in every       *)
(* field, and is a whole disk, unless the kernel touched that very node    *)
(* since its build began: events on other nodes, even on its siblings      *)
(* that the directory scan passes by, never leak into it.                  *)
(***************************************************************************)
Faithful ==
  \A d \in Reported : d.path \in quiet =>
    /\ d.path \in present
    /\ d.path \notin Partitions
    /\ d = Describe(d.path)

(***************************************************************************)
(* The entries a scan relies on: while the directory is being read, every  *)
(* eligible disk that stayed put and was passed has its Device, no         *)
(* partition that stayed put has one, and nothing is reported that was     *)
(* never there.  enumerate() must not lose a disk because another one was  *)
(* skipped, vanished or failed to read.                                    *)
(***************************************************************************)
Eligible == {n \in Names \ Partitions : ~is_pseudo_device(n)}
Pseudo == {n \in Names : is_pseudo_device(n)}
Paths(S) == {d.path : d \in S}
Passed == yielded \ (IF Building THEN {cur} ELSE {})

ScanComplete ==
  Scanning =>
    /\ dirKept \subseteq present
    /\ Passed \cap dirKept \cap Eligible \subseteq Paths(devices)
    /\ Paths(devices) \subseteq yielded \ Pseudo
    /\ Paths(devices) \cap dirKept \subseteq Eligible

\* enumerate() implements the census: the directory stream is the interval, its
\* Vec is the answer.
Census == INSTANCE DiskCensus WITH
  Nodes <- Names, population <- present, taking <- Scanning,
  throughout <- dirKept, sometime <- dirSeen, answer <- Paths(Range(listing))

ImplementsCensus == Census!CensusSpec

\* A call that has begun returns, whatever the kernel does meanwhile; it needs the
\* fairness of the thread that makes it (ListCommand).
CallReturns == pc = "open" ~> pc = "returned"
-----------------------------------------------------------------------------
(* What the documentation says of the listing.                             *)

\* enumerate/mod.rs:35: "Returns only whole disks (never partitions)".
NeverListsPartition == Paths(Range(listing)) \cap Partitions = {}
=============================================================================
