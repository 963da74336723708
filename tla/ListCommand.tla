----------------------------- MODULE ListCommand -----------------------------
(***************************************************************************)
(* The command line, cli/src/main.rs: `osedax list` enumerates the disks   *)
(* and prints one line for each, and one for each of its mounts, while     *)
(* disks come and go.  Standard output is a sequence of lines; a line is   *)
(* what it says, without its layout.                                       *)
(***************************************************************************)
EXTENDS SysfsEnumerate, WriteGuard, Descent

CONSTANT Commands   \* the first arguments: "list", "--version", anything or nothing

ASSUME CommandsAssumption == IsFiniteSet(Commands)

(***************************************************************************)
(* The kernel's names are of bounded length (DISK_NAME_LEN), and a mount   *)
(* table has been printed to its end.                                      *)
(***************************************************************************)
ASSUME FinitenessAssumption ==
  /\ IsFiniteSet(Names)
  /\ \A tab \in InitMounts : IsFiniteSet(tab)

VARIABLES
  cmd,      \* env::args().nth(1)
  proc,     \* "main", "enumerate", "size", "mounts", or how the process ended
  screen,   \* the lines on standard output
  at,       \* the index of the disk in devices
  todo,     \* the mount points of disk not yet printed
  unit,     \* `u` of human_size
  scale     \* what `v` of human_size has been divided by

processVars == <<cmd, proc, screen, at, todo, unit, scale>>
listVars == <<vars, processVars>>

Ended == {"exited", "failed", "panicked"}

-----------------------------------------------------------------------------
(* human_size: v is the exact quotient of the size and a power of 1024.    *)

LastUnit == 5   \* "PB"

\* The nearest integer to n / k, the even one of two that are equally near.
RoundHalfEven(n, k) ==
  LET q == n \div k
      r == n % k
  IN  IF 2 * r > k \/ (2 * r = k /\ q % 2 = 1) THEN q + 1 ELSE q

\* A bug: the size is divided as an integer, and the fraction is lost.
tenths_Truncated(bytes, k) == 10 * (bytes \div k)

\* A bug: the digit after the point is rounded by itself, and its carry lost.
tenths_NoCarry(bytes, k) == 10 * (bytes \div k) + (RoundHalfEven(10 * (bytes % k), k) % 10)

\* {v:.1}, in tenths.
tenths(bytes, k) == 10 * (bytes \div k) + RoundHalfEven(10 * (bytes % k), k)

\* A size in bytes is printed whole.
Shown(bytes) == [unit |-> unit, tenths |-> IF unit = 0 THEN 10 * bytes ELSE tenths(bytes, scale)]

-----------------------------------------------------------------------------
disk == listing[at]

NoDisks == [says |-> "No disks detected."]
Version == [says |-> "version"]
MountLine(path) == [says |-> "mounted at", path |-> path]
Header ==
  [says |-> "disk", path |-> disk.path, size |-> Shown(disk.size), model |-> disk.model,
   flags |-> {f \in {"usb", "removable", "system", "ro"} :
                CASE f = "usb" -> disk.is_usb [] f = "removable" -> disk.is_removable
                  [] f = "system" -> disk.is_system [] f = "ro" -> disk.is_read_only},
   default |-> is_safe_default_target(disk)]

println(line) == screen' = Append(screen, line)

Dispatch ==
  /\ proc = "main"
  /\ CASE cmd = "list" -> proc' = "enumerate" /\ UNCHANGED screen
       [] cmd \in {"--version", "-V"} -> proc' = "exited" /\ println(Version)
       [] OTHER -> proc' = "exited" /\ UNCHANGED screen   \* the usage goes to stderr
  /\ UNCHANGED <<vars, cmd, at, todo, unit, scale>>

Enumerate ==
  /\ proc = "enumerate" /\ pc # "returned"
  /\ Call
  /\ UNCHANGED processVars

\* The locals of the next disk's line.
Begin(i) == at' = i /\ unit' = 0 /\ scale' = 1

\* A bug: an enumeration that failed is tried again at once, for as long as it fails.
Enumerated_Retries ==
  /\ proc = "enumerate" /\ pc = "returned"
  /\ CASE outcome = "Io" -> pc' = "idle" /\ UNCHANGED <<proc, screen, at, unit, scale>>
       [] outcome = "Ok" /\ listing = <<>> ->
            proc' = "exited" /\ println(NoDisks) /\ UNCHANGED <<pc, at, unit, scale>>
       [] OTHER -> proc' = "size" /\ Begin(1) /\ UNCHANGED <<pc, screen>>
  /\ UNCHANGED <<kernelVars, mounts, cur, draft, devices, outcome, listing, dirVars, quiet, cmd, todo>>

\* `?` passes an error on to main, which returns it: nothing was printed.
Enumerated ==
  /\ proc = "enumerate" /\ pc = "returned"
  /\ CASE outcome = "Io" -> proc' = "failed" /\ UNCHANGED <<screen, at, unit, scale>>
       [] outcome = "Ok" /\ listing = <<>> ->
            proc' = "exited" /\ println(NoDisks) /\ UNCHANGED <<at, unit, scale>>
       [] OTHER -> proc' = "size" /\ Begin(1) /\ UNCHANGED screen
  /\ UNCHANGED <<vars, cmd, todo>>

TooBig == disk.size >= 1024 * scale /\ unit < LastUnit

Divide ==
  /\ proc = "size" /\ TooBig
  /\ unit' = unit + 1 /\ scale' = 1024 * scale
  /\ UNCHANGED <<vars, cmd, proc, screen, at, todo>>

PrintDisk ==
  /\ proc = "size" /\ ~TooBig
  /\ println(Header)
  /\ proc' = "mounts" /\ todo' = disk.mountpoints
  /\ UNCHANGED <<vars, cmd, at, unit, scale>>

\* A bug: one mount per disk is shown, as if a disk had no partitions.
PrintMount_Once ==
  /\ proc = "mounts"
  /\ \E path \in todo : println(MountLine(path))
  /\ todo' = {}
  /\ UNCHANGED <<vars, cmd, proc, at, unit, scale>>

PrintMount ==
  /\ proc = "mounts"
  /\ \E path \in todo : println(MountLine(path)) /\ todo' = todo \ {path}
  /\ UNCHANGED <<vars, cmd, proc, at, unit, scale>>

\* A bug: u is declared outside the loop over the disks, and not reset for the next one.
NextDisk_KeepsUnit ==
  /\ proc = "mounts" /\ todo = {}
  /\ IF at < Len(listing) THEN proc' = "size" /\ at' = at + 1 ELSE proc' = "exited" /\ UNCHANGED at
  /\ UNCHANGED <<vars, cmd, screen, todo, unit, scale>>

NextDisk ==
  /\ proc = "mounts" /\ todo = {}
  /\ IF at < Len(listing) THEN proc' = "size" /\ Begin(at + 1)
                          ELSE proc' = "exited" /\ UNCHANGED <<at, unit, scale>>
  /\ UNCHANGED <<vars, cmd, screen, todo>>

\* println! panics when the reader of a pipe has gone.
PrintFails ==
  /\ \/ proc = "size" /\ ~TooBig
     \/ proc = "mounts" /\ todo # {}
     \/ proc = "enumerate" /\ pc = "returned" /\ outcome = "Ok" /\ listing = <<>>
     \/ proc = "main" /\ cmd \in {"--version", "-V"}
  /\ proc' = "panicked"
  /\ UNCHANGED <<vars, cmd, screen, at, todo, unit, scale>>

Report == Enumerated \/ Divide \/ PrintDisk \/ PrintMount \/ NextDisk

Meanwhile == Kernel /\ UNCHANGED processVars

-----------------------------------------------------------------------------
ListInit ==
  /\ Init
  /\ cmd \in Commands /\ proc = "main" /\ screen = <<>>
  /\ at = 0 /\ todo = {} /\ unit = 0 /\ scale = 1

ListNext == Dispatch \/ Enumerate \/ Report \/ PrintFails \/ Meanwhile

(***************************************************************************)
(* The process is one thread, in which nothing blocks: it goes on until it *)
(* ends.  An I/O error and a closed pipe are never owed.                   *)
(***************************************************************************)
Runs == Dispatch \/ (Enumerate /\ (ReadMounts \/ Read)) \/ Report

ListSpec == ListInit /\ [][ListNext]_listVars /\ WF_listVars(Runs)

-----------------------------------------------------------------------------
(* Properties.                                                             *)

DiskLines == {i \in DOMAIN screen : screen[i].says = "disk"}
MountLines == {i \in DOMAIN screen : screen[i].says = "mounted at"}

\* Every variable has its type; the locals are those of the disk being printed.
ListTypeOK ==
  /\ cmd \in Commands
  /\ proc \in {"main", "enumerate", "size", "mounts"} \cup Ended
  /\ proc \in {"size", "mounts"} => at \in 1 .. Len(listing) /\ todo \subseteq disk.mountpoints
  /\ unit \in 0 .. LastUnit /\ scale \in Nat \ {0}
  /\ proc = "size" => unit = 0 \/ disk.size >= scale

(***************************************************************************)
(* The screen tells the listing, in its order, however it ends: the disks  *)
(* it names are the first of the listing, a disk that is followed by       *)
(* another or by the end has all its mounts below it, none of them twice   *)
(* and none of another disk's; and an enumeration that failed leaves no    *)
(* line that could be taken for a listing.                                 *)
(***************************************************************************)
Disks == Cardinality(DiskLines)
Owner(i) == Cardinality({j \in DiskLines : j <= i})
MountsBelow(k) == {i \in MountLines : Owner(i) = k}
PathsBelow(k) == {screen[i].path : i \in MountsBelow(k)}

ScreenTellsListing ==
  /\ Disks <= Len(listing)
  /\ \A i \in DiskLines : screen[i].path = listing[Owner(i)].path
  /\ \A k \in 1 .. Disks :
       /\ PathsBelow(k) \subseteq listing[k].mountpoints
       /\ Cardinality(MountsBelow(k)) = Cardinality(PathsBelow(k))
       /\ (k < Disks \/ proc = "exited") => PathsBelow(k) = listing[k].mountpoints
  /\ MountsBelow(0) = {}
  /\ proc = "exited" /\ cmd = "list" =>
       /\ Disks = Len(listing) /\ outcome = "Ok"
       /\ screen = <<NoDisks>> <=> listing = <<>>
  /\ proc = "failed" => screen = <<>>

(***************************************************************************)
(* What the mark "<- default" is worth: as long as the kernel has not      *)
(* touched that node, it really is a removable USB disk that can be        *)
(* written, and the guard, asked about it without force, has nothing to    *)
(* say against the disk itself.                                            *)
(***************************************************************************)
NoFiles == [p \in {} |-> p]

Harmless(n) ==
  /\ n \in present \ Partitions
  /\ read_attr(n, "removable", "0") = "1" /\ read_attr(n, "ro", "0") # "1"
  /\ \E seg \in read_attr(n, "device", {}) : IsUsbSegment(seg)

DefaultIsHarmless ==
  \A i \in DiskLines : screen[i].default =>
    /\ screen[i].path \in quiet => Harmless(screen[i].path)
    /\ \A dev \in Range(listing) : dev.path = screen[i].path =>
         check_write_allowed(dev, Root, dev.size, FALSE, NoFiles)
           \notin {"SystemDrive", "ReadOnly"}

(***************************************************************************)
(* A size is printed to the nearest tenth of its unit, and below 1024 of   *)
(* it but for the rounding (a disk just short of 1 GB reads 1024.0 MB).    *)
(* The loop divides a floating-point number and stops at the last unit: a  *)
(* size is a multiple of 512 below 2^62, so the number is the exact        *)
(* quotient, and only the last rounding loses anything.                    *)
(***************************************************************************)
ScaleOf(u) ==
  CASE u = 0 -> 1
    [] u = 1 -> 1024
    [] u = 2 -> 1024 * 1024
    [] u = 3 -> 1024 * 1024 * 1024
    [] u = 4 -> 1024 * 1024 * 1024 * 1024
    [] u = 5 -> 1024 * 1024 * 1024 * 1024 * 1024

Accurate(bytes, shown) ==
  LET k == ScaleOf(shown.unit)
      over == (shown.tenths - 10 * (bytes \div k)) * k - 10 * (bytes % k)
  IN  /\ 2 * over <= k /\ -k <= 2 * over
      /\ shown.unit > 0 => shown.tenths >= 10
      /\ shown.unit < LastUnit => shown.tenths <= 10240

SizeAccurate ==
  \A i \in DiskLines, dev \in Range(listing) :
    dev.path = screen[i].path => Accurate(dev.size, screen[i].size)

\* Rounding never turns two disks round: the larger one is not shown as the smaller.
AtMost(a, b) == a.unit < b.unit \/ (a.unit = b.unit /\ a.tenths <= b.tenths)

SizesInOrder ==
  \A i, j \in DiskLines : \A dev, other \in Range(listing) :
    dev.path = screen[i].path /\ other.path = screen[j].path /\ dev.size <= other.size =>
      AtMost(screen[i].size, screen[j].size)

(***************************************************************************)
(* Why it ends, without a bound on what the kernel does: what is owed,     *)
(* from the outermost loop to the innermost.  No retry, no second scan:    *)
(* every step of the process leaves less of it, and no event of the        *)
(* kernel, however often a disk comes and goes, adds to it.                *)
(***************************************************************************)
OwedByProcess == CASE proc = "main" -> 3 [] proc = "enumerate" -> 2 [] proc \in Ended -> 0 [] OTHER -> 1
OwedByCall == CASE pc = "idle" -> 3 [] pc = "open" -> 2 [] pc = "returned" -> 0 [] OTHER -> 1
OwedByBuild ==
  CASE pc = "whole" -> 9 [] pc = "size" -> 8 [] pc = "logical" -> 7 [] pc = "physical" -> 6
    [] pc = "removable" -> 5 [] pc = "ro" -> 4 [] pc = "model" -> 3 [] pc = "usb" -> 2
    [] pc = "virtual" -> 1 [] OTHER -> 0

Owed ==
  <<OwedByProcess, OwedByCall, Cardinality(Names \ yielded), OwedByBuild,
    Len(listing) - at, IF proc = "size" THEN 1 ELSE 0, LastUnit - unit, Cardinality(todo)>>

EveryStepCounts == [][LexLess(Owed', Owed) \/ (Meanwhile /\ Owed' = Owed)]_listVars

\* `osedax` ends, whatever the kernel does and however large a disk is.
ListEnds == <>(proc \in Ended)
=============================================================================
