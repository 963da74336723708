------------------------------ MODULE DiskNames ------------------------------
(***************************************************************************)
(* The string rules of core/src/device/enumerate/linux.rs: which block     *)
(* nodes are pseudo-devices, and which node names a partition of which     *)
(* disk.  A name is a string, and is used as the sequence of its           *)
(* characters.                                                             *)
(***************************************************************************)
EXTENDS SequencesExt

Digit == {"0", "1", "2", "3", "4", "5", "6", "7", "8", "9"}

\* The i-th character of s, and what strip_prefix(s, n characters) leaves.
CharAt(s, i) == SubSeq(s, i, i)
After(s, n) == SubSeq(s, n + 1, Len(s))

AllDigits(s) == \A i \in 1 .. Len(s) : CharAt(s, i) \in Digit
EndsInDigit(s) == Len(s) > 0 /\ CharAt(s, Len(s)) \in Digit

PseudoPrefix == {"loop", "sr", "ram", "dm-", "md", "zram"}

is_pseudo_device(name) == \E p \in PseudoPrefix : IsPrefix(p, name)

(***************************************************************************)
(* A disk whose name ends in a digit takes a mandatory "p" before the      *)
(* partition number (nvme0n1p1); any other disk takes bare digits (sda1).  *)
(***************************************************************************)
is_partition_of(disk, part) ==
  LET rest == After(part, Len(disk))
      number == IF EndsInDigit(disk) THEN After(rest, 1) ELSE rest
  IN  /\ IsPrefix(disk, part)
      /\ EndsInDigit(disk) => IsPrefix("p", rest)
      /\ number # ""
      /\ AllDigits(number)

\* One component of the resolved device link names a USB root hub: "usb", "usb1"...
IsUsbSegment(seg) == IsPrefix("usb", seg) /\ AllDigits(After(seg, 3))
=============================================================================
