------------------------------ MODULE MountTable ------------------------------
(***************************************************************************)
(* One mount point on its way from the kernel to a Device: the kernel      *)
(* prints it into a line of /proc/mounts, read_mounts cuts it out of the   *)
(* line as the second column, and unescape_mount decodes it                *)
(* (core/src/device/enumerate/linux.rs).                                   *)
(*                                                                         *)
(* Characters are Unicode code points: what the code does to bytes it does *)
(* to ASCII characters, since no other byte is a backslash or a digit.     *)
(* The path is valid UTF-8 (read_mounts of SysfsEnumerate is about paths   *)
(* that are not).                                                          *)
(***************************************************************************)
EXTENDS Naturals, Sequences

CONSTANT Paths  \* the mount points the kernel may have to print

Slash == 47
Backslash == 92
OctalDigit == 48 .. 55

\* What the kernel never prints as it is: tab, newline, space and backslash.
Escaped == {9, 10, 32, Backslash}

\* What split_whitespace takes for the end of a column: the White_Space property.
White == (9 .. 13) \cup {32, 133, 160, 5760} \cup (8192 .. 8202) \cup {8232, 8233, 8239, 8287, 12288}

ASSUME PathsAssumption ==
  \A p \in Paths : p \in Seq(Nat) /\ p # <<>> /\ p[1] = Slash

VARIABLES
  path,   \* the mount point
  field,  \* its column of the line, as printed so far
  pc,     \* "print", "columns", "unescape" or "done"
  mnt,    \* the column read_mounts found
  i,      \* the index of unescape_mount
  out,    \* the path it has decoded so far
  at      \* History: where in field each printed character of path begins.

rowVars == <<path, field, pc, mnt, i, out, at>>

-----------------------------------------------------------------------------
(* The kernel: seq_path() with its set of characters to escape.            *)

Digit(n) == 48 + n
mangle(c) ==
  IF c \in Escaped
    THEN <<Backslash, Digit(c \div 64), Digit((c \div 8) % 8), Digit(c % 8)>>
    ELSE <<c>>

PrintChar ==
  /\ pc = "print"
  /\ Len(at) <= Len(path)
  /\ field' = field \o mangle(path[Len(at)])
  /\ at' = Append(at, Len(field') + 1)
  /\ UNCHANGED <<path, pc, mnt, i, out>>

Printed ==
  /\ pc = "print"
  /\ Len(at) > Len(path)
  /\ pc' = "columns"
  /\ UNCHANGED <<path, field, mnt, i, out, at>>

-----------------------------------------------------------------------------
(* read_mounts and unescape_mount.                                         *)

\* c is the column that begins s: all of it, or what stands before the first blank.
IsColumn(c, s) ==
  /\ \E n \in 0 .. Len(s) : c = SubSeq(s, 1, n)
  /\ \A k \in DOMAIN c : c[k] \notin White
  /\ Len(c) < Len(s) => s[Len(c) + 1] \in White

\* A path without a backslash is taken as it is.
Column ==
  /\ pc = "columns"
  /\ \E n \in 0 .. Len(field) : mnt' = SubSeq(field, 1, n) /\ IsColumn(mnt', field)
  /\ IF \E k \in DOMAIN mnt' : mnt'[k] = Backslash
       THEN pc' = "unescape" /\ out' = <<>>
       ELSE pc' = "done" /\ out' = mnt'
  /\ i' = 1
  /\ UNCHANGED <<path, field, at>>

\* Some(byte) of three octal digits that make one, or None.
OctalValue(t) == 64 * (t[1] - 48) + 8 * (t[2] - 48) + (t[3] - 48)
parses_as_octal(t) == (\A k \in 1 .. 3 : t[k] \in OctalDigit) /\ OctalValue(t) <= 255

Triple == <<mnt[i + 1], mnt[i + 2], mnt[i + 3]>>

\* A bug: an escape that ends the column is not seen.
AtEscape_BeforeEnd == mnt[i] = Backslash /\ i + 3 < Len(mnt) /\ parses_as_octal(Triple)

AtEscape == mnt[i] = Backslash /\ i + 3 <= Len(mnt) /\ parses_as_octal(Triple)

\* A bug: the digits are decoded, and then read again.
Decode_KeepsDigits ==
  /\ pc = "unescape" /\ i <= Len(mnt)
  /\ AtEscape
  /\ out' = Append(out, OctalValue(Triple))
  /\ i' = i + 1
  /\ UNCHANGED <<path, field, pc, mnt, at>>

\* A bug: the index moves on at the end of every turn, that of an escape included.
Decode_FallsThrough ==
  /\ pc = "unescape" /\ i <= Len(mnt)
  /\ AtEscape
  /\ out' = Append(out, OctalValue(Triple))
  /\ i' = i + 5
  /\ UNCHANGED <<path, field, pc, mnt, at>>

Decode ==
  /\ pc = "unescape" /\ i <= Len(mnt)
  /\ AtEscape
  /\ out' = Append(out, OctalValue(Triple))
  /\ i' = i + 4
  /\ UNCHANGED <<path, field, pc, mnt, at>>

Copy ==
  /\ pc = "unescape" /\ i <= Len(mnt)
  /\ ~AtEscape
  /\ out' = Append(out, mnt[i])
  /\ i' = i + 1
  /\ UNCHANGED <<path, field, pc, mnt, at>>

Return ==
  /\ pc = "unescape" /\ i > Len(mnt)
  /\ pc' = "done"
  /\ UNCHANGED <<path, field, mnt, i, out, at>>

Init ==
  /\ path \in Paths
  /\ field = <<>> /\ pc = "print" /\ mnt = <<>> /\ i = 1 /\ out = <<>> /\ at = <<1>>

Next == PrintChar \/ Printed \/ Column \/ Decode \/ Copy \/ Return

Spec == Init /\ [][Next]_rowVars

-----------------------------------------------------------------------------
(* Properties.                                                             *)

\* Characters stay characters: the decoder never makes one that is none.
TypeOK ==
  /\ path \in Paths /\ pc \in {"print", "columns", "unescape", "done"}
  /\ field \in Seq(Nat) /\ mnt \in Seq(Nat) /\ out \in Seq(Nat) /\ at \in Seq(Nat)
  /\ i \in 1 .. Len(mnt) + 1

(***************************************************************************)
(* Whatever the kernel prints, the decoder is never out of step with it: a *)
(* backslash of a name is not taken for an escape, nor a digit of the name *)
(* for one of an escape, and what is decoded so far is the beginning of    *)
(* the mount point.                                                        *)
(***************************************************************************)
NeverOutOfStep == Len(out) <= Len(path) /\ \A k \in DOMAIN out : out[k] = path[k]

(***************************************************************************)
(* A mount point is read back whole, with its spaces, tabs, newlines and   *)
(* backslashes, if it has no blank that only Unicode counts as one.        *)
(***************************************************************************)
NoBlank == \A k \in DOMAIN path : path[k] \in White => path[k] \in Escaped

RoundTrip == pc = "done" /\ NoBlank => out = path

-----------------------------------------------------------------------------
(***************************************************************************)
(* linux.rs:198: "Linux paths are arbitrary byte sequences: a mount path   *)
(* may hold non-ASCII UTF-8 (an accented or Arabic volume label)": every   *)
(* mount point is read back whole.                                         *)
(***************************************************************************)
EveryLabelSurvives == pc = "done" => out = path
=============================================================================
