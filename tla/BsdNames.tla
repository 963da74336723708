------------------------------- MODULE BsdNames -------------------------------
(***************************************************************************)
(* guess_bsd_flavor() of core/src/detect/tree.rs, on the bytes of a file   *)
(* name or volume label: the vendor words it looks for, and the search of  *)
(* has_openbsd_iso_name() for a token and two digits, one round of its     *)
(* loop at a time.                                                         *)
(*                                                                         *)
(* Positions count bytes from 0, as Rust's slices do.                      *)
(***************************************************************************)
EXTENDS DetectTree, Descent

CONSTANT Labels   \* the name_and_labels, as the bytes of their UTF-8

Byte == 0 .. 255
IsContinuation(b) == b \in 128 .. 191
IsDigit(b) == b \in 48 .. 57

(***************************************************************************)
(* A &str is UTF-8, of which all that matters here is that a continuation  *)
(* byte never follows an ASCII one.                                        *)
(***************************************************************************)
ASSUME LabelsAssumption ==
  /\ Labels \subseteq Seq(Byte)
  /\ \A l \in Labels : \A i \in 1 .. Len(l) :
       IsContinuation(l[i]) => i > 1 /\ l[i - 1] >= 128

freebsd == <<102, 114, 101, 101, 98, 115, 100>>
openbsd == <<111, 112, 101, 110, 98, 115, 100>>
netbsd == <<110, 101, 116, 98, 115, 100>>
dragonfly == <<100, 114, 97, 103, 111, 110, 102, 108, 121>>
dfly == <<100, 102, 108, 121>>

install == <<105, 110, 115, 116, 97, 108, 108>>
cd == <<99, 100>>
Tokens == <<install, cd>>

VARIABLES
  name,    \* name_and_label
  s,       \* its lower-case copy
  pc,      \* "lower", "vendor", "find", "rest" or "done"
  token,   \* the index of the token being looked for
  from,    \* where the search for it goes on
  flavor   \* what guess_bsd_flavor returned

bsdVars == <<name, s, pc, token, from, flavor>>

-----------------------------------------------------------------------------
lower(b) == IF b \in 65 .. 90 THEN b + 32 ELSE b
to_ascii_lowercase(str) == [i \in 1 .. Len(str) |-> lower(str[i])]

\* Word w stands at position p of str.
StandsAt(w, p, str) ==
  p + Len(w) <= Len(str) /\ \A k \in 1 .. Len(w) : str[p + k] = w[k]

contains(str, w) == \E p \in 0 .. Len(str) : StandsAt(w, p, str)

\* take_while(is_ascii_digit).count() >= 2 from position p.
TwoDigits(p, str) == p + 2 <= Len(str) /\ IsDigit(str[p + 1]) /\ IsDigit(str[p + 2])

-----------------------------------------------------------------------------
Return(f) == pc' = "done" /\ flavor' = f /\ UNCHANGED <<token, from>>

Lower ==
  /\ pc = "lower"
  /\ s' = to_ascii_lowercase(name)
  /\ pc' = "vendor"
  /\ UNCHANGED <<name, token, from, flavor>>

Vendor ==
  /\ pc = "vendor"
  /\ IF contains(s, freebsd) THEN Return("FreeBsd")
     ELSE IF contains(s, openbsd) THEN Return("OpenBsd")
     ELSE pc' = "find" /\ token' = 1 /\ from' = 0 /\ UNCHANGED flavor
  /\ UNCHANGED <<name, s>>

\* s[from..].find(token) is Some(p - from).
FindsAt(p) ==
  /\ p \in from .. Len(s)
  /\ StandsAt(Tokens[token], p, s)
  /\ \A q \in from .. p - 1 : ~StandsAt(Tokens[token], q, s)

\* A bug: the rest of the name is not searched after a first token without digits.
Find_FirstOnly(p) ==
  /\ pc = "find" /\ FindsAt(p)
  /\ IF TwoDigits(p + Len(Tokens[token]), s) THEN Return("OpenBsd")
     ELSE pc' = (IF token = 2 THEN "rest" ELSE "find") /\ token' = 2 /\ from' = 0 /\ UNCHANGED flavor
  /\ UNCHANGED <<name, s>>

\* A bug: the byte behind the token, known to be no digit, is skipped as well.
Find_SkipsByte(p) ==
  /\ pc = "find" /\ FindsAt(p)
  /\ LET after == p + Len(Tokens[token])
     IN  IF TwoDigits(after, s) THEN Return("OpenBsd")
         ELSE from' = after + 1 /\ UNCHANGED <<pc, token, flavor>>
  /\ UNCHANGED <<name, s>>

\* A bug: the search goes on where the token was found, not behind it.
Find_Again(p) ==
  /\ pc = "find" /\ FindsAt(p)
  /\ IF TwoDigits(p + Len(Tokens[token]), s) THEN Return("OpenBsd")
     ELSE from' = p /\ UNCHANGED <<pc, token, flavor>>
  /\ UNCHANGED <<name, s>>

\* A bug: find() counts from the slice, and its offset is not added.
Find_FromSlice(p) ==
  /\ pc = "find" /\ FindsAt(p)
  /\ IF TwoDigits(p + Len(Tokens[token]), s) THEN Return("OpenBsd")
     ELSE from' = (p - from) + Len(Tokens[token]) /\ UNCHANGED <<pc, token, flavor>>
  /\ UNCHANGED <<name, s>>

Find(p) ==
  /\ pc = "find" /\ FindsAt(p)
  /\ LET after == p + Len(Tokens[token])
     IN  IF TwoDigits(after, s) THEN Return("OpenBsd")
         ELSE from' = after /\ UNCHANGED <<pc, token, flavor>>
  /\ UNCHANGED <<name, s>>

NextToken ==
  /\ pc = "find"
  /\ \A p \in from .. Len(s) : ~StandsAt(Tokens[token], p, s)
  /\ IF token = 1 THEN token' = 2 /\ from' = 0 /\ UNCHANGED pc
                  ELSE pc' = "rest" /\ UNCHANGED <<token, from>>
  /\ UNCHANGED <<name, s, flavor>>

Rest ==
  /\ pc = "rest"
  /\ IF contains(s, netbsd) THEN Return("NetBsd")
     ELSE IF contains(s, dragonfly) \/ contains(s, dfly) THEN Return("DragonFly")
     ELSE Return("Unknown")
  /\ UNCHANGED <<name, s>>

Init ==
  /\ name \in Labels /\ s = <<>> /\ pc = "lower"
  /\ token = 1 /\ from = 0 /\ flavor = "Unknown"

Next == Lower \/ Vendor \/ (\E p \in 0 .. Len(s) : Find(p)) \/ NextToken \/ Rest

\* One thread, in which nothing blocks: it goes on until it returns.
Spec == Init /\ [][Next]_bsdVars /\ WF_bsdVars(Next)

-----------------------------------------------------------------------------
(* Properties.                                                             *)

\* Every variable has its type, the copy is as long as the name, and from is within it.
TypeOK ==
  /\ name \in Labels
  /\ s \in Seq(Byte) /\ (pc # "lower" => Len(s) = Len(name))
  /\ pc \in {"lower", "vendor", "find", "rest", "done"}
  /\ token \in {1, 2} /\ from \in 0 .. Len(s)
  /\ flavor \in BsdFlavor

(***************************************************************************)
(* s[from..] panics unless from is the start of a character or the end of  *)
(* the string; names hold any UTF-8, and the loop counts bytes.            *)
(***************************************************************************)
AtCharBoundary == pc = "find" /\ from < Len(s) => ~IsContinuation(s[from + 1])

(***************************************************************************)
(* The reference: the vendor words anywhere in the name, whatever its      *)
(* case, where a release name is any token with two digits behind it.      *)
(* The tree's decision is about this set (DetectTree), and the loop, which *)
(* jumps from one token to the next, must not miss a member of it.         *)
(***************************************************************************)
ReleaseAt(w, p, str) == StandsAt(w, p, str) /\ TwoDigits(p + Len(w), str)

WordsIn(str) ==
  {w \in VendorWord :
     CASE w = "freebsd" -> contains(str, freebsd)
       [] w = "openbsd" -> contains(str, openbsd)
       [] w = "installNN" -> \E t \in {install, cd} : \E p \in 0 .. Len(str) : ReleaseAt(t, p, str)
       [] w = "netbsd" -> contains(str, netbsd)
       [] w = "dragonfly" -> contains(str, dragonfly)
       [] w = "dfly" -> contains(str, dfly)}

FlavorIsRight == pc = "done" => flavor = guess_bsd_flavor(WordsIn(to_ascii_lowercase(name)))

(***************************************************************************)
(* Why the loop ends on a name of any length: each round has either a      *)
(* later token to look for, or less of the name to look in.                *)
(***************************************************************************)
Unsearched ==
  <<CASE pc = "lower" -> 4 [] pc = "vendor" -> 3 [] pc = "find" -> 2 [] pc = "rest" -> 1 [] OTHER -> 0,
    2 - token, Len(s) - from>>

EveryRoundCounts == [][LexLess(Unsearched', Unsearched)]_bsdVars

\* Every name is decided: each round of the loop leaves less of it to search.
NameIsDecided == <>(pc = "done")
=============================================================================
