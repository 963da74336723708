----------------------------- MODULE MCMountTable -----------------------------
(***************************************************************************)
(* Mount points of up to four characters after the slash, from those that  *)
(* the kernel and the decoder treat alike or differently: an escaped       *)
(* blank, the backslash, octal digits that a name may put after one, a     *)
(* digit that is not octal, a letter outside ASCII, and (for the second    *)
(* set) two blanks the kernel does not escape.                             *)
(***************************************************************************)
EXTENDS MountTable

OrdinaryChars == {32, Backslash, 48, 52, 56, 233}
UnicodeChars == {32, Backslash, 52, 12288, 13}

Words(chars, n) == UNION {[1 .. m -> chars] : m \in 0 .. n}

MCPaths == {<<Slash>> \o w : w \in Words(OrdinaryChars, 4) \cup Words(UnicodeChars, 4)}
=============================================================================
