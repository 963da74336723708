---------------------------- MODULE BsdNames_proofs ----------------------------
(***************************************************************************)
(* For every name, of any length: guess_bsd_flavor() never slices inside a *)
(* character, and returns what the vendor words in the name say, although  *)
(* its search jumps from one occurrence of a token to the next.            *)
(***************************************************************************)
EXTENDS BsdNames, Descent_proofs

\* What the search relies on: the tokens are ASCII, and their first byte does not recur.
GoodToken(w) ==
  /\ Len(w) \in Nat /\ Len(w) >= 2
  /\ \A k \in 1 .. Len(w) : w[k] \in 0 .. 127
  /\ \A k \in 2 .. Len(w) : w[k] # w[1]

LEMMA TokensAreGood == \A t \in {1, 2} : GoodToken(Tokens[t])
<1>1. GoodToken(install)
  BY DEF GoodToken, install
<1>2. GoodToken(cd)
  BY DEF GoodToken, cd
<1> QED
  BY <1>1, <1>2 DEF Tokens

\* Two occurrences of a token do not overlap.
LEMMA OccurrencesApart ==
  ASSUME NEW w, GoodToken(w), NEW str, NEW p \in Nat, NEW q \in Nat,
         StandsAt(w, p, str), StandsAt(w, q, str), p < q
  PROVE  p + Len(w) <= q
<1> SUFFICES ASSUME q < p + Len(w) PROVE FALSE
  BY DEF GoodToken
<1>1. q - p + 1 \in 2 .. Len(w)
  BY DEF GoodToken
<1>2. str[p + (q - p + 1)] = w[q - p + 1]
  BY <1>1 DEF StandsAt, GoodToken
<1>3. str[q + 1] = w[1]
  BY DEF StandsAt, GoodToken
<1>4. p + (q - p + 1) = q + 1
  OBVIOUS
<1> QED
  BY <1>1, <1>2, <1>3, <1>4 DEF GoodToken

\* Lower-casing keeps the length, the bytes above ASCII, and the place of continuations.
LEMMA LowerKeepsCharacters ==
  ASSUME NEW l \in Labels
  PROVE  /\ to_ascii_lowercase(l) \in Seq(Byte) /\ Len(to_ascii_lowercase(l)) = Len(l)
         /\ \A i \in 1 .. Len(l) : IsContinuation(to_ascii_lowercase(l)[i]) =>
              i > 1 /\ to_ascii_lowercase(l)[i - 1] >= 128
<1>1. l \in Seq(Byte) /\ Len(l) \in Nat
  BY LabelsAssumption
<1>2. \A i \in 1 .. Len(l) : l[i] \in Byte
  BY <1>1
<1>3. \A b \in Byte : lower(b) \in Byte /\ (b >= 128 => lower(b) = b)
                      /\ (IsContinuation(lower(b)) => IsContinuation(b))
  BY DEF Byte, lower, IsContinuation
<1>4. to_ascii_lowercase(l) = [i \in 1 .. Len(l) |-> lower(l[i])]
  BY DEF to_ascii_lowercase
<1>5. to_ascii_lowercase(l) \in Seq(Byte) /\ Len(to_ascii_lowercase(l)) = Len(l)
  BY <1>1, <1>2, <1>3, <1>4
<1>6. ASSUME NEW i \in 1 .. Len(l), IsContinuation(to_ascii_lowercase(l)[i])
      PROVE  i > 1 /\ to_ascii_lowercase(l)[i - 1] >= 128
  <2>1. IsContinuation(l[i])
    BY <1>2, <1>3, <1>4, <1>6
  <2>2. i > 1 /\ l[i - 1] >= 128
    BY <2>1, LabelsAssumption
  <2>3. i - 1 \in 1 .. Len(l)
    BY <1>1, <2>2
  <2> QED
    BY <1>2, <1>3, <1>4, <2>2, <2>3
<1> QED
  BY <1>5, <1>6

-----------------------------------------------------------------------------
(* The inductive invariant.                                                *)

\* No occurrence of the first tokens, nor of the present one before from, is a release.
Searched ==
  /\ pc = "find" => \A t \in {1, 2} : \A p \in 0 .. Len(s) :
       t < token \/ (t = token /\ p < from) => ~ReleaseAt(Tokens[t], p, s)
  /\ pc = "rest" => \A t \in {1, 2} : \A p \in 0 .. Len(s) : ~ReleaseAt(Tokens[t], p, s)

Inv ==
  /\ TypeOK
  /\ pc = "lower" => s = <<>> /\ from = 0
  /\ pc # "lower" => s = to_ascii_lowercase(name)
  /\ pc \in {"find", "rest"} => ~contains(s, freebsd) /\ ~contains(s, openbsd)
  /\ pc = "vendor" => from = 0
  /\ pc = "find" /\ from > 0 => s[from] < 128
  /\ Searched
  /\ FlavorIsRight

\* The reference, by the order of the words.
LEMMA FlavorOfWords ==
  ASSUME NEW str
  PROVE  /\ contains(str, freebsd) => guess_bsd_flavor(WordsIn(str)) = "FreeBsd"
         /\ ~contains(str, freebsd) /\ contains(str, openbsd) =>
              guess_bsd_flavor(WordsIn(str)) = "OpenBsd"
         /\ ~contains(str, freebsd)
            /\ (\E t \in {1, 2} : \E p \in 0 .. Len(str) : ReleaseAt(Tokens[t], p, str)) =>
              guess_bsd_flavor(WordsIn(str)) = "OpenBsd"
         /\ ~contains(str, freebsd) /\ ~contains(str, openbsd)
            /\ (\A t \in {1, 2} : \A p \in 0 .. Len(str) : ~ReleaseAt(Tokens[t], p, str)) =>
              guess_bsd_flavor(WordsIn(str)) =
                IF contains(str, netbsd) THEN "NetBsd"
                ELSE IF contains(str, dragonfly) \/ contains(str, dfly) THEN "DragonFly"
                ELSE "Unknown"
<1>1. Tokens[1] = install /\ Tokens[2] = cd
  BY DEF Tokens
<1> DEFINE release == \E t \in {install, cd} : \E p \in 0 .. Len(str) : ReleaseAt(t, p, str)
<1>2. release <=> \E t \in {1, 2} : \E p \in 0 .. Len(str) : ReleaseAt(Tokens[t], p, str)
  BY <1>1
<1>3. /\ "freebsd" \in WordsIn(str) <=> contains(str, freebsd)
      /\ "openbsd" \in WordsIn(str) <=> contains(str, openbsd)
      /\ "installNN" \in WordsIn(str) <=> release
      /\ "netbsd" \in WordsIn(str) <=> contains(str, netbsd)
      /\ "dragonfly" \in WordsIn(str) <=> contains(str, dragonfly)
      /\ "dfly" \in WordsIn(str) <=> contains(str, dfly)
  BY DEF WordsIn, VendorWord
<1> HIDE DEF release
<1> DEFINE W == WordsIn(str)
<1>4. guess_bsd_flavor(W) =
        IF "freebsd" \in W THEN "FreeBsd"
        ELSE IF "openbsd" \in W \/ "installNN" \in W THEN "OpenBsd"
        ELSE IF "netbsd" \in W THEN "NetBsd"
        ELSE IF "dragonfly" \in W \/ "dfly" \in W THEN "DragonFly"
        ELSE "Unknown"
  BY DEF guess_bsd_flavor
<1> HIDE DEF W
<1> QED
  BY <1>2, <1>3, <1>4 DEF W

LEMMA InitInv == Init => Inv
BY LabelsAssumption DEF Init, Inv, TypeOK, Searched, FlavorIsRight, BsdFlavor

\* A round of the loop keeps the invariant: nothing between two occurrences is a release.
LEMMA FindKeepsInv ==
  ASSUME Inv, NEW p \in 0 .. Len(s), Find(p)
  PROVE  Inv'
<1> DEFINE w == Tokens[token]
           after == p + Len(w)
<1> USE DEF Inv
<1>1. GoodToken(w)
  BY TokensAreGood DEF TypeOK
<1>2. /\ pc = "find" /\ token \in {1, 2} /\ s \in Seq(Byte) /\ Len(s) \in Nat
      /\ from \in 0 .. Len(s) /\ p \in from .. Len(s) /\ UNCHANGED <<name, s>>
      /\ StandsAt(w, p, s)
      /\ \A q \in from .. p - 1 : ~StandsAt(w, q, s)
  BY DEF TypeOK, Find, FindsAt
<1> HIDE DEF w
<1>3. after \in 1 .. Len(s) /\ s[after] < 128
  <2>1. after \in 1 .. Len(s) /\ p + Len(w) = after /\ Len(w) \in 1 .. Len(w)
    BY <1>1, <1>2 DEF StandsAt, GoodToken
  <2>2. w[Len(w)] \in 0 .. 127
    BY <1>1, <2>1 DEF GoodToken
  <2>3. s[p + Len(w)] = w[Len(w)]
    BY <1>1, <1>2, <2>1 DEF StandsAt, GoodToken
  <2>4. s[after] \in 0 .. 127
    BY <2>2, <2>3
  <2>5. \A b \in 0 .. 127 : b < 128
    OBVIOUS
  <2>6. s[after] < 128
    BY <2>4, <2>5
  <2> QED
    BY <2>1, <2>6
<1>4. CASE TwoDigits(after, s)
  <2>1. pc' = "done" /\ flavor' = "OpenBsd" /\ UNCHANGED <<token, from>>
    BY <1>4 DEF Find, Return, w
  <2>2. ReleaseAt(w, p, s)
    BY <1>2, <1>4 DEF ReleaseAt
  <2>3. guess_bsd_flavor(WordsIn(s)) = "OpenBsd"
    BY <1>2, <2>2, FlavorOfWords DEF w
  <2>4. FlavorIsRight'
    BY <1>2, <2>1, <2>3 DEF FlavorIsRight
  <2> QED
    BY <1>2, <2>1, <2>4 DEF TypeOK, Searched, BsdFlavor
<1>5. CASE ~TwoDigits(after, s)
  <2>1. from' = after /\ UNCHANGED <<pc, token, flavor>>
    BY <1>5 DEF Find, w
  <2> HIDE DEF after
  <2>2. ASSUME NEW q \in 0 .. Len(s), q < after
        PROVE  ~ReleaseAt(w, q, s)
    <3>1. CASE q < from
      BY <1>2, <3>1 DEF Searched, w
    <3>2. CASE q \in from .. p - 1
      BY <1>2, <3>2 DEF ReleaseAt
    <3>3. CASE q = p
      BY <1>5, <3>3 DEF ReleaseAt, after
    <3>4. CASE q > p
      <4>1. StandsAt(w, q, s) => p + Len(w) <= q
        BY <1>1, <1>2, <3>4, OccurrencesApart
      <4> QED
        BY <1>1, <1>2, <2>2, <4>1 DEF ReleaseAt, after, GoodToken
    <3> QED
      BY <1>2, <3>1, <3>2, <3>3, <3>4
  <2>3. Searched'
    <3>1. pc' = "find" /\ s' = s /\ token' = token /\ from' = after
      BY <1>2, <2>1
    <3>2. ASSUME NEW t \in {1, 2}, NEW q \in 0 .. Len(s), t < token \/ (t = token /\ q < after)
          PROVE  ~ReleaseAt(Tokens[t], q, s)
      <4>1. CASE t < token
        BY <1>2, <4>1 DEF Searched
      <4>2. CASE t = token /\ q < after
        BY <2>2, <4>2 DEF w
      <4> QED
        BY <3>2, <4>1, <4>2
    <3> QED
      BY <3>1, <3>2 DEF Searched
  <2>4. TypeOK'
    BY <1>2, <1>3, <2>1 DEF TypeOK
  <2>5. FlavorIsRight'
    BY <1>2, <2>1 DEF FlavorIsRight
  <2> QED
    BY <1>2, <1>3, <2>1, <2>3, <2>4, <2>5
<1> QED
  BY <1>4, <1>5

LEMMA NextInv == Inv /\ [Next]_bsdVars => Inv'
<1> SUFFICES ASSUME Inv, [Next]_bsdVars PROVE Inv'
  OBVIOUS
<1> USE DEF Inv
<1>1. CASE Lower
  <2>1. name \in Labels /\ name' = name /\ s' = to_ascii_lowercase(name) /\ pc' = "vendor"
        /\ UNCHANGED <<token, from, flavor>> /\ from = 0
    BY <1>1 DEF Lower, TypeOK
  <2>2. s' \in Seq(Byte) /\ Len(s') = Len(name) /\ Len(name) \in Nat
    BY <2>1, LowerKeepsCharacters, LabelsAssumption
  <2> QED
    BY <2>1, <2>2 DEF TypeOK, Searched, FlavorIsRight
<1>2. CASE Vendor
  <2>1. s = to_ascii_lowercase(name) /\ UNCHANGED <<name, s>> /\ Len(s) \in Nat
    BY <1>2 DEF Vendor, TypeOK
  <2>2. CASE contains(s, freebsd)
    BY <1>2, <2>1, <2>2, FlavorOfWords DEF Vendor, Return, TypeOK, Searched, FlavorIsRight, BsdFlavor
  <2>3. CASE ~contains(s, freebsd) /\ contains(s, openbsd)
    BY <1>2, <2>1, <2>3, FlavorOfWords DEF Vendor, Return, TypeOK, Searched, FlavorIsRight, BsdFlavor
  <2>4. CASE ~contains(s, freebsd) /\ ~contains(s, openbsd)
    BY <1>2, <2>1, <2>4 DEF Vendor, TypeOK, Searched, FlavorIsRight
  <2> QED
    BY <2>2, <2>3, <2>4
<1>3. ASSUME NEW p \in 0 .. Len(s), Find(p) PROVE Inv'
  BY <1>3, FindKeepsInv
<1>4. CASE NextToken
  <2>1. /\ pc = "find" /\ UNCHANGED <<name, s, flavor>> /\ token \in {1, 2} /\ Len(s) \in Nat
        /\ from \in 0 .. Len(s)
        /\ \A p \in from .. Len(s) : ~StandsAt(Tokens[token], p, s)
    BY <1>4 DEF NextToken, TypeOK
  <2>2. ASSUME NEW p \in 0 .. Len(s) PROVE ~ReleaseAt(Tokens[token], p, s)
    <3>1. CASE p < from
      BY <2>1, <3>1 DEF Searched
    <3>2. CASE p >= from
      <4>1. p \in from .. Len(s)
        BY <2>1, <3>2
      <4> QED
        BY <2>1, <4>1 DEF ReleaseAt
    <3> QED
      BY <2>1, <3>1, <3>2
  <2>3. CASE token = 1
    BY <1>4, <2>1, <2>2, <2>3 DEF NextToken, TypeOK, Searched, FlavorIsRight
  <2>4. CASE token = 2
    <3>1. pc' = "rest" /\ UNCHANGED <<token, from>>
      BY <1>4, <2>4 DEF NextToken
    <3>2. \A t \in {1, 2} : \A p \in 0 .. Len(s) : ~ReleaseAt(Tokens[t], p, s)
      <4>1. \A p \in 0 .. Len(s) : ~ReleaseAt(Tokens[1], p, s)
        BY <2>1, <2>4 DEF Searched
      <4> QED
        BY <2>2, <2>4, <4>1
    <3>3. Searched'
      BY <2>1, <3>1, <3>2 DEF Searched
    <3> QED
      BY <2>1, <3>1, <3>3 DEF TypeOK, FlavorIsRight
  <2> QED
    BY <2>1, <2>3, <2>4
<1>5. CASE Rest
  <2>1. pc = "rest" /\ s = to_ascii_lowercase(name) /\ UNCHANGED <<name, s>> /\ pc' = "done"
        /\ UNCHANGED <<token, from>>
    BY <1>5 DEF Rest, Return
  <2>2. flavor' = IF contains(s, netbsd) THEN "NetBsd"
                  ELSE IF contains(s, dragonfly) \/ contains(s, dfly) THEN "DragonFly"
                  ELSE "Unknown"
    BY <1>5 DEF Rest, Return
  <2>3. flavor' = guess_bsd_flavor(WordsIn(s))
    BY <2>1, <2>2, FlavorOfWords DEF Searched
  <2> QED
    BY <2>1, <2>2, <2>3 DEF TypeOK, Searched, FlavorIsRight, BsdFlavor
<1>6. CASE UNCHANGED bsdVars
  BY <1>6 DEF bsdVars, TypeOK, Searched, FlavorIsRight
<1> QED
  BY <1>1, <1>2, <1>3, <1>4, <1>5, <1>6 DEF Next

\* The byte in front of from is ASCII, so that none of its own kind follows.
LEMMA InvAtCharBoundary == Inv => AtCharBoundary
<1> SUFFICES ASSUME Inv, pc = "find", from < Len(s), IsContinuation(s[from + 1]) PROVE FALSE
  BY DEF AtCharBoundary
<1>1. name \in Labels /\ s = to_ascii_lowercase(name) /\ from \in 0 .. Len(s) /\ Len(s) = Len(name)
      /\ Len(s) \in Nat
  BY DEF Inv, TypeOK
<1>2. from + 1 \in 1 .. Len(name) /\ (from + 1) - 1 = from
  BY <1>1
<1>3. from + 1 > 1 /\ s[from] >= 128
  BY <1>1, <1>2, LowerKeepsCharacters
<1>4. s[from] < 128
  BY <1>1, <1>3 DEF Inv
<1>5. from \in 1 .. Len(s) /\ s \in Seq(Byte)
  BY <1>1, <1>3 DEF Inv, TypeOK
<1>6. s[from] \in Byte
  BY <1>5
<1>7. \A b \in Byte : ~(b >= 128 /\ b < 128)
  BY DEF Byte
<1> QED
  BY <1>3, <1>4, <1>6, <1>7

LEMMA InvHolds == Spec => []Inv
BY InitInv, NextInv, PTL DEF Spec

\* guess_bsd_flavor keeps the types of its locals, and from within the name.
THEOREM NamesTypeCorrect == Spec => []TypeOK
<1>1. Inv => TypeOK
  BY DEF Inv
<1> QED
  BY <1>1, InvHolds, PTL

\* s[from..] never panics: from is at the start of a character, whatever the name holds.
THEOREM SlicesAtCharacters == Spec => []AtCharBoundary
BY InvHolds, InvAtCharBoundary, PTL

\* The flavor is that of the vendor words and release names anywhere in the name.
THEOREM FlavorOfEveryName == Spec => []FlavorIsRight
<1>1. Inv => FlavorIsRight
  BY DEF Inv
<1> QED
  BY <1>1, InvHolds, PTL

-----------------------------------------------------------------------------
(* The loop ends.                                                          *)

PhaseLeft ==
  CASE pc = "lower" -> 4 [] pc = "vendor" -> 3 [] pc = "find" -> 2 [] pc = "rest" -> 1 [] OTHER -> 0

\* The first of the three counts that changes has become less.
LEMMA LessUnsearched ==
  ASSUME \/ PhaseLeft' < PhaseLeft
         \/ PhaseLeft' = PhaseLeft /\ 2 - token' < 2 - token
         \/ PhaseLeft' = PhaseLeft /\ token' = token /\ Len(s') - from' < Len(s) - from
  PROVE  LexLess(Unsearched', Unsearched)
<1> DEFINE a == Unsearched'
           b == Unsearched
<1>1. /\ DOMAIN a = 1 .. 3
      /\ a[1] = PhaseLeft' /\ a[2] = 2 - token' /\ a[3] = Len(s') - from'
  BY DEF Unsearched, PhaseLeft
<1>2. b[1] = PhaseLeft /\ b[2] = 2 - token /\ b[3] = Len(s) - from
  BY DEF Unsearched, PhaseLeft
<1> HIDE DEF a, b
<1>3. \E i \in 1 .. 3 : a[i] < b[i] /\ \A j \in 1 .. i - 1 : a[j] = b[j]
  BY <1>1, <1>2
<1>4. LexLess(a, b)
  BY <1>1, <1>3 DEF LexLess
<1> QED
  BY <1>4 DEF a, b

LEMMA StepSearches == TypeOK /\ Next => LexLess(Unsearched', Unsearched)
<1> SUFFICES ASSUME TypeOK, Next PROVE LexLess(Unsearched', Unsearched)
  OBVIOUS
<1>1. CASE PhaseLeft' < PhaseLeft
  BY <1>1, LessUnsearched
<1>2. CASE \E p \in 0 .. Len(s) : Find(p)
  <2>1. PICK p \in 0 .. Len(s) : Find(p)
    BY <1>2
  <2>2. pc = "find" /\ p >= from /\ token \in {1, 2} /\ from \in 0 .. Len(s) /\ Len(s) \in Nat
    BY <2>1 DEF Find, FindsAt, TypeOK
  <2>3. CASE pc' = "done"
    BY <1>1, <2>2, <2>3 DEF PhaseLeft
  <2>4. CASE pc' # "done"
    <3>1. pc' = pc /\ token' = token /\ s' = s /\ from' = p + Len(Tokens[token])
      BY <2>1, <2>4 DEF Find, Return
    <3>2. Len(Tokens[token]) \in Nat /\ Len(Tokens[token]) >= 2
      BY <2>2, TokensAreGood DEF GoodToken
    <3>3. PhaseLeft' = PhaseLeft
      BY <3>1 DEF PhaseLeft
    <3>4. Len(s') - from' < Len(s) - from
      <4> DEFINE width == Len(Tokens[token])
                 size == Len(s)
      <4>1. from' = p + width /\ Len(s') = size /\ width \in Nat /\ width >= 2
        BY <3>1, <3>2
      <4>2. p >= from /\ from \in Nat /\ p \in Nat /\ size \in Nat
        BY <2>2
      <4> HIDE DEF width, size
      <4>3. size - (p + width) < size - from
        BY <4>1, <4>2
      <4> QED
        BY <4>1, <4>3 DEF size
    <3> QED
      BY <3>1, <3>3, <3>4, LessUnsearched
  <2> QED
    BY <2>3, <2>4
<1>3. CASE NextToken
  <2>1. \/ token = 1 /\ token' = 2 /\ pc' = pc
        \/ pc = "find" /\ pc' = "rest"
    BY <1>3 DEF NextToken
  <2>2. CASE token = 1 /\ token' = 2 /\ pc' = pc
    <3>1. PhaseLeft' = PhaseLeft /\ 2 - token' < 2 - token
      BY <2>2 DEF PhaseLeft
    <3> QED
      BY <3>1, LessUnsearched
  <2>3. CASE pc = "find" /\ pc' = "rest"
    BY <1>1, <2>3 DEF PhaseLeft
  <2> QED
    BY <2>1, <2>2, <2>3
<1>4. CASE Lower \/ Vendor \/ Rest
  <2>1. \/ pc = "lower" /\ pc' = "vendor"
        \/ pc = "vendor" /\ pc' \in {"find", "done"}
        \/ pc = "rest" /\ pc' = "done"
    BY <1>4 DEF Lower, Vendor, Rest, Return
  <2> QED
    BY <1>1, <2>1 DEF PhaseLeft
<1> QED
  BY <1>2, <1>3, <1>4 DEF Next

(***************************************************************************)
(* Each round of the search leaves less of the name, of any length: with   *)
(* NoEndlessDescent, guess_bsd_flavor makes finitely many of them.         *)
(***************************************************************************)
THEOREM EveryNameIsSearched == Spec => EveryRoundCounts
<1>1. Inv => TypeOK
  BY DEF Inv
<1>2. TypeOK /\ [Next]_bsdVars => [LexLess(Unsearched', Unsearched)]_bsdVars
  BY StepSearches
<1> QED
  BY <1>1, <1>2, InvHolds, PTL DEF Spec, EveryRoundCounts

\* And what is left is always a triple of natural numbers.
THEOREM UnsearchedIsNatural == Spec => [](Unsearched \in [1 .. 3 -> Nat])
<1>1. TypeOK => Unsearched \in [1 .. 3 -> Nat]
  <2> SUFFICES ASSUME TypeOK PROVE Unsearched \in [1 .. 3 -> Nat]
    OBVIOUS
  <2>1. PhaseLeft \in Nat
    BY DEF PhaseLeft
  <2>2. 2 - token \in Nat /\ Len(s) - from \in Nat
    BY DEF TypeOK
  <2> QED
    BY <2>1, <2>2 DEF Unsearched, PhaseLeft
<1>2. Inv => TypeOK
  BY DEF Inv
<1> QED
  BY <1>1, <1>2, InvHolds, PTL
=============================================================================
