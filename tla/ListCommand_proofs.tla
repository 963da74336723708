-------------------------- MODULE ListCommand_proofs --------------------------
(***************************************************************************)
(* For every machine, any number of kernel events and disks of any size:   *)
(* what `osedax list` prints of a disk is right, and it prints of each     *)
(* disk what it should.                                                    *)
(***************************************************************************)
EXTENDS ListCommand, SysfsEnumerate_proofs, Descent_proofs

(***************************************************************************)
(* Rounding, for any divisor.                                              *)
(***************************************************************************)
LEMMA Division ==
  ASSUME NEW k \in Nat, k > 0, NEW n \in Nat
  PROVE  /\ n \div k \in Nat /\ n % k \in Nat
         /\ n % k < k
         /\ n = k * (n \div k) + (n % k)
BY SMT

\* The rounded quotient is a nearest one.
LEMMA Nearest ==
  ASSUME NEW k \in Nat, k > 0, NEW n \in Nat
  PROVE  /\ RoundHalfEven(n, k) \in Nat
         /\ 2 * (k * RoundHalfEven(n, k) - n) <= k
         /\ 2 * (n - k * RoundHalfEven(n, k)) <= k
<1> DEFINE q == n \div k
           r == n % k
<1>1. /\ q \in Nat /\ r \in Nat /\ r < k /\ n = k * q + r
  BY Division
<1>2. RoundHalfEven(n, k) = IF 2 * r > k \/ (2 * r = k /\ q % 2 = 1) THEN q + 1 ELSE q
  BY DEF RoundHalfEven
<1> HIDE DEF q, r
<1>3. k * (q + 1) = k * q + k /\ k * q \in Nat
  BY <1>1
<1>4. CASE RoundHalfEven(n, k) = q + 1 /\ 2 * r >= k
  BY <1>1, <1>3, <1>4
<1>5. CASE RoundHalfEven(n, k) = q /\ 2 * r <= k
  BY <1>1, <1>3, <1>5
<1> QED
  BY <1>1, <1>2, <1>4, <1>5

\* A larger number has no smaller quotient.
LEMMA DivMonotone ==
  ASSUME NEW k \in Nat, k > 0, NEW m \in Nat, NEW n \in Nat, m <= n
  PROVE  m \div k < n \div k \/ (m \div k = n \div k /\ m % k <= n % k)
<1> DEFINE q == m \div k
           r == m % k
           p == n \div k
           s == n % k
<1>1. q \in Nat /\ r \in Nat /\ r < k /\ m = k * q + r
  BY Division
<1>2. p \in Nat /\ s \in Nat /\ s < k /\ n = k * p + s
  BY Division
<1> HIDE DEF q, r, p, s
<1>3. CASE p < q
  <2>1. PICK d \in Nat : q = p + 1 + d
    <3>1. q - p - 1 \in Nat /\ q = p + 1 + (q - p - 1)
      BY <1>1, <1>2, <1>3
    <3> QED
      BY <3>1
  <2>2. k * q = k * p + k + k * d /\ k * d \in Nat /\ k * p \in Nat
    BY <1>2, <2>1
  <2> QED
    BY <1>1, <1>2, <2>2
<1>4. CASE p = q
  <2>1. k * p = k * q /\ k * q \in Nat
    BY <1>1, <1>4
  <2>2. r <= s
    BY <1>1, <1>2, <2>1
  <2> QED
    BY <1>4, <2>2 DEF q, p, r, s
<1>5. CASE q < p
  BY <1>5 DEF q, p
<1> QED
  BY <1>1, <1>2, <1>3, <1>4, <1>5

LEMMA RoundMonotone ==
  ASSUME NEW k \in Nat, k > 0, NEW m \in Nat, NEW n \in Nat, m <= n
  PROVE  RoundHalfEven(m, k) <= RoundHalfEven(n, k)
<1> DEFINE q == m \div k
           r == m % k
           p == n \div k
           s == n % k
<1>1. /\ q \in Nat /\ r \in Nat /\ p \in Nat /\ s \in Nat
      /\ q < p \/ (q = p /\ r <= s)
  BY Division, DivMonotone
<1>2. /\ RoundHalfEven(m, k) = IF 2 * r > k \/ (2 * r = k /\ q % 2 = 1) THEN q + 1 ELSE q
      /\ RoundHalfEven(n, k) = IF 2 * s > k \/ (2 * s = k /\ p % 2 = 1) THEN p + 1 ELSE p
  BY DEF RoundHalfEven
<1> HIDE DEF q, r, p, s
<1> QED
  BY <1>1, <1>2

\* A remainder is at most ten tenths.
LEMMA TenthsBound ==
  ASSUME NEW k \in Nat, k > 0, NEW b \in Nat
  PROVE  /\ b \div k \in Nat /\ b % k \in Nat
         /\ RoundHalfEven(10 * (b % k), k) \in 0 .. 10
         /\ tenths(b, k) = 10 * (b \div k) + RoundHalfEven(10 * (b % k), k)
<1> DEFINE n == 10 * (b % k)
           t == RoundHalfEven(n, k)
<1>1. b % k \in Nat /\ b % k < k /\ b \div k \in Nat
  BY Division
<1>2. n \in Nat /\ n < 10 * k
  BY <1>1
<1> HIDE DEF n
<1>3. t \in Nat /\ 2 * (k * t - n) <= k
  BY <1>2, Nearest
<1> HIDE DEF t
<1>4. ASSUME t > 10 PROVE FALSE
  <2>1. PICK d \in Nat : t = 11 + d
    <3>1. t - 11 \in Nat /\ t = 11 + (t - 11)
      BY <1>3, <1>4
    <3> QED
      BY <3>1
  <2>2. k * t = 11 * k + k * d /\ k * d \in Nat
    BY <2>1
  <2> QED
    BY <1>2, <1>3, <2>2
<1>5. t \in 0 .. 10
  BY <1>3, <1>4
<1> QED
  BY <1>1, <1>5 DEF t, n, tenths

-----------------------------------------------------------------------------
(* The scales.                                                             *)

LEMMA Units ==
  /\ LastUnit = 5
  /\ \A u \in 0 .. LastUnit : u = 0 \/ u = 1 \/ u = 2 \/ u = 3 \/ u = 4 \/ u = 5
BY DEF LastUnit

LEMMA ScaleSteps ==
  /\ ScaleOf(0) = 1
  /\ \A u \in 0 .. LastUnit : ScaleOf(u) \in Nat /\ ScaleOf(u) > 0
  /\ \A u \in 0 .. LastUnit - 1 : ScaleOf(u + 1) = 1024 * ScaleOf(u)
<1>0. ScaleOf(0) = 1
  BY SMT DEF ScaleOf
<1>1. ScaleOf(1) = 1024 * ScaleOf(0)
  BY SMT DEF ScaleOf
<1>2. ScaleOf(2) = 1024 * ScaleOf(1)
  BY SMT DEF ScaleOf
<1>3. ScaleOf(3) = 1024 * ScaleOf(2)
  BY SMT DEF ScaleOf
<1>4. ScaleOf(4) = 1024 * ScaleOf(3)
  BY SMT DEF ScaleOf
<1>5. ScaleOf(5) = 1024 * ScaleOf(4)
  BY SMT DEF ScaleOf
<1>6. /\ ScaleOf(0) \in Nat /\ ScaleOf(0) > 0 /\ ScaleOf(1) \in Nat /\ ScaleOf(1) > 0
      /\ ScaleOf(2) \in Nat /\ ScaleOf(2) > 0 /\ ScaleOf(3) \in Nat /\ ScaleOf(3) > 0
      /\ ScaleOf(4) \in Nat /\ ScaleOf(4) > 0 /\ ScaleOf(5) \in Nat /\ ScaleOf(5) > 0
  BY <1>0, <1>1, <1>2, <1>3, <1>4, <1>5, SMT
<1>7. \A u \in 0 .. LastUnit : ScaleOf(u) \in Nat /\ ScaleOf(u) > 0
  BY <1>6, Units
<1>8. \A u \in 0 .. LastUnit - 1 : ScaleOf(u + 1) = 1024 * ScaleOf(u)
  <2> SUFFICES ASSUME NEW u \in 0 .. LastUnit - 1 PROVE ScaleOf(u + 1) = 1024 * ScaleOf(u)
    OBVIOUS
  <2>1. u = 0 \/ u = 1 \/ u = 2 \/ u = 3 \/ u = 4
    BY Units
  <2> QED
    BY <1>1, <1>2, <1>3, <1>4, <1>5, <2>1
<1> QED
  BY <1>0, <1>7, <1>8

\* A larger unit is at least 1024 of a smaller one.
LEMMA ScalesApart ==
  ASSUME NEW u \in 0 .. LastUnit, NEW v \in 0 .. LastUnit, u < v
  PROVE  1024 * ScaleOf(u) <= ScaleOf(v)
<1>1. \A w \in 0 .. 4 : ScaleOf(w + 1) = 1024 * ScaleOf(w)
  BY ScaleSteps, Units
<1>2. /\ ScaleOf(1) = 1024 * ScaleOf(0) /\ ScaleOf(2) = 1024 * ScaleOf(1)
      /\ ScaleOf(3) = 1024 * ScaleOf(2) /\ ScaleOf(4) = 1024 * ScaleOf(3)
      /\ ScaleOf(5) = 1024 * ScaleOf(4)
  <2>1. 0 + 1 = 1 /\ 1 + 1 = 2 /\ 2 + 1 = 3 /\ 3 + 1 = 4 /\ 4 + 1 = 5
    OBVIOUS
  <2> QED
    BY <1>1, <2>1
<1>3. /\ ScaleOf(0) \in Nat /\ ScaleOf(1) \in Nat /\ ScaleOf(2) \in Nat
      /\ ScaleOf(3) \in Nat /\ ScaleOf(4) \in Nat /\ ScaleOf(5) \in Nat
  BY ScaleSteps, Units
<1>4. /\ u = 0 \/ u = 1 \/ u = 2 \/ u = 3 \/ u = 4
      /\ v = 1 \/ v = 2 \/ v = 3 \/ v = 4 \/ v = 5
  BY Units
<1>5. CASE u = 0
  BY <1>2, <1>3, <1>4, <1>5
<1>6. CASE u = 1
  BY <1>2, <1>3, <1>4, <1>6
<1>7. CASE u = 2
  BY <1>2, <1>3, <1>4, <1>7
<1>8. CASE u = 3
  BY <1>2, <1>3, <1>4, <1>8
<1>9. CASE u = 4
  BY <1>2, <1>3, <1>4, <1>9
<1> QED
  BY <1>4, <1>5, <1>6, <1>7, <1>8, <1>9

-----------------------------------------------------------------------------
(* What the loop leaves behind.                                            *)

ShownIn(bytes, u, s) ==
  /\ s = [unit |-> u, tenths |-> IF u = 0 THEN 10 * bytes ELSE tenths(bytes, ScaleOf(u))]
  /\ u = 0 \/ bytes >= ScaleOf(u)
  /\ u < LastUnit => bytes < 1024 * ScaleOf(u)

ShownAs(bytes, s) == \E u \in 0 .. LastUnit : ShownIn(bytes, u, s)

\* A size so printed is accurate.
LEMMA ShownIsAccurate ==
  ASSUME NEW b \in Nat, NEW s, ShownAs(b, s)
  PROVE  Accurate(b, s)
<1>1. PICK u \in 0 .. LastUnit : ShownIn(b, u, s)
  BY DEF ShownAs
<1> DEFINE k == ScaleOf(u)
           q == b \div k
           r == b % k
<1>2. k \in Nat /\ k > 0 /\ (u = 0 => k = 1)
  BY ScaleSteps
<1>3. q \in Nat /\ r \in Nat /\ r < k /\ b = k * q + r
  BY <1>2, Division
<1>4. s.unit = u /\ s.tenths = IF u = 0 THEN 10 * b ELSE tenths(b, k)
  BY <1>1 DEF ShownIn
<1>5. (u = 0 \/ b >= k) /\ (u < LastUnit => b < 1024 * k)
  BY <1>1 DEF ShownIn
<1>6. u \in Nat /\ LastUnit = 5
  BY Units
<1>9. Accurate(b, s) <=>
        /\ 2 * ((s.tenths - 10 * q) * k - 10 * r) <= k
        /\ -k <= 2 * ((s.tenths - 10 * q) * k - 10 * r)
        /\ u > 0 => s.tenths >= 10
        /\ u < LastUnit => s.tenths <= 10240
  BY <1>4 DEF Accurate
<1>7. CASE u = 0
  <2> HIDE DEF k, q, r
  <2>1. r = 0 /\ q = b /\ s.tenths = 10 * b
    BY <1>2, <1>3, <1>4, <1>7
  <2>2. (s.tenths - 10 * q) * k - 10 * r = 0
    BY <1>2, <1>3, <1>7, <2>1
  <2>3. s.tenths <= 10240
    BY <1>2, <1>5, <1>6, <1>7, <2>1
  <2> QED
    BY <1>2, <1>7, <1>9, <2>2, <2>3
<1>8. CASE u > 0
  <2> DEFINE t == RoundHalfEven(10 * r, k)
  <2>1. t \in 0 .. 10 /\ s.tenths = 10 * q + t
    <3>1. s.tenths = tenths(b, k)
      BY <1>4, <1>6, <1>8
    <3>2. RoundHalfEven(10 * (b % k), k) \in 0 .. 10
          /\ tenths(b, k) = 10 * (b \div k) + RoundHalfEven(10 * (b % k), k)
      <4> HIDE DEF k
      <4> QED
        BY <1>2, TenthsBound
    <3> QED
      BY <3>1, <3>2
  <2>2. 2 * (k * t - 10 * r) <= k /\ 2 * (10 * r - k * t) <= k
    <3> HIDE DEF k, q, r
    <3>1. 10 * r \in Nat
      BY <1>3
    <3> QED
      BY <1>2, <3>1, Nearest
  <2> HIDE DEF t
  <2>3. q >= 1
    <3> HIDE DEF k, q, r
    <3> SUFFICES ASSUME q = 0 PROVE FALSE
      BY <1>3
    <3> QED
      BY <1>2, <1>3, <1>5, <1>8
  <2>4. u < LastUnit => q <= 1023
    <3> SUFFICES ASSUME u < LastUnit, q > 1023 PROVE FALSE
      BY <1>3
    <3> HIDE DEF k, q, r
    <3>1. PICK d \in Nat : q = 1024 + d
      <4>1. q - 1024 \in Nat /\ q = 1024 + (q - 1024)
        BY <1>3
      <4> QED
        BY <4>1
    <3>2. k * q = 1024 * k + k * d /\ k * d \in Nat
      BY <1>2, <3>1
    <3> QED
      BY <1>2, <1>3, <1>5, <3>2
  <2>5. (s.tenths - 10 * q) * k - 10 * r = k * t - 10 * r
    <3> HIDE DEF k, q, r
    <3>1. s.tenths - 10 * q = t
      BY <1>3, <2>1
    <3> QED
      BY <1>2, <2>1, <3>1
  <2>6. s.tenths >= 10 /\ (u < LastUnit => s.tenths <= 10240)
    <3> HIDE DEF k, q, r
    <3> QED
      BY <1>3, <2>1, <2>3, <2>4
  <2>7. k * t \in Nat
    <3> HIDE DEF k
    <3> QED
      BY <1>2, <2>1
  <2>8. /\ 2 * ((s.tenths - 10 * q) * k - 10 * r) <= k
        /\ -k <= 2 * ((s.tenths - 10 * q) * k - 10 * r)
    <3> HIDE DEF k, q, r
    <3> QED
      BY <1>2, <1>3, <2>2, <2>5, <2>7
  <2> QED
    BY <1>9, <2>6, <2>8
<1> QED
  BY <1>6, <1>7, <1>8

\* And sizes so printed are in their order.
LEMMA ShownInOrder ==
  ASSUME NEW b \in Nat, NEW c \in Nat, b <= c, NEW s, NEW t, ShownAs(b, s), ShownAs(c, t)
  PROVE  AtMost(s, t)
<1>1. PICK u \in 0 .. LastUnit : ShownIn(b, u, s)
  BY DEF ShownAs
<1>2. PICK v \in 0 .. LastUnit : ShownIn(c, v, t)
  BY DEF ShownAs
<1>3. /\ s.unit = u /\ s.tenths = IF u = 0 THEN 10 * b ELSE tenths(b, ScaleOf(u))
      /\ t.unit = v /\ t.tenths = IF v = 0 THEN 10 * c ELSE tenths(c, ScaleOf(v))
  BY <1>1, <1>2 DEF ShownIn
<1>4. u \in Nat /\ v \in Nat /\ LastUnit = 5
  BY Units
<1>5. CASE u < v
  BY <1>3, <1>5 DEF AtMost
<1>6. CASE v < u
  <2>1. 1024 * ScaleOf(v) <= ScaleOf(u)
    BY <1>6, ScalesApart
  <2>2. v < LastUnit /\ u # 0
    BY <1>4, <1>6
  <2>3. b >= ScaleOf(u) /\ c < 1024 * ScaleOf(v)
    BY <1>1, <1>2, <2>2 DEF ShownIn
  <2>4. ScaleOf(v) \in Nat /\ ScaleOf(u) \in Nat
    BY ScaleSteps
  <2> QED
    BY <2>1, <2>3, <2>4
<1>7. CASE u = v /\ u = 0
  <2>1. s.tenths <= t.tenths
    BY <1>3, <1>7
  <2> QED
    BY <1>3, <1>7, <2>1 DEF AtMost
<1>8. CASE u = v /\ u # 0
  <2> DEFINE k == ScaleOf(u)
  <2>1. k \in Nat /\ k > 0
    BY ScaleSteps
  <2>2. s.tenths = tenths(b, k) /\ t.tenths = tenths(c, k)
    BY <1>3, <1>8
  <2> HIDE DEF k
  <2>3. /\ b \div k \in Nat /\ b % k \in Nat
        /\ RoundHalfEven(10 * (b % k), k) \in 0 .. 10
        /\ tenths(b, k) = 10 * (b \div k) + RoundHalfEven(10 * (b % k), k)
    BY <2>1, TenthsBound
  <2>4. /\ c \div k \in Nat /\ c % k \in Nat
        /\ RoundHalfEven(10 * (c % k), k) \in 0 .. 10
        /\ tenths(c, k) = 10 * (c \div k) + RoundHalfEven(10 * (c % k), k)
    BY <2>1, TenthsBound
  <2>5. b \div k < c \div k \/ (b \div k = c \div k /\ b % k <= c % k)
    BY <2>1, DivMonotone
  <2>6. b % k <= c % k => RoundHalfEven(10 * (b % k), k) <= RoundHalfEven(10 * (c % k), k)
    <3>1. 10 * (b % k) \in Nat /\ 10 * (c % k) \in Nat
          /\ (b % k <= c % k => 10 * (b % k) <= 10 * (c % k))
      BY <2>3, <2>4
    <3> QED
      BY <2>1, <3>1, RoundMonotone
  <2>7. s.tenths <= t.tenths
    BY <2>2, <2>3, <2>4, <2>5, <2>6
  <2> QED
    BY <1>3, <1>8, <2>7 DEF AtMost
<1> QED
  BY <1>4, <1>5, <1>6, <1>7, <1>8

-----------------------------------------------------------------------------
(* The invariant: every line about a disk is told by a Device of the       *)
(* listing, which does not change once there are lines, and which has no   *)
(* two Devices of one path.                                                *)

Told(line) ==
  \E d \in Range(listing) :
    /\ line.path = d.path
    /\ line.default => is_safe_default_target(d)
    /\ ShownAs(d.size, line.size)

ListedOnce == \A d, e \in Range(listing) : d.path = e.path => d = e

Locals ==
  /\ proc \in {"main", "enumerate"} => screen = <<>>
  /\ proc \in {"size", "mounts"} => pc = "returned"
  /\ proc \in {"main", "enumerate", "size"} => todo = {}
  /\ scale = ScaleOf(unit)
  /\ pc = "returned" => outcome \in {"Ok", "Io"}

Lines == (\E S : screen \in Seq(S)) /\ \A i \in DiskLines : Told(screen[i])

ListInv == FaithfulInv /\ ListTypeOK /\ ListedOnce /\ Locals /\ Lines

\* One more line.
LEMMA OneMoreLine ==
  ASSUME NEW S, NEW s \in Seq(S), NEW line, NEW t, t = Append(s, line)
  PROVE  /\ t \in Seq(S \cup {line})
         /\ \A i \in DOMAIN t : t[i] = line \/ (i \in DOMAIN s /\ t[i] = s[i])
<1>1. s \in Seq(S \cup {line})
  OBVIOUS
<1> QED
  BY <1>1

\* The steps of the process are steps of the call, of the kernel, or neither.
LEMMA ListStep == [ListNext]_listVars => [Next]_vars
BY DEF ListNext, listVars, Dispatch, Enumerate, Report, Enumerated, Divide, PrintDisk, PrintMount,
       NextDisk, PrintFails, Meanwhile, Next

\* A call sorts its Devices by path before it returns them.
LEMMA CallListsOnce ==
  ASSUME TypeOK, TypeOK', ListedOnce, Call
  PROVE  ListedOnce'
<1>1. CASE EndOfDir
  <2>1. SortedByPath(listing', devices)
    BY <1>1 DEF EndOfDir
  <2>2. listing' \in Seq(Device)
    BY DEF TypeOK
  <2>3. \A i \in DOMAIN listing' : i \in Nat /\ PathRank[listing'[i].path] \in Nat
    <3> SUFFICES ASSUME NEW i \in DOMAIN listing'
                 PROVE  i \in Nat /\ PathRank[listing'[i].path] \in Nat
      OBVIOUS
    <3>1. listing'[i] \in Device
      BY <2>2
    <3>2. listing'[i].path \in Names
      BY <3>1 DEF Device
    <3> QED
      BY <2>2, <3>2, EnumerateAssumption
  <2>4. \A i, j \in DOMAIN listing' : listing'[i].path = listing'[j].path => i = j
    BY <2>1, <2>3 DEF SortedByPath
  <2> QED
    BY <2>4 DEF ListedOnce, Range
<1>2. CASE ~EndOfDir
  <2>1. listing' = listing \/ listing' = <<>>
    BY <1>2 DEF Call, Read, ReadMounts, ReadDirFails, OpenDir, NextEntry, CheckWhole, ReadSize,
         ReadLogicalBlockSize, ReadPhysicalBlockSize, ReadRemovable, ReadReadOnly, ReadModel,
         DetectUsb, DetectVirtualAndPush, Local
  <2> QED
    BY <2>1 DEF ListedOnce, Range
<1> QED
  BY <1>1, <1>2

LEMMA CallAnswers ==
  ASSUME pc = "returned" => outcome \in {"Ok", "Io"}, Call, pc' = "returned"
  PROVE  outcome' \in {"Ok", "Io"}
BY DEF Call, Read, ReadMounts, ReadDirFails, OpenDir, NextEntry, CheckWhole, Skip, ReadSize,
       ReadLogicalBlockSize, ReadPhysicalBlockSize, ReadRemovable, ReadReadOnly, ReadModel,
       DetectUsb, DetectVirtualAndPush, Local, EndOfDir

LEMMA InitListInv == ListInit => ListInv
<1> SUFFICES ASSUME ListInit PROVE ListInv
  OBVIOUS
<1>1. FaithfulInv
  BY InitFaithful DEF ListInit
<1>2. ListTypeOK
  BY DEF ListInit, ListTypeOK, LastUnit
<1>3. ListedOnce
  BY DEF ListInit, Init, ListedOnce, Range
<1>4. Locals
  BY ScaleSteps DEF ListInit, Init, Locals
<1>5. Lines
  BY DEF ListInit, Lines, DiskLines
<1> QED
  BY <1>1, <1>2, <1>3, <1>4, <1>5 DEF ListInv

\* A line that is no disk's, or one that is told, keeps Lines while the listing stays.
LEMMA LineKeepsLines ==
  ASSUME Lines, NEW line, screen' = Append(screen, line), listing' = listing,
         line.says = "disk" => Told(line)
  PROVE  Lines'
<1>1. PICK S : screen \in Seq(S)
  BY DEF Lines
<1>2. /\ screen' \in Seq(S \cup {line})
      /\ \A i \in DOMAIN screen' : screen'[i] = line \/ (i \in DOMAIN screen /\ screen'[i] = screen[i])
  BY <1>1, OneMoreLine
<1>3. ASSUME NEW i \in DOMAIN screen', screen'[i].says = "disk"
      PROVE  Told(screen[i])'
  <2>1. CASE screen'[i] = line
    BY <1>3, <2>1 DEF Told
  <2>2. CASE i \in DOMAIN screen /\ screen'[i] = screen[i]
    BY <1>3, <2>2 DEF Lines, DiskLines, Told
  <2> QED
    BY <1>2, <2>1, <2>2
<1> QED
  BY <1>2, <1>3 DEF Lines, DiskLines

LEMMA SameKeepsLines ==
  ASSUME Lines, screen' = screen, listing' = listing
  PROVE  Lines'
BY DEF Lines, DiskLines, Told

\* The disk that is being printed.
LEMMA TheDisk ==
  ASSUME ListInv, proc \in {"size", "mounts"}
  PROVE  disk \in Device /\ disk \in Range(listing) /\ disk.size \in Nat
<1>1. listing \in Seq(Device) /\ at \in 1 .. Len(listing)
  BY DEF ListInv, FaithfulInv, TypeOK, ListTypeOK
<1>2. disk \in Device /\ disk \in Range(listing)
  BY <1>1 DEF disk, Range
<1> QED
  BY <1>2 DEF Device

\* The Device a line on the screen is about.
LEMMA LineOfDevice ==
  ASSUME ListInv, NEW i \in DiskLines, NEW dev \in Range(listing), dev.path = screen[i].path
  PROVE  ShownAs(dev.size, screen[i].size) /\ dev.size \in Nat
<1>1. PICK d \in Range(listing) : screen[i].path = d.path /\ ShownAs(d.size, screen[i].size)
  BY DEF ListInv, Lines, Told
<1>2. dev = d
  BY <1>1 DEF ListInv, ListedOnce
<1>3. dev \in Device
  BY DEF ListInv, FaithfulInv, TypeOK, Range
<1> QED
  BY <1>1, <1>2, <1>3 DEF Device

\* The line PrintDisk prints is told by the disk it is about.
LEMMA HeaderIsTold ==
  ASSUME ListInv, PrintDisk
  PROVE  Told(Header)
<1>1. disk \in Range(listing) /\ disk.size \in Nat
  BY TheDisk DEF PrintDisk
<1>2. /\ unit \in 0 .. LastUnit /\ scale = ScaleOf(unit) /\ (unit = 0 \/ disk.size >= scale)
      /\ ~(disk.size >= 1024 * scale /\ unit < LastUnit)
  BY DEF ListInv, ListTypeOK, Locals, PrintDisk, TooBig
<1>3. scale \in Nat
  BY <1>2, ScaleSteps
<1> DEFINE d == disk
<1> HIDE DEF d
<1>4. ShownIn(d.size, unit, Shown(d.size))
  <2>1. d.size \in Nat
    BY <1>1 DEF d
  <2>2. /\ unit = 0 \/ d.size >= scale
        /\ ~(d.size >= 1024 * scale /\ unit < LastUnit)
    BY <1>2 DEF d
  <2>3. unit < LastUnit => d.size < 1024 * scale
    BY <1>3, <2>1, <2>2
  <2> QED
    BY <1>2, <2>2, <2>3 DEF ShownIn, Shown
<1>5. ShownAs(d.size, Shown(d.size))
  BY <1>2, <1>4 DEF ShownAs
<1>6. /\ Header.path = d.path /\ Header.size = Shown(d.size)
      /\ Header.default = is_safe_default_target(d)
  BY DEF Header, d
<1>7. Header.default => is_safe_default_target(d)
  BY <1>6
<1> QED
  BY <1>1, <1>5, <1>6, <1>7 DEF Told, d

(***************************************************************************)
(* Each step of the process keeps the invariant.                           *)
(***************************************************************************)
LEMMA DispatchKeeps ==
  ASSUME ListInv, Dispatch, FaithfulInv'
  PROVE  ListInv'
<1>1. listing' = listing /\ UNCHANGED <<pc, outcome, cmd, at, todo, unit, scale>> /\ proc = "main" /\ todo = {}
  BY DEF Dispatch, vars, callVars, ListInv, Locals
<1>2. \/ proc' = "enumerate" /\ screen' = screen
      \/ proc' = "exited" /\ screen' = Append(screen, Version)
      \/ proc' = "exited" /\ screen' = screen
  BY DEF Dispatch, println
<1>3. Lines'
  <2>1. Version.says # "disk"
    BY DEF Version
  <2> QED
    BY <1>1, <1>2, <2>1, LineKeepsLines, SameKeepsLines DEF ListInv
<1>4. ListTypeOK' /\ Locals' /\ ListedOnce'
  BY <1>1, <1>2 DEF ListInv, ListTypeOK, Locals, ListedOnce, Ended
<1> QED
  BY <1>3, <1>4 DEF ListInv

LEMMA EnumerateKeeps ==
  ASSUME ListInv, Enumerate, FaithfulInv'
  PROVE  ListInv'
<1>1. UNCHANGED processVars /\ proc = "enumerate" /\ screen = <<>> /\ Call
  BY DEF Enumerate, ListInv, Locals
<1>2. ListedOnce'
  BY <1>1, CallListsOnce DEF ListInv, FaithfulInv
<1>3. Lines'
  BY <1>1 DEF ListInv, Lines, DiskLines, processVars
<1>4. ListTypeOK' /\ Locals'
  BY <1>1, CallAnswers DEF ListInv, ListTypeOK, Locals, processVars
<1> QED
  BY <1>2, <1>3, <1>4 DEF ListInv

LEMMA EnumeratedKeeps ==
  ASSUME ListInv, Enumerated, FaithfulInv'
  PROVE  ListInv'
<1>1. listing' = listing /\ UNCHANGED <<pc, outcome, cmd, todo>> /\ proc = "enumerate" /\ todo = {}
      /\ pc = "returned"
  BY DEF Enumerated, vars, callVars, ListInv, Locals
<1>2. \/ proc' = "failed" /\ UNCHANGED <<screen, at, unit, scale>>
      \/ proc' = "exited" /\ screen' = Append(screen, NoDisks) /\ UNCHANGED <<at, unit, scale>>
      \/ proc' = "size" /\ at' = 1 /\ unit' = 0 /\ scale' = 1 /\ screen' = screen
         /\ ~(outcome = "Ok" /\ listing = <<>>) /\ outcome # "Io"
  BY DEF Enumerated, println, Begin
<1>3. Lines'
  <2>1. NoDisks.says # "disk"
    BY DEF NoDisks
  <2> QED
    BY <1>1, <1>2, <2>1, LineKeepsLines, SameKeepsLines DEF ListInv
<1>4. CASE proc' \in {"failed", "exited"}
  <2>1. ListTypeOK' /\ Locals' /\ ListedOnce'
    BY <1>1, <1>2, <1>4 DEF ListInv, ListTypeOK, Locals, ListedOnce, Ended
  <2> QED
    BY <1>3, <2>1 DEF ListInv
<1>5. CASE proc' = "size"
  <2>1. at' = 1 /\ unit' = 0 /\ scale' = 1 /\ listing # <<>>
    BY <1>1, <1>2, <1>5 DEF ListInv, Locals
  <2>2. 1 \in 1 .. Len(listing)
    BY <2>1 DEF ListInv, FaithfulInv, TypeOK
  <2>3. ListTypeOK' /\ Locals' /\ ListedOnce'
    BY <1>1, <1>5, <2>1, <2>2, ScaleSteps DEF ListInv, ListTypeOK, Locals, ListedOnce, LastUnit
  <2> QED
    BY <1>3, <2>3 DEF ListInv
<1> QED
  BY <1>2, <1>4, <1>5

LEMMA DivideKeeps ==
  ASSUME ListInv, Divide, FaithfulInv'
  PROVE  ListInv'
<1>1. /\ UNCHANGED <<listing, pc, outcome, cmd, proc, screen, at, todo>> /\ proc = "size"
      /\ unit' = unit + 1 /\ scale' = 1024 * scale
      /\ disk.size >= 1024 * scale /\ unit < LastUnit
  BY DEF Divide, TooBig, vars, callVars
<1>2. unit \in 0 .. LastUnit - 1 /\ scale = ScaleOf(unit) /\ LastUnit = 5
  BY <1>1, Units DEF ListInv, ListTypeOK, Locals
<1>3. scale' = ScaleOf(unit') /\ scale' \in Nat /\ scale' > 0 /\ unit' \in 0 .. LastUnit
  BY <1>1, <1>2, ScaleSteps
<1>4. Lines'
  BY <1>1, SameKeepsLines DEF ListInv
<1>5. disk' = disk
  BY <1>1 DEF disk
<1>6. ListTypeOK' /\ Locals' /\ ListedOnce'
  BY <1>1, <1>3, <1>5 DEF ListInv, ListTypeOK, Locals, ListedOnce
<1> QED
  BY <1>4, <1>6 DEF ListInv

LEMMA PrintDiskKeeps ==
  ASSUME ListInv, PrintDisk, FaithfulInv'
  PROVE  ListInv'
<1>1. /\ UNCHANGED <<listing, pc, outcome, cmd, at, unit, scale>> /\ proc = "size" /\ proc' = "mounts"
      /\ todo' = disk.mountpoints /\ screen' = Append(screen, Header)
  BY DEF PrintDisk, println, vars, callVars
<1>2. Lines'
  BY <1>1, HeaderIsTold, LineKeepsLines DEF ListInv
<1>3. disk' = disk
  BY <1>1 DEF disk
<1>4. ListTypeOK' /\ Locals' /\ ListedOnce'
  BY <1>1, <1>3 DEF ListInv, ListTypeOK, Locals, ListedOnce
<1> QED
  BY <1>2, <1>4 DEF ListInv

LEMMA PrintMountKeeps ==
  ASSUME ListInv, PrintMount, FaithfulInv'
  PROVE  ListInv'
<1>1. /\ UNCHANGED <<listing, pc, outcome, cmd, proc, at, unit, scale>> /\ proc = "mounts"
      /\ todo' \subseteq todo
  BY DEF PrintMount, vars, callVars
<1>2. PICK path : screen' = Append(screen, MountLine(path))
  BY DEF PrintMount, println
<1>3. Lines'
  <2>1. MountLine(path).says # "disk"
    BY DEF MountLine
  <2> QED
    BY <1>1, <1>2, <2>1, LineKeepsLines DEF ListInv
<1>4. disk' = disk
  BY <1>1 DEF disk
<1>5. ListTypeOK' /\ Locals' /\ ListedOnce'
  BY <1>1, <1>4 DEF ListInv, ListTypeOK, Locals, ListedOnce
<1> QED
  BY <1>3, <1>5 DEF ListInv

LEMMA NextDiskKeeps ==
  ASSUME ListInv, NextDisk, FaithfulInv'
  PROVE  ListInv'
<1>1. /\ UNCHANGED <<listing, pc, outcome, cmd, screen, todo>> /\ proc = "mounts" /\ todo = {}
      /\ \/ proc' = "size" /\ at < Len(listing) /\ at' = at + 1 /\ unit' = 0 /\ scale' = 1
         \/ proc' = "exited" /\ UNCHANGED <<at, unit, scale>>
  BY DEF NextDisk, Begin, vars, callVars
<1>2. Lines'
  BY <1>1, SameKeepsLines DEF ListInv
<1>3. at \in 1 .. Len(listing) /\ Len(listing) \in Nat
  BY <1>1 DEF ListInv, ListTypeOK, FaithfulInv, TypeOK
<1>4. CASE proc' = "size"
  <2>1. at' \in 1 .. Len(listing')
    BY <1>1, <1>3, <1>4
  <2>2. ListTypeOK' /\ Locals' /\ ListedOnce'
    BY <1>1, <1>4, <2>1, ScaleSteps DEF ListInv, ListTypeOK, Locals, ListedOnce, LastUnit
  <2> QED
    BY <1>2, <2>2 DEF ListInv
<1>5. CASE proc' = "exited"
  <2>1. ListTypeOK' /\ Locals' /\ ListedOnce'
    BY <1>1, <1>5 DEF ListInv, ListTypeOK, Locals, ListedOnce, Ended
  <2> QED
    BY <1>2, <2>1 DEF ListInv
<1> QED
  BY <1>1, <1>4, <1>5

\* A closed pipe, an event of the kernel, and nothing at all.
LEMMA OthersKeep ==
  ASSUME ListInv, PrintFails \/ Meanwhile \/ UNCHANGED listVars, FaithfulInv'
  PROVE  ListInv'
<1>1. UNCHANGED <<listing, pc, outcome, cmd, screen, at, todo, unit, scale>> /\ proc' \in {proc, "panicked"}
  <2>1. CASE PrintFails
    BY <2>1 DEF PrintFails, vars, callVars
  <2>2. CASE Meanwhile
    <3>1. UNCHANGED callVars
      BY <2>2, KernelActions DEF Meanwhile
    <3> QED
      BY <2>2, <3>1 DEF Meanwhile, processVars, callVars
  <2>3. CASE UNCHANGED listVars
    BY <2>3 DEF listVars, vars, callVars, processVars
  <2> QED
    BY <2>1, <2>2, <2>3
<1>2. Lines'
  BY <1>1, SameKeepsLines DEF ListInv
<1>3. disk' = disk
  BY <1>1 DEF disk
<1>4. ListTypeOK' /\ Locals' /\ ListedOnce'
  BY <1>1, <1>3 DEF ListInv, ListTypeOK, Locals, ListedOnce, Ended
<1> QED
  BY <1>2, <1>4 DEF ListInv

LEMMA NextListInv == ListInv /\ [ListNext]_listVars => ListInv'
<1> SUFFICES ASSUME ListInv, [ListNext]_listVars PROVE ListInv'
  OBVIOUS
<1>1. FaithfulInv'
  BY ListStep, NextFaithful DEF ListInv
<1> QED
  BY <1>1, DispatchKeeps, EnumerateKeeps, EnumeratedKeeps, DivideKeeps, PrintDiskKeeps,
     PrintMountKeeps, NextDiskKeeps, OthersKeep DEF ListNext, Report

LEMMA ListInvAlways == ListSpec => []ListInv
BY InitListInv, NextListInv, PTL DEF ListSpec

-----------------------------------------------------------------------------
(* The screen, line by line: which lines are about disks and which about   *)
(* mounts, and whose.                                                      *)

\* What a line is about.
OfDisk(line) == line.says = "disk"
OfMount(line) == line.says = "mounted at"

DisksIn(s) == {i \in DOMAIN s : OfDisk(s[i])}
MountsIn(s) == {i \in DOMAIN s : OfMount(s[i])}
OwnerIn(s, i) == Cardinality({j \in DisksIn(s) : j <= i})
BelowIn(s, k) == {i \in MountsIn(s) : OwnerIn(s, i) = k}
PathsIn(s, k) == {s[i].path : i \in BelowIn(s, k)}

Lined(s) == Len(s) \in Nat /\ DOMAIN s = 1 .. Len(s)

\* t is s and one line more.
Grows(s, t, line) ==
  /\ Lined(s)
  /\ DOMAIN t = DOMAIN s \cup {Len(s) + 1}
  /\ t[Len(s) + 1] = line
  /\ \A i \in DOMAIN s : t[i] = s[i]

\* No line is about both.
LEMMA DiskOrMount ==
  \A line : ~(OfDisk(line) /\ OfMount(line))
BY DEF OfDisk, OfMount

LEMMA AppendGrows ==
  ASSUME NEW S, NEW s \in Seq(S), NEW line
  PROVE  Lined(s) /\ Grows(s, Append(s, line), line)
<1>1. Len(s) \in Nat /\ DOMAIN s = 1 .. Len(s)
  OBVIOUS
<1>2. DOMAIN Append(s, line) = 1 .. Len(s) + 1
  OBVIOUS
<1>3. Append(s, line)[Len(s) + 1] = line
  OBVIOUS
<1>4. \A i \in DOMAIN s : Append(s, line)[i] = s[i]
  OBVIOUS
<1>5. 1 .. Len(s) + 1 = (1 .. Len(s)) \cup {Len(s) + 1}
  BY <1>1
<1> QED
  BY <1>1, <1>2, <1>3, <1>4, <1>5 DEF Grows, Lined

LEMMA GrowsLined ==
  ASSUME NEW s, NEW t, NEW line, Grows(s, t, line)
  PROVE  Lined(s)
BY DEF Grows

LEMMA DisksCounted ==
  ASSUME NEW s, Lined(s)
  PROVE  /\ IsFiniteSet(DisksIn(s)) /\ Cardinality(DisksIn(s)) \in Nat
         /\ \A i \in Nat : OwnerIn(s, i) \in Nat /\ OwnerIn(s, i) <= Cardinality(DisksIn(s))
         /\ \A k : IsFiniteSet(BelowIn(s, k))
         /\ \A k : k > Cardinality(DisksIn(s)) => BelowIn(s, k) = {}
<1>1. IsFiniteSet(1 .. Len(s)) /\ DOMAIN s = 1 .. Len(s) /\ Len(s) \in Nat
  BY FS_Interval DEF Lined
<1>2. IsFiniteSet(DisksIn(s)) /\ Cardinality(DisksIn(s)) \in Nat
  BY <1>1, FS_Subset, FS_CardinalityType DEF DisksIn
<1>3. ASSUME NEW i \in Nat
      PROVE  OwnerIn(s, i) \in Nat /\ OwnerIn(s, i) <= Cardinality(DisksIn(s))
  <2>1. {j \in DisksIn(s) : j <= i} \in SUBSET DisksIn(s)
    OBVIOUS
  <2> QED
    BY <1>2, <2>1, FS_Subset, FS_CardinalityType DEF OwnerIn
<1>4. ASSUME NEW k PROVE IsFiniteSet(BelowIn(s, k))
  <2>1. BelowIn(s, k) \in SUBSET (1 .. Len(s))
    BY <1>1 DEF BelowIn, MountsIn
  <2> QED
    BY <1>1, <2>1, FS_Subset
<1>5. ASSUME NEW k, k > Cardinality(DisksIn(s)) PROVE BelowIn(s, k) = {}
  <2>1. ASSUME NEW i \in MountsIn(s), OwnerIn(s, i) = k PROVE FALSE
    <3>1. i \in DOMAIN s
      BY DEF MountsIn
    <3>2. i \in Nat
      BY <1>1, <3>1
    <3> QED
      BY <1>2, <1>3, <1>5, <2>1, <3>2
  <2> QED
    BY <2>1 DEF BelowIn
<1> QED
  BY <1>2, <1>3, <1>4, <1>5

\* What one more line does to the lines before it: nothing.
LEMMA OwnersStay ==
  ASSUME NEW s, NEW line, NEW t, Grows(s, t, line)
  PROVE  \A i \in DOMAIN s : OwnerIn(t, i) = OwnerIn(s, i)
<1> SUFFICES ASSUME NEW i \in DOMAIN s PROVE OwnerIn(t, i) = OwnerIn(s, i)
  OBVIOUS
<1>1. {j \in DisksIn(t) : j <= i} = {j \in DisksIn(s) : j <= i}
  BY DEF Grows, Lined, DisksIn
<1> QED
  BY <1>1 DEF OwnerIn

LEMMA NoLines ==
  DOMAIN <<>> = {} /\ DisksIn(<<>>) = {} /\ BelowIn(<<>>, 0) = {}
<1>1. DOMAIN <<>> = {}
  OBVIOUS
<1> QED
  BY <1>1 DEF DisksIn, BelowIn, MountsIn

\* A line about a disk: one disk more, with nothing below it.
LEMMA DiskAdded ==
  ASSUME NEW s, NEW line, NEW t, Grows(s, t, line), OfDisk(line)
  PROVE  /\ DisksIn(t) = DisksIn(s) \cup {Len(s) + 1}
         /\ Cardinality(DisksIn(t)) = Cardinality(DisksIn(s)) + 1
         /\ OwnerIn(t, Len(s) + 1) = Cardinality(DisksIn(t))
         /\ \A k : BelowIn(t, k) = BelowIn(s, k) /\ PathsIn(t, k) = PathsIn(s, k)
<1> DEFINE n == Len(s) + 1
<1>1. /\ DOMAIN s = 1 .. Len(s) /\ Len(s) \in Nat
      /\ DOMAIN t = DOMAIN s \cup {Len(s) + 1} /\ Len(s) + 1 \notin DOMAIN s
      /\ t[Len(s) + 1] = line /\ \A i \in DOMAIN s : t[i] = s[i]
  BY DEF Grows, Lined
<1>0. \A i \in DOMAIN s : OwnerIn(t, i) = OwnerIn(s, i)
  BY OwnersStay
<1>2. DisksIn(t) = DisksIn(s) \cup {n} /\ n \notin DisksIn(s)
  BY <1>1 DEF DisksIn
<1>3. Cardinality(DisksIn(t)) = Cardinality(DisksIn(s)) + 1
  BY <1>2, DisksCounted, GrowsLined, FS_AddElement
<1>4. OwnerIn(t, n) = Cardinality(DisksIn(t))
  <2>1. {j \in DisksIn(t) : j <= n} = DisksIn(t)
    BY <1>1, <1>2 DEF DisksIn
  <2> QED
    BY <2>1 DEF OwnerIn
<1>5. MountsIn(t) = MountsIn(s)
  BY <1>1, DiskOrMount DEF MountsIn
<1>6. ASSUME NEW k PROVE BelowIn(t, k) = BelowIn(s, k) /\ PathsIn(t, k) = PathsIn(s, k)
  <2>1. BelowIn(t, k) = BelowIn(s, k)
    BY <1>0, <1>1, <1>5 DEF BelowIn, MountsIn
  <2>2. \A i \in BelowIn(s, k) : t[i] = s[i]
    BY <1>0, <1>1 DEF BelowIn, MountsIn
  <2> QED
    BY <2>1, <2>2 DEF PathsIn
<1> QED
  BY <1>2, <1>3, <1>4, <1>6

\* A line about a mount: one more below the last disk.
LEMMA MountAdded ==
  ASSUME NEW s, NEW line, NEW t, Grows(s, t, line), OfMount(line),
         NEW n, n = Cardinality(DisksIn(s))
  PROVE  /\ DisksIn(t) = DisksIn(s)
         /\ \A k : k # n => BelowIn(t, k) = BelowIn(s, k) /\ PathsIn(t, k) = PathsIn(s, k)
         /\ BelowIn(t, n) = BelowIn(s, n) \cup {Len(s) + 1} /\ Len(s) + 1 \notin BelowIn(s, n)
         /\ PathsIn(t, n) = PathsIn(s, n) \cup {line.path}
<1> DEFINE top == Len(s) + 1
<1>1. /\ DOMAIN s = 1 .. Len(s) /\ Len(s) \in Nat
      /\ DOMAIN t = DOMAIN s \cup {top} /\ top \notin DOMAIN s
      /\ t[top] = line /\ \A i \in DOMAIN s : t[i] = s[i]
  BY DEF Grows, Lined
<1>2. \A i \in DOMAIN s : OwnerIn(t, i) = OwnerIn(s, i)
  BY OwnersStay
<1>3. DisksIn(t) = DisksIn(s)
  BY <1>1, DiskOrMount DEF DisksIn
<1>4. OwnerIn(t, top) = n
  <2>1. ASSUME NEW j \in DisksIn(s) PROVE j <= top
    <3>1. j \in 1 .. Len(s)
      BY <1>1 DEF DisksIn
    <3> QED
      BY <1>1, <3>1
  <2>2. {j \in DisksIn(t) : j <= top} = DisksIn(s)
    BY <1>3, <2>1
  <2> QED
    BY <2>2 DEF OwnerIn
<1>5. MountsIn(t) = MountsIn(s) \cup {top} /\ \A i \in MountsIn(s) : i \in DOMAIN s
  BY <1>1 DEF MountsIn
<1> HIDE DEF top
<1>6. \A k : BelowIn(s, k) \subseteq DOMAIN s
  BY <1>5 DEF BelowIn
<1>7. \A k : k # n => BelowIn(t, k) = BelowIn(s, k)
  BY <1>2, <1>4, <1>5 DEF BelowIn
<1>8. BelowIn(t, n) = BelowIn(s, n) \cup {top} /\ top \notin BelowIn(s, n)
  BY <1>1, <1>2, <1>4, <1>5 DEF BelowIn
<1>9. \A k : k # n => PathsIn(t, k) = PathsIn(s, k)
  BY <1>1, <1>6, <1>7 DEF PathsIn
<1>10. PathsIn(t, n) = PathsIn(s, n) \cup {line.path}
  <2>1. \A i \in BelowIn(s, n) : t[i] = s[i]
    BY <1>1, <1>6
  <2>2. \A x : x \in PathsIn(t, n) <=> x \in PathsIn(s, n) \/ x = line.path
    BY <1>1, <1>8, <2>1 DEF PathsIn
  <2> QED
    BY <2>2
<1> QED
  BY <1>3, <1>7, <1>8, <1>9, <1>10 DEF top

\* A line about neither.
LEMMA OtherAdded ==
  ASSUME NEW s, NEW line, NEW t, Grows(s, t, line),
         ~OfDisk(line), ~OfMount(line)
  PROVE  /\ DisksIn(t) = DisksIn(s)
         /\ \A k : BelowIn(t, k) = BelowIn(s, k) /\ PathsIn(t, k) = PathsIn(s, k)
<1>1. /\ DOMAIN s = 1 .. Len(s) /\ Len(s) \in Nat
      /\ DOMAIN t = DOMAIN s \cup {Len(s) + 1} /\ Len(s) + 1 \notin DOMAIN s
      /\ t[Len(s) + 1] = line /\ \A i \in DOMAIN s : t[i] = s[i]
  BY DEF Grows, Lined
<1>0. \A i \in DOMAIN s : OwnerIn(t, i) = OwnerIn(s, i)
  BY OwnersStay
<1>2. DisksIn(t) = DisksIn(s) /\ MountsIn(t) = MountsIn(s)
  BY <1>1 DEF DisksIn, MountsIn
<1>3. ASSUME NEW k PROVE BelowIn(t, k) = BelowIn(s, k) /\ PathsIn(t, k) = PathsIn(s, k)
  <2>1. BelowIn(t, k) = BelowIn(s, k)
    BY <1>0, <1>1, <1>2 DEF BelowIn, MountsIn
  <2>2. \A i \in BelowIn(s, k) : t[i] = s[i]
    BY <1>0, <1>1 DEF BelowIn, MountsIn
  <2> QED
    BY <2>1, <2>2 DEF PathsIn
<1> QED
  BY <1>2, <1>3

-----------------------------------------------------------------------------
(* What the screen and the listing have to do with one another, and where  *)
(* the process is in between.                                              *)

\* The lines of s tell the beginning of list.
TellsAs(s, list) ==
  /\ Cardinality(DisksIn(s)) <= Len(list)
  /\ \A i \in DisksIn(s) : s[i].path = list[OwnerIn(s, i)].path
  /\ \A k \in 1 .. Cardinality(DisksIn(s)) :
       /\ PathsIn(s, k) \subseteq list[k].mountpoints
       /\ IsFiniteSet(PathsIn(s, k))
       /\ Cardinality(BelowIn(s, k)) = Cardinality(PathsIn(s, k))
  /\ BelowIn(s, 0) = {}

\* The first n disks have all their mounts below them.
Complete(s, n, list) == \A k \in 1 .. n : PathsIn(s, k) = list[k].mountpoints

Tally ==
  /\ TellsAs(screen, listing)
  /\ Complete(screen, Cardinality(DisksIn(screen)) - 1, listing)
  /\ proc \in {"size", "mounts"} => outcome = "Ok"
  /\ proc = "size" =>
       Cardinality(DisksIn(screen)) = at - 1 /\ Complete(screen, at - 1, listing)
  /\ proc = "mounts" =>
       Cardinality(DisksIn(screen)) = at /\ PathsIn(screen, at) = disk.mountpoints \ todo
  /\ proc = "exited" => Complete(screen, Cardinality(DisksIn(screen)), listing)
  /\ proc = "exited" /\ cmd = "list" =>
       /\ Cardinality(DisksIn(screen)) = Len(listing) /\ outcome = "Ok"
       /\ screen = <<NoDisks>> <=> listing = <<>>
  /\ proc = "failed" => screen = <<>>

\* An empty screen, and one with a single line about no disk, tell nothing.
LEMMA BlankTells ==
  ASSUME NEW list, Len(list) \in Nat, NEW s,
         \/ s = <<>>
         \/ \E line : Grows(<<>>, s, line) /\ ~OfDisk(line) /\ ~OfMount(line)
  PROVE  /\ DisksIn(s) = {} /\ Cardinality(DisksIn(s)) = 0
         /\ TellsAs(s, list) /\ Complete(s, 0, list) /\ Complete(s, 0 - 1, list)
<1>1. DisksIn(<<>>) = {} /\ BelowIn(<<>>, 0) = {}
  BY NoLines
<1>2. DisksIn(s) = {} /\ BelowIn(s, 0) = {}
  <2>1. CASE s = <<>>
    BY <1>1, <2>1
  <2>2. ASSUME NEW line, Grows(<<>>, s, line), ~OfDisk(line), ~OfMount(line)
        PROVE  DisksIn(s) = {} /\ BelowIn(s, 0) = {}
    <3>2. DisksIn(s) = DisksIn(<<>>) /\ BelowIn(s, 0) = BelowIn(<<>>, 0)
      BY <2>2, OtherAdded
    <3> QED
      BY <1>1, <3>2
  <2> QED
    BY <2>1, <2>2
<1>3. Cardinality(DisksIn(s)) = 0
  BY <1>2, FS_EmptySet
<1>4. Len(list) \in Nat /\ 1 .. 0 = {} /\ 1 .. 0 - 1 = {}
  OBVIOUS
<1> QED
  BY <1>2, <1>3, <1>4 DEF TellsAs, Complete

\* The next disk's line.
LEMMA HeaderTells ==
  ASSUME NEW list, Len(list) \in Nat, NEW s, NEW line, NEW t,
         Grows(s, t, line), OfDisk(line), TellsAs(s, list),
         Cardinality(DisksIn(s)) < Len(list),
         Complete(s, Cardinality(DisksIn(s)), list),
         line.path = list[Cardinality(DisksIn(s)) + 1].path
  PROVE  /\ TellsAs(t, list) /\ Complete(t, Cardinality(DisksIn(t)) - 1, list)
         /\ Cardinality(DisksIn(t)) = Cardinality(DisksIn(s)) + 1
         /\ PathsIn(t, Cardinality(DisksIn(t))) = {}
<1> DEFINE n == Cardinality(DisksIn(s))
<1>1. /\ DisksIn(t) = DisksIn(s) \cup {Len(s) + 1} /\ Cardinality(DisksIn(t)) = n + 1
      /\ OwnerIn(t, Len(s) + 1) = n + 1
  BY DiskAdded
<1>2. \A k : BelowIn(t, k) = BelowIn(s, k) /\ PathsIn(t, k) = PathsIn(s, k)
  BY DiskAdded
<1>3. t[Len(s) + 1] = line /\ \A i \in DOMAIN s : t[i] = s[i]
  BY DEF Grows, Lined
<1>4. \A i \in DOMAIN s : OwnerIn(t, i) = OwnerIn(s, i)
  BY OwnersStay
<1>5. n \in Nat /\ Len(list) \in Nat /\ BelowIn(s, n + 1) = {}
  <2>1. n \in Nat /\ \A k : k > n => BelowIn(s, k) = {}
    BY DisksCounted, GrowsLined
  <2>2. n + 1 > n
    BY <2>1
  <2> QED
    BY <2>1, <2>2
<1>6. PathsIn(t, n + 1) = {} /\ BelowIn(t, n + 1) = {}
  BY <1>2, <1>5 DEF PathsIn
<1>7. \A i \in DisksIn(t) : t[i].path = list[OwnerIn(t, i)].path
  <2>1. ASSUME NEW i \in DisksIn(s) PROVE t[i].path = list[OwnerIn(t, i)].path
    <3>1. i \in DOMAIN s
      BY DEF DisksIn
    <3> QED
      BY <1>3, <1>4, <3>1 DEF TellsAs
  <2>2. t[Len(s) + 1].path = list[OwnerIn(t, Len(s) + 1)].path
    BY <1>1, <1>3
  <2> QED
    BY <1>1, <2>1, <2>2
<1>8. ASSUME NEW k \in 1 .. n + 1
      PROVE  /\ PathsIn(t, k) \subseteq list[k].mountpoints
             /\ IsFiniteSet(PathsIn(t, k))
             /\ Cardinality(BelowIn(t, k)) = Cardinality(PathsIn(t, k))
  <2>1. CASE k \in 1 .. n
    BY <1>2, <2>1 DEF TellsAs
  <2>2. CASE k = n + 1
    BY <1>6, <2>2, FS_EmptySet
  <2> QED
    BY <1>5, <2>1, <2>2
<1>9. TellsAs(t, list)
  <2>1. Cardinality(DisksIn(t)) <= Len(list)
    BY <1>1, <1>5
  <2>2. BelowIn(t, 0) = {}
    BY <1>2 DEF TellsAs
  <2> QED
    BY <1>1, <1>7, <1>8, <2>1, <2>2 DEF TellsAs
<1>10. Complete(t, n, list) /\ Cardinality(DisksIn(t)) - 1 = n
  BY <1>1, <1>2, <1>5 DEF Complete
<1>11. PathsIn(t, Cardinality(DisksIn(t))) = {}
  BY <1>1, <1>6
<1> QED
  BY <1>1, <1>9, <1>10, <1>11

\* A mount of the last disk, not shown before.
LEMMA MountTells ==
  ASSUME NEW list, Len(list) \in Nat, NEW s, NEW line, NEW t, NEW n,
         n = Cardinality(DisksIn(s)), n \in 1 .. Len(list),
         Grows(s, t, line), OfMount(line), TellsAs(s, list),
         Complete(s, n - 1, list),
         line.path \in list[n].mountpoints \ PathsIn(s, n)
  PROVE  /\ TellsAs(t, list) /\ Complete(t, n - 1, list)
         /\ DisksIn(t) = DisksIn(s)
         /\ PathsIn(t, n) = PathsIn(s, n) \cup {line.path}
<1>1. DisksIn(t) = DisksIn(s)
  BY MountAdded
<1>2. \A k : k # n => BelowIn(t, k) = BelowIn(s, k) /\ PathsIn(t, k) = PathsIn(s, k)
  BY MountAdded
<1>3. /\ BelowIn(t, n) = BelowIn(s, n) \cup {Len(s) + 1} /\ Len(s) + 1 \notin BelowIn(s, n)
      /\ PathsIn(t, n) = PathsIn(s, n) \cup {line.path}
  BY MountAdded
<1>4. \A i \in DisksIn(t) : t[i].path = list[OwnerIn(t, i)].path
  <2>1. \A i \in DOMAIN s : t[i] = s[i]
    BY DEF Grows, Lined
  <2>2. \A i \in DOMAIN s : OwnerIn(t, i) = OwnerIn(s, i)
    BY OwnersStay
  <2>3. \A i \in DisksIn(s) : i \in DOMAIN s
    BY DEF DisksIn
  <2> QED
    BY <1>1, <2>1, <2>2, <2>3 DEF TellsAs
<1>5. ASSUME NEW k \in 1 .. n
      PROVE  /\ PathsIn(t, k) \subseteq list[k].mountpoints
             /\ IsFiniteSet(PathsIn(t, k))
             /\ Cardinality(BelowIn(t, k)) = Cardinality(PathsIn(t, k))
  <2>1. /\ PathsIn(s, k) \subseteq list[k].mountpoints
        /\ IsFiniteSet(PathsIn(s, k)) /\ IsFiniteSet(BelowIn(s, k))
        /\ Cardinality(BelowIn(s, k)) = Cardinality(PathsIn(s, k))
    BY DisksCounted, GrowsLined DEF TellsAs
  <2>2. CASE k # n
    BY <1>2, <2>1, <2>2
  <2>3. CASE k = n
    <3>1. /\ IsFiniteSet(PathsIn(t, n))
          /\ Cardinality(PathsIn(t, n)) = Cardinality(PathsIn(s, n)) + 1
      BY <1>3, <2>1, <2>3, FS_AddElement
    <3>0. IsFiniteSet(BelowIn(s, n))
      BY <2>1, <2>3
    <3>2. Cardinality(BelowIn(t, n)) = Cardinality(BelowIn(s, n)) + 1
      BY <1>3, <3>0, FS_AddElement
    <3> QED
      BY <1>3, <2>1, <2>3, <3>1, <3>2
  <2> QED
    BY <2>2, <2>3
<1>6. TellsAs(t, list)
  <2>1. BelowIn(t, 0) = {}
    BY <1>2 DEF TellsAs
  <2> QED
    BY <1>1, <1>4, <1>5, <2>1 DEF TellsAs
<1>7. Complete(t, n - 1, list)
  BY <1>2 DEF Complete
<1> QED
  BY <1>1, <1>3, <1>6, <1>7


\* The lines about neither a disk nor a mount.
LEMMA Remarks ==
  /\ ~OfDisk(NoDisks) /\ ~OfMount(NoDisks)
  /\ ~OfDisk(Version) /\ ~OfMount(Version)
BY DEF NoDisks, Version, OfDisk, OfMount

LEMMA Kinds ==
  /\ OfDisk(Header) /\ Header.path = disk.path
  /\ \A path : OfMount(MountLine(path)) /\ MountLine(path).path = path
<1>1. OfDisk(Header) /\ Header.path = disk.path
  BY DEF Header, OfDisk
<1>2. ASSUME NEW path PROVE OfMount(MountLine(path)) /\ MountLine(path).path = path
  BY DEF MountLine, OfMount
<1> QED
  BY <1>1, <1>2

\* One line more on the screen.
LEMMA ScreenGrows ==
  ASSUME ListInv, NEW line, println(line)
  PROVE  Grows(screen, screen', line)
<1>1. PICK S : screen \in Seq(S)
  BY DEF ListInv, Lines
<1>2. screen \in Seq(S \cup {line}) /\ line \in S \cup {line}
  BY <1>1
<1> QED
  BY <1>2, AppendGrows DEF println

LEMMA EmptyIsLined == Lined(<<>>)
BY DEF Lined

\* The first line, when it is about neither.
LEMMA FirstRemark ==
  ASSUME ListInv, screen = <<>>, NEW line, println(line), ~OfDisk(line), ~OfMount(line)
  PROVE  /\ Cardinality(DisksIn(screen')) = 0
         /\ TellsAs(screen', listing) /\ Complete(screen', 0, listing)
         /\ Complete(screen', 0 - 1, listing)
<1>1. Grows(<<>>, screen', line)
  BY ScreenGrows
<1>2. Len(listing) \in Nat
  BY DEF ListInv, FaithfulInv, TypeOK
<1> QED
  BY <1>1, <1>2, BlankTells

\* No line at all, whatever the listing.
LEMMA BlankTally ==
  ASSUME NEW list, Len(list) \in Nat
  PROVE  /\ TellsAs(<<>>, list) /\ Complete(<<>>, Cardinality(DisksIn(<<>>)) - 1, list)
         /\ Cardinality(DisksIn(<<>>)) = 0 /\ Complete(<<>>, 0, list)
<1>1. /\ Cardinality(DisksIn(<<>>)) = 0 /\ TellsAs(<<>>, list)
      /\ Complete(<<>>, 0, list) /\ Complete(<<>>, 0 - 1, list)
  BY BlankTells
<1> QED
  BY <1>1

LEMMA ListedLength == ListInv => listing \in Seq(Device) /\ Len(listing) \in Nat
BY DEF ListInv, FaithfulInv, TypeOK

LEMMA InitTally == ListInit => Tally
<1> SUFFICES ASSUME ListInit PROVE Tally
  OBVIOUS
<1>1. screen = <<>> /\ listing = <<>> /\ proc = "main"
  BY DEF ListInit, Init
<1>2. Len(<<>>) \in Nat
  OBVIOUS
<1> QED
  BY <1>1, <1>2, BlankTally DEF Tally

LEMMA DispatchTally ==
  ASSUME ListInv, Tally, Dispatch
  PROVE  Tally'
<1>1. listing' = listing /\ cmd' = cmd /\ screen = <<>> /\ Len(listing) \in Nat
  BY ListedLength DEF Dispatch, vars, callVars, ListInv, Locals
<1>2. \/ proc' = "enumerate" /\ screen' = screen
      \/ proc' = "exited" /\ cmd # "list" /\ println(Version)
      \/ proc' = "exited" /\ cmd # "list" /\ screen' = screen
  BY DEF Dispatch
<1>3. CASE screen' = screen
  BY <1>1, <1>2, <1>3, BlankTally DEF Tally
<1>4. CASE proc' = "exited" /\ cmd # "list" /\ println(Version)
  BY <1>1, <1>4, FirstRemark, Remarks DEF Tally
<1> QED
  BY <1>2, <1>3, <1>4

LEMMA EnumerateTally ==
  ASSUME ListInv, ListInv', Tally, Enumerate
  PROVE  Tally'
<1>1. screen' = <<>> /\ proc' = "enumerate"
  BY DEF Enumerate, processVars, ListInv, Locals
<1>2. Len(listing') \in Nat
  BY DEF ListInv, FaithfulInv, TypeOK
<1> QED
  BY <1>1, <1>2, BlankTally DEF Tally

LEMMA EnumeratedTally ==
  ASSUME ListInv, Tally, Enumerated
  PROVE  Tally'
<1>1. listing' = listing /\ outcome' = outcome /\ cmd' = cmd /\ screen = <<>>
      /\ Len(listing) \in Nat /\ outcome \in {"Ok", "Io"}
  BY ListedLength DEF Enumerated, vars, callVars, ListInv, Locals
<1>2. \/ proc' = "failed" /\ screen' = screen
      \/ proc' = "exited" /\ outcome = "Ok" /\ listing = <<>> /\ println(NoDisks)
      \/ proc' = "size" /\ outcome # "Io" /\ at' = 1 /\ screen' = screen
  BY DEF Enumerated, Begin
<1>3. CASE proc' = "failed" /\ screen' = screen
  BY <1>1, <1>3, BlankTally DEF Tally
<1>4. CASE proc' = "exited" /\ outcome = "Ok" /\ listing = <<>> /\ println(NoDisks)
  <2>1. screen' = <<NoDisks>>
    BY <1>1, <1>4 DEF println
  <2>2. Len(<<>>) = 0
    OBVIOUS
  <2> QED
    BY <1>1, <1>4, <2>1, <2>2, FirstRemark, Remarks DEF Tally
<1>5. CASE proc' = "size" /\ outcome # "Io" /\ at' = 1 /\ screen' = screen
  BY <1>1, <1>5, BlankTally DEF Tally
<1> QED
  BY <1>2, <1>3, <1>4, <1>5

LEMMA PrintDiskTally ==
  ASSUME ListInv, Tally, PrintDisk
  PROVE  Tally'
<1>1. /\ listing' = listing /\ outcome' = outcome /\ at' = at /\ proc = "size" /\ proc' = "mounts"
      /\ todo' = disk.mountpoints /\ println(Header)
  BY DEF PrintDisk, vars, callVars
<1>2. /\ at \in 1 .. Len(listing) /\ Len(listing) \in Nat /\ outcome = "Ok"
      /\ TellsAs(screen, listing) /\ Cardinality(DisksIn(screen)) = at - 1
      /\ Complete(screen, at - 1, listing)
  BY <1>1, ListedLength DEF ListInv, ListTypeOK, Tally
<1>3. at - 1 < Len(listing) /\ at - 1 + 1 = at
  BY <1>2
<1>4. Grows(screen, screen', Header) /\ OfDisk(Header) /\ Header.path = listing[at].path
  BY <1>1, ScreenGrows, Kinds DEF disk
<1>5. /\ TellsAs(screen', listing)
      /\ Complete(screen', Cardinality(DisksIn(screen')) - 1, listing)
      /\ Cardinality(DisksIn(screen')) = at
      /\ PathsIn(screen', at) = {}
  <2>1. /\ Cardinality(DisksIn(screen)) < Len(listing)
        /\ Complete(screen, Cardinality(DisksIn(screen)), listing)
        /\ Header.path = listing[Cardinality(DisksIn(screen)) + 1].path
    BY <1>2, <1>3, <1>4
  <2>2. /\ TellsAs(screen', listing)
        /\ Complete(screen', Cardinality(DisksIn(screen')) - 1, listing)
        /\ Cardinality(DisksIn(screen')) = Cardinality(DisksIn(screen)) + 1
        /\ PathsIn(screen', Cardinality(DisksIn(screen'))) = {}
    BY <1>2, <1>4, <2>1, HeaderTells
  <2> QED
    BY <1>2, <1>3, <2>2
<1>6. PathsIn(screen', at') = disk'.mountpoints \ todo'
  BY <1>1, <1>5 DEF disk
<1> QED
  BY <1>1, <1>2, <1>5, <1>6 DEF Tally

LEMMA PrintMountTally ==
  ASSUME ListInv, Tally, PrintMount
  PROVE  Tally'
<1>1. /\ listing' = listing /\ outcome' = outcome /\ at' = at /\ proc = "mounts" /\ proc' = proc
  BY DEF PrintMount, vars, callVars
<1>2. PICK path \in todo : println(MountLine(path)) /\ todo' = todo \ {path}
  BY DEF PrintMount
<1>3. /\ at \in 1 .. Len(listing) /\ Len(listing) \in Nat /\ outcome = "Ok"
      /\ todo \subseteq listing[at].mountpoints
      /\ TellsAs(screen, listing) /\ Cardinality(DisksIn(screen)) = at
      /\ Complete(screen, at - 1, listing)
      /\ PathsIn(screen, at) = listing[at].mountpoints \ todo
  BY <1>1, ListedLength DEF ListInv, ListTypeOK, Tally, disk
<1>4. Grows(screen, screen', MountLine(path)) /\ OfMount(MountLine(path)) /\ MountLine(path).path = path
  BY <1>2, ScreenGrows, Kinds
<1>5. MountLine(path).path \in listing[at].mountpoints \ PathsIn(screen, at)
  BY <1>2, <1>3, <1>4
<1>6. /\ TellsAs(screen', listing) /\ Complete(screen', at - 1, listing)
      /\ DisksIn(screen') = DisksIn(screen)
      /\ PathsIn(screen', at) = PathsIn(screen, at) \cup {path}
  BY <1>3, <1>4, <1>5, MountTells
<1>7. Cardinality(DisksIn(screen')) = at /\ PathsIn(screen', at) = listing[at].mountpoints \ todo'
  BY <1>2, <1>3, <1>6
<1> QED
  BY <1>1, <1>3, <1>6, <1>7 DEF Tally, disk

LEMMA NextDiskTally ==
  ASSUME ListInv, Tally, NextDisk
  PROVE  Tally'
<1>1. /\ UNCHANGED <<listing, outcome, cmd, screen>> /\ proc = "mounts" /\ todo = {}
      /\ \/ proc' = "size" /\ at' = at + 1
         \/ proc' = "exited" /\ ~(at < Len(listing))
  BY DEF NextDisk, Begin, vars, callVars
<1>2. /\ at \in 1 .. Len(listing) /\ Len(listing) \in Nat /\ outcome = "Ok"
      /\ TellsAs(screen, listing) /\ Cardinality(DisksIn(screen)) = at
      /\ Complete(screen, at - 1, listing)
      /\ PathsIn(screen, at) = listing[at].mountpoints
  BY <1>1, ListedLength DEF ListInv, ListTypeOK, Tally, disk
<1>3. Complete(screen, at, listing)
  BY <1>2 DEF Complete
<1>4. CASE proc' = "size" /\ at' = at + 1
  <2>1. at' - 1 = at
    BY <1>2, <1>4
  <2> QED
    BY <1>1, <1>2, <1>3, <1>4, <2>1 DEF Tally
<1>5. CASE proc' = "exited" /\ ~(at < Len(listing))
  <2>1. at = Len(listing) /\ at # 0
    BY <1>2, <1>5
  <2>2. listing # <<>>
    BY <2>1
  <2>3. screen # <<NoDisks>>
    <3>1. Grows(<<>>, <<NoDisks>>, NoDisks)
      <4>1. <<>> \in Seq({NoDisks}) /\ Append(<<>>, NoDisks) = <<NoDisks>>
        OBVIOUS
      <4> QED
        BY <4>1, AppendGrows
    <3>2. Cardinality(DisksIn(<<NoDisks>>)) = 0
      BY <1>2, <3>1, BlankTells, Remarks
    <3> QED
      BY <1>2, <2>1, <3>2
  <2> QED
    BY <1>1, <1>2, <1>3, <1>5, <2>1, <2>2, <2>3 DEF Tally
<1> QED
  BY <1>1, <1>4, <1>5

\* A division, a closed pipe, an event of the kernel, and nothing at all.
LEMMA OthersTally ==
  ASSUME ListInv, Tally, Divide \/ PrintFails \/ Meanwhile \/ UNCHANGED listVars
  PROVE  Tally'
<1>1. UNCHANGED <<listing, outcome, cmd, screen, at, todo>> /\ proc' \in {proc, "panicked"}
  <2>1. CASE PrintFails \/ Divide
    BY <2>1 DEF PrintFails, Divide, vars, callVars
  <2>2. CASE Meanwhile
    <3>1. UNCHANGED callVars
      BY <2>2, KernelActions DEF Meanwhile
    <3> QED
      BY <2>2, <3>1 DEF Meanwhile, processVars, callVars
  <2>3. CASE UNCHANGED listVars
    BY <2>3 DEF listVars, vars, callVars, processVars
  <2> QED
    BY <2>1, <2>2, <2>3
<1> QED
  BY <1>1 DEF Tally, disk

LEMMA NextTally == ListInv /\ ListInv' /\ Tally /\ [ListNext]_listVars => Tally'
BY DispatchTally, EnumerateTally, EnumeratedTally, PrintDiskTally, PrintMountTally, NextDiskTally,
   OthersTally DEF ListNext, Report

LEMMA TallyTells == ListInv /\ Tally => ScreenTellsListing
<1> SUFFICES ASSUME ListInv, Tally PROVE ScreenTellsListing
  OBVIOUS
<1>1. DiskLines = DisksIn(screen) /\ MountLines = MountsIn(screen)
  BY DEF DiskLines, MountLines, DisksIn, MountsIn, OfDisk, OfMount
<1>2. Disks = Cardinality(DisksIn(screen)) /\ \A i : Owner(i) = OwnerIn(screen, i)
  BY <1>1 DEF Disks, Owner, OwnerIn
<1>3. \A k : MountsBelow(k) = BelowIn(screen, k)
  BY <1>1, <1>2 DEF MountsBelow, BelowIn
<1>4. \A k : PathsBelow(k) = PathsIn(screen, k)
  BY <1>3 DEF PathsBelow, PathsIn
<1>5. Disks \in Nat
  <2>1. PICK S : screen \in Seq(S)
    BY DEF ListInv, Lines
  <2>2. Lined(screen)
    BY <2>1 DEF Lined
  <2> QED
    BY <1>2, <2>2, DisksCounted
<1>6. ASSUME NEW k \in 1 .. Disks
      PROVE  /\ PathsBelow(k) \subseteq listing[k].mountpoints
             /\ Cardinality(MountsBelow(k)) = Cardinality(PathsBelow(k))
             /\ (k < Disks \/ proc = "exited") => PathsBelow(k) = listing[k].mountpoints
  <2>1. /\ PathsBelow(k) \subseteq listing[k].mountpoints
        /\ Cardinality(MountsBelow(k)) = Cardinality(PathsBelow(k))
    BY <1>2, <1>3, <1>4 DEF Tally, TellsAs
  <2>2. CASE k < Disks
    <3>1. k \in 1 .. Disks - 1
      BY <1>5, <2>2
    <3> QED
      BY <1>2, <1>4, <2>1, <3>1 DEF Tally, Complete
  <2>3. CASE proc = "exited"
    BY <1>2, <1>4, <2>1, <2>3 DEF Tally, Complete
  <2> QED
    BY <2>1, <2>2, <2>3
<1>7. /\ Disks <= Len(listing)
      /\ \A i \in DiskLines : screen[i].path = listing[Owner(i)].path
      /\ MountsBelow(0) = {}
  BY <1>1, <1>2, <1>3 DEF Tally, TellsAs
<1> QED
  BY <1>2, <1>6, <1>7 DEF ScreenTellsListing, Tally

-----------------------------------------------------------------------------
(* What is owed is a tuple of natural numbers, because the mount points of *)
(* a disk are finitely many and the index stays within the listing.        *)

MountsAreFinite ==
  /\ IsFiniteSet(mountTab) /\ IsFiniteSet(mounts)
  /\ \A d \in Reported : IsFiniteSet(d.mountpoints)

LocalsAreBounded ==
  /\ IsFiniteSet(todo)
  /\ at \in Nat /\ at <= Len(listing)
  /\ proc \in {"main", "enumerate"} => at = 0

LEMMA InitFinite == ListInit => MountsAreFinite /\ LocalsAreBounded
<1> SUFFICES ASSUME ListInit PROVE MountsAreFinite /\ LocalsAreBounded
  OBVIOUS
<1>1. mountTab \in InitMounts /\ mounts = {} /\ devices = {} /\ listing = <<>> /\ todo = {} /\ at = 0
  BY DEF ListInit, Init, KernelInit
<1>2. Reported = {}
  BY <1>1 DEF Reported, Range
<1>3. Len(<<>>) = 0
  OBVIOUS
<1> QED
  BY <1>1, <1>2, <1>3, FinitenessAssumption, FS_EmptySet DEF MountsAreFinite, LocalsAreBounded

LEMMA FiniteImage ==
  ASSUME NEW S, IsFiniteSet(S), NEW f, DOMAIN f = S, NEW T, T = {f[x] : x \in S}, f = [x \in S |-> f[x]]
  PROVE  IsFiniteSet(T)
<1>1. f \in [S -> T] /\ \A t \in T : \E x \in S : f[x] = t
  OBVIOUS
<1>2. f \in Surjection(S, T)
  BY <1>1 DEF Surjection
<1> QED
  BY <1>2, FS_Surjection

\* What the call reads of a finite table, and finds in it, is finite.
LEMMA ReadsAreFinite ==
  /\ \A tab : IsFiniteSet(tab) => IsFiniteSet(read_mounts(tab))
  /\ \A dev, tab : IsFiniteSet(tab) => IsFiniteSet(mounts_for(dev, tab))
<1>1. ASSUME NEW tab, IsFiniteSet(tab) PROVE IsFiniteSet(read_mounts(tab))
  <2> DEFINE f == [m \in tab |-> <<m.dev, m.path>>]
  <2>1. {<<m.dev, m.path>> : m \in tab} = {f[x] : x \in tab} /\ DOMAIN f = tab
    OBVIOUS
  <2>2. f = [x \in tab |-> f[x]]
    OBVIOUS
  <2> HIDE DEF f
  <2>3. IsFiniteSet({<<m.dev, m.path>> : m \in tab})
    BY <1>1, <2>1, <2>2, FiniteImage
  <2> QED
    BY <2>3, FS_EmptySet DEF read_mounts
<1>2. ASSUME NEW dev, NEW tab, IsFiniteSet(tab) PROVE IsFiniteSet(mounts_for(dev, tab))
  <2> DEFINE its == {x \in tab : x[1] = dev \/ is_partition_of(dev, x[1])}
             f == [x \in its |-> x[2]]
  <2>1. its \in SUBSET tab
    OBVIOUS
  <2>2. IsFiniteSet(its)
    <3> HIDE DEF its
    <3> QED
      BY <1>2, <2>1, FS_Subset
  <2>3. mounts_for(dev, tab) = {x[2] : x \in its}
    BY DEF mounts_for
  <2> HIDE DEF its
  <2>4. {x[2] : x \in its} = {f[x] : x \in its} /\ DOMAIN f = its
    OBVIOUS
  <2>5. f = [x \in its |-> f[x]]
    OBVIOUS
  <2> HIDE DEF f
  <2>6. IsFiniteSet({x[2] : x \in its})
    BY <2>2, <2>4, <2>5, FiniteImage
  <2> QED
    BY <2>3, <2>6
<1> QED
  BY <1>1, <1>2

LEMMA NextFinite ==
  ASSUME ListInv, MountsAreFinite, [Next]_vars
  PROVE  MountsAreFinite'
<1>1. CASE UNCHANGED vars
  BY <1>1 DEF vars, kernelVars, callVars, MountsAreFinite, Reported, Range
<1>2. CASE Kernel
  <2>1. UNCHANGED callVars
    BY <1>2, KernelActions
  <2>2. IsFiniteSet(mountTab')
    <3>1. CASE MountSeen
      <4>1. \/ \E m : mountTab' = mountTab \cup {m}
            \/ \E m : mountTab' = mountTab \ {m}
        BY <3>1 DEF MountSeen, MountEvent, Mount, Unmount
      <4> QED
        BY <4>1, FS_AddElement, FS_RemoveElement DEF MountsAreFinite
    <3>2. CASE ~MountSeen
      <4>1. mountTab' = mountTab
        BY <1>2, <3>2 DEF Kernel, AttachSeen, DetachSeen, AlterSeen, Attach, Detach, Alter, SetDir
      <4> QED
        BY <4>1 DEF MountsAreFinite
    <3> QED
      BY <3>1, <3>2
  <2> QED
    BY <2>1, <2>2 DEF MountsAreFinite, callVars, Reported, Range
<1>3. CASE Call
  <2>1. mountTab' = mountTab
    BY <1>3 DEF Call, Read, ReadMounts, ReadDirFails, OpenDir, NextEntry, CheckWhole, ReadSize,
         ReadLogicalBlockSize, ReadPhysicalBlockSize, ReadRemovable, ReadReadOnly, ReadModel,
         DetectUsb, DetectVirtualAndPush, EndOfDir, Local, kernelVars
  <2>2. mounts' = mounts \/ mounts' = read_mounts(mountTab) \/ mounts' = {}
    BY <1>3 DEF Call, Read, ReadMounts, ReadDirFails, OpenDir, NextEntry, CheckWhole, ReadSize,
         ReadLogicalBlockSize, ReadPhysicalBlockSize, ReadRemovable, ReadReadOnly, ReadModel,
         DetectUsb, DetectVirtualAndPush, EndOfDir, Local
  <2>3. IsFiniteSet(mounts')
    BY <2>2, ReadsAreFinite, FS_EmptySet DEF MountsAreFinite
  <2>4. devices' \subseteq devices \cup {Built(detect_virtual(cur))}
    BY <1>3 DEF Call, Read, ReadMounts, ReadDirFails, OpenDir, NextEntry, CheckWhole, Skip, ReadSize,
         ReadLogicalBlockSize, ReadPhysicalBlockSize, ReadRemovable, ReadReadOnly, ReadModel,
         DetectUsb, DetectVirtualAndPush, EndOfDir, Local
  <2>5. Range(listing') \subseteq Reported
    <3>1. CASE EndOfDir
      BY <3>1 DEF EndOfDir, SortedByPath, Reported
    <3>2. CASE ~EndOfDir
      <4>1. listing' = listing \/ listing' = <<>>
        BY <1>3, <3>2 DEF Call, Read, ReadMounts, ReadDirFails, OpenDir, NextEntry, CheckWhole,
             ReadSize, ReadLogicalBlockSize, ReadPhysicalBlockSize, ReadRemovable, ReadReadOnly,
             ReadModel, DetectUsb, DetectVirtualAndPush, Local
      <4> QED
        BY <4>1 DEF Reported, Range
    <3> QED
      BY <3>1, <3>2
  <2>6. Built(detect_virtual(cur)).mountpoints = mounts_for(cur, mounts)
    BY DEF Built
  <2>7. IsFiniteSet(Built(detect_virtual(cur)).mountpoints)
    BY <2>6, ReadsAreFinite DEF MountsAreFinite
  <2>8. Reported' \subseteq Reported \cup {Built(detect_virtual(cur))}
    BY <2>4, <2>5 DEF Reported
  <2> QED
    BY <2>1, <2>3, <2>7, <2>8 DEF MountsAreFinite
<1> QED
  BY <1>1, <1>2, <1>3 DEF Next

\* Every call of the process lists within the index it has, which is none.
LEMMA NextBounded ==
  ASSUME ListInv, ListInv', MountsAreFinite, LocalsAreBounded, [ListNext]_listVars
  PROVE  LocalsAreBounded'
<1>0. Len(listing) \in Nat /\ Len(listing') \in Nat
  BY DEF ListInv, FaithfulInv, TypeOK
<1>1. CASE Dispatch
  BY <1>1 DEF Dispatch, LocalsAreBounded, vars, callVars
<1>2. CASE Enumerate
  <2>1. UNCHANGED <<proc, at, todo>> /\ at = 0
    BY <1>2 DEF Enumerate, processVars, LocalsAreBounded
  <2> QED
    BY <1>0, <2>1 DEF LocalsAreBounded
<1>3. CASE Enumerated
  <2>1. listing' = listing /\ todo' = todo /\ proc' \notin {"main", "enumerate"}
        /\ (at' = at \/ (at' = 1 /\ proc' = "size"))
    BY <1>3 DEF Enumerated, Begin, vars, callVars
  <2>2. proc' = "size" => at' \in 1 .. Len(listing')
    BY DEF ListInv, ListTypeOK
  <2> QED
    BY <1>0, <2>1, <2>2 DEF LocalsAreBounded
<1>4. CASE Divide \/ PrintFails
  <2>1. UNCHANGED <<listing, at, todo>> /\ proc' \in {"size", "panicked"}
    BY <1>4 DEF Divide, PrintFails, vars, callVars
  <2> QED
    BY <2>1 DEF LocalsAreBounded
<1>5. CASE PrintDisk
  <2>1. UNCHANGED <<listing, at>> /\ proc = "size" /\ proc' = "mounts" /\ todo' = disk.mountpoints
    BY <1>5 DEF PrintDisk, vars, callVars
  <2>2. disk \in Reported
    BY <2>1, TheDisk DEF Reported
  <2> QED
    BY <2>1, <2>2 DEF LocalsAreBounded, MountsAreFinite
<1>6. CASE PrintMount
  <2>1. UNCHANGED <<listing, at, proc>> /\ todo' \in SUBSET todo
    BY <1>6 DEF PrintMount, vars, callVars
  <2> QED
    BY <2>1, FS_Subset DEF LocalsAreBounded
<1>7. CASE NextDisk
  <2>1. UNCHANGED <<listing, todo>> /\ proc' \in {"size", "exited"}
        /\ (at' = at \/ (at' = at + 1 /\ at < Len(listing)))
    BY <1>7 DEF NextDisk, Begin, vars, callVars
  <2> QED
    BY <1>0, <2>1 DEF LocalsAreBounded
<1>8. CASE Meanwhile \/ UNCHANGED listVars
  <2>1. UNCHANGED <<listing, at, todo, proc>>
    BY <1>8, KernelActions DEF Meanwhile, listVars, vars, callVars, processVars
  <2> QED
    BY <2>1 DEF LocalsAreBounded
<1> QED
  BY <1>1, <1>2, <1>3, <1>4, <1>5, <1>6, <1>7, <1>8 DEF ListNext, Report

-----------------------------------------------------------------------------
(* Each step of the process leaves less.                                   *)

ScanLeft == Cardinality(Names \ yielded)
DisksLeft == Len(listing) - at
LineLeft == IF proc = "size" THEN 1 ELSE 0
UnitsLeft == LastUnit - unit
MountsLeft == Cardinality(todo)

LEMMA OwedIs ==
  Owed = <<OwedByProcess, OwedByCall, ScanLeft, OwedByBuild, DisksLeft, LineLeft, UnitsLeft, MountsLeft>>
BY DEF Owed, ScanLeft, DisksLeft, LineLeft, UnitsLeft, MountsLeft

Counts ==
  /\ OwedByProcess \in Nat /\ OwedByCall \in Nat /\ ScanLeft \in Nat /\ OwedByBuild \in Nat
  /\ DisksLeft \in Nat /\ LineLeft \in Nat /\ UnitsLeft \in Nat /\ MountsLeft \in Nat

LEMMA OwedCounts == ListInv /\ LocalsAreBounded => Counts
<1> SUFFICES ASSUME ListInv, LocalsAreBounded PROVE Counts
  OBVIOUS
<1>1. OwedByProcess \in Nat /\ OwedByCall \in Nat /\ LineLeft \in Nat
  BY DEF OwedByProcess, OwedByCall, LineLeft
<1>2. OwedByBuild \in Nat
  BY DEF OwedByBuild
<1>3. ScanLeft \in Nat
  BY FinitenessAssumption, FS_Difference, FS_CardinalityType DEF ScanLeft
<1>4. DisksLeft \in Nat
  <2>1. Len(listing) \in Nat
    BY ListedLength
  <2> QED
    BY <2>1 DEF LocalsAreBounded, DisksLeft
<1>5. UnitsLeft \in Nat
  BY Units DEF ListInv, ListTypeOK, UnitsLeft
<1>6. MountsLeft \in Nat
  BY FS_CardinalityType DEF LocalsAreBounded, MountsLeft
<1> QED
  BY <1>1, <1>2, <1>3, <1>4, <1>5, <1>6 DEF Counts

\* Nothing to do with a call changes, or with a disk.
SameCall == OwedByCall' = OwedByCall /\ ScanLeft' = ScanLeft /\ OwedByBuild' = OwedByBuild

LEMMA LessOwed ==
  ASSUME Counts, Counts',
         \/ OwedByProcess' < OwedByProcess
         \/ /\ OwedByProcess' = OwedByProcess
            /\ \/ OwedByCall' < OwedByCall
               \/ OwedByCall' = OwedByCall /\ ScanLeft' < ScanLeft
               \/ OwedByCall' = OwedByCall /\ ScanLeft' = ScanLeft /\ OwedByBuild' < OwedByBuild
               \/ SameCall /\ DisksLeft' < DisksLeft
               \/ SameCall /\ DisksLeft' = DisksLeft /\ LineLeft' < LineLeft
               \/ SameCall /\ DisksLeft' = DisksLeft /\ LineLeft' = LineLeft /\ UnitsLeft' < UnitsLeft
               \/ SameCall /\ DisksLeft' = DisksLeft /\ LineLeft' = LineLeft /\ UnitsLeft' = UnitsLeft
                  /\ MountsLeft' < MountsLeft
  PROVE  LexLess(Owed', Owed)
<1> DEFINE a == Owed'
           b == Owed
<1>1. /\ DOMAIN a = 1 .. 8
      /\ a[1] = OwedByProcess' /\ a[2] = OwedByCall' /\ a[3] = ScanLeft' /\ a[4] = OwedByBuild'
      /\ a[5] = DisksLeft' /\ a[6] = LineLeft' /\ a[7] = UnitsLeft' /\ a[8] = MountsLeft'
  BY DEF Owed, ScanLeft, DisksLeft, LineLeft, UnitsLeft, MountsLeft
<1>2. /\ b[1] = OwedByProcess /\ b[2] = OwedByCall /\ b[3] = ScanLeft /\ b[4] = OwedByBuild
      /\ b[5] = DisksLeft /\ b[6] = LineLeft /\ b[7] = UnitsLeft /\ b[8] = MountsLeft
  BY OwedIs
<1> HIDE DEF a, b
<1>3. \E i \in 1 .. 8 : a[i] < b[i] /\ \A j \in 1 .. i - 1 : a[j] = b[j]
  BY <1>1, <1>2 DEF Counts, SameCall
<1>4. LexLess(a, b)
  BY <1>1, <1>3 DEF LexLess
<1> QED
  BY <1>4 DEF a, b

\* The outermost count, by where the process is.
LEMMA ProcessCounts ==
  /\ proc = "main" => OwedByProcess = 3
  /\ proc = "enumerate" => OwedByProcess = 2
  /\ proc \in {"size", "mounts"} => OwedByProcess = 1
  /\ proc \in Ended => OwedByProcess = 0
BY DEF OwedByProcess, Ended

LEMMA CallLeavesLess ==
  ASSUME ListInv, Counts, Counts', Enumerate
  PROVE  LexLess(Owed', Owed)
<1>1. OwedByProcess' = OwedByProcess /\ pc # "returned"
  BY DEF Enumerate, processVars, OwedByProcess
<1>2. CASE ReadMounts \/ ReadDirFails \/ OpenDir \/ EndOfDir
  <2>1. OwedByCall' < OwedByCall
    BY <1>1, <1>2 DEF ReadMounts, ReadDirFails, OpenDir, EndOfDir, OwedByCall
  <2> QED
    BY <1>1, <2>1, LessOwed
<1>3. CASE NextEntry
  <2>1. OwedByCall' = OwedByCall
    BY <1>3 DEF NextEntry, OwedByCall
  <2>2. PICK n \in dirSeen \ yielded : yielded' = yielded \cup {n}
    BY <1>3 DEF NextEntry
  <2>3. n \in Names \ yielded
    BY <2>2 DEF ListInv, FaithfulInv, TypeOK
  <2>4. Names \ yielded' = (Names \ yielded) \ {n}
    BY <2>2
  <2>5. IsFiniteSet(Names \ yielded)
    BY FinitenessAssumption, FS_Difference
  <2>6. ScanLeft' = ScanLeft - 1
    <3> DEFINE rest == Names \ yielded
    <3> HIDE DEF rest
    <3>1. Cardinality(rest \ {n}) = Cardinality(rest) - 1
      BY <2>3, <2>5, FS_RemoveElement DEF rest
    <3> QED
      BY <2>4, <3>1 DEF ScanLeft, rest
  <2>7. ScanLeft' < ScanLeft
    BY <2>6 DEF Counts
  <2> QED
    BY <1>1, <2>1, <2>7, LessOwed
<1>4. CASE \/ CheckWhole \/ ReadSize \/ ReadLogicalBlockSize \/ ReadPhysicalBlockSize \/ ReadRemovable
           \/ ReadReadOnly \/ ReadModel \/ DetectUsb \/ DetectVirtualAndPush
  <2>1. ScanLeft' = ScanLeft
    BY <1>4 DEF CheckWhole, ReadSize, ReadLogicalBlockSize, ReadPhysicalBlockSize, ReadRemovable,
         ReadReadOnly, ReadModel, DetectUsb, DetectVirtualAndPush, Local, dirVars, ScanLeft
  <2>2. OwedByCall' = OwedByCall
    BY <1>4 DEF CheckWhole, Skip, ReadSize, ReadLogicalBlockSize, ReadPhysicalBlockSize, ReadRemovable,
         ReadReadOnly, ReadModel, DetectUsb, DetectVirtualAndPush, Local, OwedByCall
  <2>3. \/ pc = "whole" /\ pc' \in {"size", "next"}
        \/ pc = "size" /\ pc' \in {"logical", "next"}
        \/ pc = "logical" /\ pc' = "physical"
        \/ pc = "physical" /\ pc' = "removable"
        \/ pc = "removable" /\ pc' = "ro"
        \/ pc = "ro" /\ pc' = "model"
        \/ pc = "model" /\ pc' = "usb"
        \/ pc = "usb" /\ pc' = "virtual"
        \/ pc = "virtual" /\ pc' = "next"
    BY <1>4 DEF CheckWhole, Skip, ReadSize, ReadLogicalBlockSize, ReadPhysicalBlockSize, ReadRemovable,
         ReadReadOnly, ReadModel, DetectUsb, DetectVirtualAndPush, Local
  <2>4. OwedByBuild' < OwedByBuild
    BY <2>3 DEF OwedByBuild
  <2> QED
    BY <1>1, <2>1, <2>2, <2>4, LessOwed
<1> QED
  BY <1>2, <1>3, <1>4 DEF Enumerate, Call, Read

LEMMA PrintingLeavesLess ==
  ASSUME ListInv, LocalsAreBounded, Counts, Counts', Divide \/ PrintDisk \/ PrintMount \/ NextDisk
  PROVE  LexLess(Owed', Owed)
<1>1. SameCall
  BY DEF Divide, PrintDisk, PrintMount, NextDisk, vars, callVars, dirVars, SameCall, OwedByCall,
       ScanLeft, OwedByBuild
<1>2. CASE Divide
  <2>1. UNCHANGED <<proc, listing, at>> /\ unit' = unit + 1 /\ unit \in 0 .. LastUnit
    BY <1>2 DEF Divide, vars, callVars, ListInv, ListTypeOK
  <2>2. OwedByProcess' = OwedByProcess /\ DisksLeft' = DisksLeft /\ LineLeft' = LineLeft
    BY <2>1 DEF OwedByProcess, DisksLeft, LineLeft
  <2>3. UnitsLeft' < UnitsLeft
    BY <2>1, Units DEF UnitsLeft
  <2> QED
    BY <1>1, <2>2, <2>3, LessOwed
<1>3. CASE PrintDisk
  <2>1. UNCHANGED <<listing, at>> /\ proc = "size" /\ proc' = "mounts"
    BY <1>3 DEF PrintDisk, vars, callVars
  <2>2. OwedByProcess' = OwedByProcess /\ DisksLeft' = DisksLeft
    BY <2>1 DEF OwedByProcess, DisksLeft, Ended
  <2>3. LineLeft' < LineLeft
    BY <2>1 DEF LineLeft
  <2> QED
    BY <1>1, <2>2, <2>3, LessOwed
<1>4. CASE PrintMount
  <2>1. UNCHANGED <<proc, listing, at, unit>>
    BY <1>4 DEF PrintMount, vars, callVars
  <2>2. OwedByProcess' = OwedByProcess /\ DisksLeft' = DisksLeft /\ LineLeft' = LineLeft
        /\ UnitsLeft' = UnitsLeft
    BY <2>1 DEF OwedByProcess, DisksLeft, LineLeft, UnitsLeft
  <2>3. PICK path \in todo : todo' = todo \ {path}
    BY <1>4 DEF PrintMount
  <2>4. MountsLeft' = MountsLeft - 1
    BY <2>3, FS_RemoveElement DEF LocalsAreBounded, MountsLeft
  <2>5. MountsLeft' < MountsLeft
    BY <2>4 DEF Counts
  <2> QED
    BY <1>1, <2>2, <2>5, LessOwed
<1>5. CASE NextDisk
  <2>1. /\ proc = "mounts" /\ listing' = listing
        /\ \/ proc' = "size" /\ at' = at + 1
           \/ proc' = "exited"
    BY <1>5 DEF NextDisk, Begin, vars, callVars
  <2>2. CASE proc' = "exited"
    <3>1. OwedByProcess' < OwedByProcess
      BY <2>1, <2>2, ProcessCounts DEF OwedByProcess, Ended
    <3> QED
      BY <3>1, LessOwed
  <2>3. CASE proc' = "size" /\ at' = at + 1
    <3>1. OwedByProcess' = OwedByProcess
      BY <2>1, <2>3 DEF OwedByProcess, Ended
    <3>2. DisksLeft' < DisksLeft
      <4>1. Len(listing) \in Nat /\ at \in Nat
        BY ListedLength DEF LocalsAreBounded
      <4> QED
        BY <2>1, <2>3, <4>1 DEF DisksLeft
    <3> QED
      BY <1>1, <3>1, <3>2, LessOwed
  <2> QED
    BY <2>1, <2>2, <2>3
<1> QED
  BY <1>2, <1>3, <1>4, <1>5

LEMMA StepLeavesLess ==
  ASSUME ListInv, LocalsAreBounded, Counts, Counts', ListNext
  PROVE  LexLess(Owed', Owed) \/ (Meanwhile /\ Owed' = Owed)
<1>1. CASE Dispatch
  <2>1. proc = "main" /\ proc' \in {"enumerate", "exited"}
    BY <1>1 DEF Dispatch
  <2>2. OwedByProcess' < OwedByProcess
    BY <2>1 DEF OwedByProcess, Ended
  <2> QED
    BY <2>2, LessOwed
<1>2. CASE Enumerated
  <2>1. proc = "enumerate" /\ proc' \in {"failed", "exited", "size"}
    BY <1>2 DEF Enumerated
  <2>2. OwedByProcess' < OwedByProcess
    BY <2>1 DEF OwedByProcess, Ended
  <2> QED
    BY <2>2, LessOwed
<1>3. CASE PrintFails
  <2>1. proc \in {"main", "enumerate", "size", "mounts"} /\ proc' = "panicked"
    BY <1>3 DEF PrintFails
  <2>2. OwedByProcess' < OwedByProcess
    BY <2>1 DEF OwedByProcess, Ended
  <2> QED
    BY <2>2, LessOwed
<1>4. CASE Meanwhile
  <2>1. UNCHANGED <<pc, listing, yielded, proc, at, unit, todo>>
    <3>1. UNCHANGED callVars /\ UNCHANGED processVars
      BY <1>4, KernelActions DEF Meanwhile
    <3>2. yielded' = yielded
      BY <1>4 DEF Meanwhile, Kernel, MountSeen, AttachSeen, DetachSeen, AlterSeen, dirVars
    <3> QED
      BY <3>1, <3>2 DEF callVars, processVars
  <2>2. Owed' = Owed
    BY <2>1 DEF Owed, OwedByProcess, OwedByCall, OwedByBuild
  <2> QED
    BY <1>4, <2>2
<1> QED
  BY <1>1, <1>2, <1>3, <1>4, CallLeavesLess, PrintingLeavesLess DEF ListNext, Report

LEMMA BoundsAlways == ListSpec => [](MountsAreFinite /\ LocalsAreBounded)
<1>1. ListInv /\ ListInv' /\ MountsAreFinite /\ LocalsAreBounded /\ [ListNext]_listVars
        => MountsAreFinite' /\ LocalsAreBounded'
  BY NextFinite, NextBounded, ListStep
<1> QED
  BY <1>1, InitFinite, ListInvAlways, PTL DEF ListSpec

-----------------------------------------------------------------------------
(* The theorems.                                                           *)

(***************************************************************************)
(* The locals of the process keep their types: the index never leaves the  *)
(* listing, and the unit never passes the last of the table.               *)
(***************************************************************************)
THEOREM ListTypeCorrect == ListSpec => []ListTypeOK
BY ListInvAlways, PTL DEF ListInv

(***************************************************************************)
(* However the process ends, the screen tells the listing in its order:    *)
(* each disk's line, and below it that disk's mounts, each once; all of    *)
(* them, once another disk or the end follows.                             *)
(***************************************************************************)
THEOREM ScreenTellsTheListing == ListSpec => []ScreenTellsListing
<1>1. ListSpec => []Tally
  BY ListInvAlways, InitTally, NextTally, PTL DEF ListSpec
<1> QED
  BY <1>1, ListInvAlways, TallyTells, PTL

(***************************************************************************)
(* Every size on the screen is right to the nearest tenth of its unit,     *)
(* whatever the size.                                                      *)
(***************************************************************************)
THEOREM SizesAreAccurate == ListSpec => []SizeAccurate
<1>1. ListInv => SizeAccurate
  <2> SUFFICES ASSUME ListInv, NEW i \in DiskLines, NEW dev \in Range(listing),
                      dev.path = screen[i].path
               PROVE  Accurate(dev.size, screen[i].size)
    BY DEF SizeAccurate
  <2>1. ShownAs(dev.size, screen[i].size) /\ dev.size \in Nat
    BY LineOfDevice
  <2> QED
    BY <2>1, ShownIsAccurate
<1> QED
  BY <1>1, ListInvAlways, PTL

\* Rounding never turns two disks round.
THEOREM SizesKeepTheirOrder == ListSpec => []SizesInOrder
<1>1. ListInv => SizesInOrder
  <2> SUFFICES ASSUME ListInv, NEW i \in DiskLines, NEW j \in DiskLines,
                      NEW dev \in Range(listing), NEW other \in Range(listing),
                      dev.path = screen[i].path, other.path = screen[j].path, dev.size <= other.size
               PROVE  AtMost(screen[i].size, screen[j].size)
    BY DEF SizesInOrder
  <2>1. ShownAs(dev.size, screen[i].size) /\ dev.size \in Nat
    BY LineOfDevice
  <2>2. ShownAs(other.size, screen[j].size) /\ other.size \in Nat
    BY LineOfDevice
  <2> QED
    BY <2>1, <2>2, ShownInOrder
<1> QED
  BY <1>1, ListInvAlways, PTL

(***************************************************************************)
(* The disk that is marked as the default really is a removable USB disk   *)
(* that can be written, unless the kernel touched that node meanwhile, and *)
(* the guard has nothing to say against it.                                *)
(***************************************************************************)
THEOREM DefaultsAreHarmless == ListSpec => []DefaultIsHarmless
<1>1. ListInv => DefaultIsHarmless
  <2> SUFFICES ASSUME ListInv, NEW i \in DiskLines, screen[i].default
               PROVE  /\ screen[i].path \in quiet => Harmless(screen[i].path)
                      /\ \A dev \in Range(listing) : dev.path = screen[i].path =>
                           check_write_allowed(dev, Root, dev.size, FALSE, NoFiles)
                             \notin {"SystemDrive", "ReadOnly"}
    BY DEF DefaultIsHarmless
  <2>1. PICK d \in Range(listing) : screen[i].path = d.path /\ is_safe_default_target(d)
    BY DEF ListInv, Lines, Told
  <2>2. d.is_usb /\ d.is_removable /\ ~d.is_system /\ ~d.is_read_only
    BY <2>1 DEF is_safe_default_target
  <2>3. ASSUME d.path \in quiet PROVE Harmless(d.path)
    <3>1. d.path \in present /\ d.path \notin Partitions /\ d = Describe(d.path)
      BY <2>1, <2>3 DEF ListInv, FaithfulInv, Faithful, Reported
    <3> DEFINE n == d.path
    <3> HIDE DEF n
    <3>2. d = Describe(n)
      BY <3>1 DEF n
    <3>3. Describe(n).is_usb = ("device" \in DOMAIN sysfs[n]
                                /\ \E seg \in sysfs[n]["device"] : IsUsbSegment(seg))
      BY DEF Describe
    <3>4. Describe(n).is_removable = ("removable" \in DOMAIN sysfs[n] /\ sysfs[n]["removable"] = "1")
      BY DEF Describe
    <3>5. Describe(n).is_read_only = ("ro" \in DOMAIN sysfs[n] /\ sysfs[n]["ro"] = "1")
      BY DEF Describe
    <3>6. "device" \in DOMAIN sysfs[n] /\ \E seg \in sysfs[n]["device"] : IsUsbSegment(seg)
      BY <2>2, <3>2, <3>3
    <3>7. "removable" \in DOMAIN sysfs[n] /\ sysfs[n]["removable"] = "1"
      BY <2>2, <3>2, <3>4
    <3>8. ~("ro" \in DOMAIN sysfs[n] /\ sysfs[n]["ro"] = "1")
      BY <2>2, <3>2, <3>5
    <3>9. read_attr(n, "ro", "0") # "1"
      BY <3>8 DEF read_attr, exists
    <3>10. read_attr(n, "removable", "0") = "1"
      BY <3>7 DEF read_attr, exists
    <3>11. \E seg \in read_attr(n, "device", {}) : IsUsbSegment(seg)
      BY <3>6 DEF read_attr, exists
    <3>12. n \in present \ Partitions
      BY <3>1 DEF n
    <3>13. Harmless(n)
      BY <3>9, <3>10, <3>11, <3>12 DEF Harmless
    <3> QED
      BY <3>13 DEF n
  <2>4. ASSUME NEW dev \in Range(listing), dev.path = screen[i].path
        PROVE  check_write_allowed(dev, Root, dev.size, FALSE, NoFiles)
                 \notin {"SystemDrive", "ReadOnly"}
    <3>1. dev = d
      BY <2>1, <2>4 DEF ListInv, ListedOnce
    <3> QED
      BY <2>2, <3>1 DEF check_write_allowed
  <2> QED
    BY <2>1, <2>3, <2>4
<1> QED
  BY <1>1, ListInvAlways, PTL

(***************************************************************************)
(* Every step of the process leaves less to do, and no event of the        *)
(* kernel adds to it: `osedax list` has no retry and no second scan.       *)
(***************************************************************************)
THEOREM NothingIsDoneTwice == ListSpec => EveryStepCounts
<1>1. ListInv /\ LocalsAreBounded /\ Counts /\ Counts' /\ [ListNext]_listVars
        => [LexLess(Owed', Owed) \/ (Meanwhile /\ Owed' = Owed)]_listVars
  BY StepLeavesLess
<1> QED
  BY <1>1, ListInvAlways, BoundsAlways, OwedCounts, PTL DEF ListSpec, EveryStepCounts

\* And what is left is always a tuple of natural numbers.
THEOREM OwedIsNatural == ListSpec => [](Owed \in [1 .. 8 -> Nat])
<1>1. ListInv /\ LocalsAreBounded => Owed \in [1 .. 8 -> Nat]
  <2> SUFFICES ASSUME ListInv, LocalsAreBounded PROVE Owed \in [1 .. 8 -> Nat]
    OBVIOUS
  <2>1. Counts
    BY OwedCounts
  <2> QED
    BY <2>1, OwedIs DEF Counts
<1> QED
  BY <1>1, ListInvAlways, BoundsAlways, PTL

(***************************************************************************)
(* The census holds in the process too: what reaches the screen is told    *)
(* from a listing that has every eligible disk that was there throughout.  *)
(***************************************************************************)
THEOREM ListTakesCensus == ListSpec => ImplementsCensus
<1>1. ListInit => Init
  BY DEF ListInit
<1> QED
  BY <1>1, ListStep, InitScan, NextScan, InitCensus, StepCensus, PTL
     DEF ListSpec, ImplementsCensus, Census!CensusSpec
=============================================================================
