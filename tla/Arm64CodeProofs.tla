-------------------------- MODULE Arm64CodeProofs --------------------------
(***************************************************************************)
(* Theorems about valid ARM64 code, for every decoder.                     *)
(***************************************************************************)
EXTENDS Arm64Code, TLAPS

\* GuardAfter is a Boolean whatever the decoder returns.
LEMMA GuardAfterBoolean ==
    ASSUME NEW d, NEW g \in BOOLEAN PROVE GuardAfter(d, g) \in BOOLEAN
  BY DEF GuardAfter, SetsX30Guarded, is_x30_guard, RebasesW, basereg, rtsysreg

\* A word either guards x30, unguards it, or leaves GuardedBefore as it was.
LEMMA GuardedBeforeNext ==
    ASSUME NEW c, NEW k \in Nat \ {0}
    PROVE  GuardedBefore(c, k + 1) <=> \/ Guards(c[k])
                                       \/ ~Unguards(c[k]) /\ GuardedBefore(c, k)
<1>1. ~(Guards(c[k]) /\ Unguards(c[k]))
  BY DEF Guards, Unguards
<1>2. CASE Guards(c[k])
  BY <1>1, <1>2 DEF GuardedBefore
<1>3. CASE ~Guards(c[k]) /\ Unguards(c[k])
  BY <1>3 DEF GuardedBefore
<1>4. CASE ~Guards(c[k]) /\ ~Unguards(c[k])
  <2>1. ASSUME GuardedBefore(c, k), NEW j \in 1..k, Unguards(c[j])
        PROVE  \E m \in (j + 1)..k : Guards(c[m])
    <3>1. j \in 1..(k - 1)
      BY <1>4, <2>1
    <3> QED
      BY <2>1, <3>1 DEF GuardedBefore
  <2>2. ASSUME GuardedBefore(c, k + 1), NEW j \in 1..(k - 1), Unguards(c[j])
        PROVE  \E m \in (j + 1)..(k - 1) : Guards(c[m])
    <3>1. PICK m \in (j + 1)..k : Guards(c[m])
      BY <2>2 DEF GuardedBefore
    <3> QED
      BY <1>4, <3>1
  <2> QED
    BY <1>4, <2>1, <2>2 DEF GuardedBefore
<1> QED
  BY <1>2, <1>3, <1>4

\* okmemop asks no more of an operand in the stores-only sandbox.
LEMMA StoresAsksLess ==
    ASSUME NEW o \in Options, NEW op, NEW load \in BOOLEAN, okmemop(o, op, load)
    PROVE  okmemop([o EXCEPT !.box = "STORES"], op, load)
<1> DEFINE s == [o EXCEPT !.box = "STORES"]
<1>1. s.box = "STORES" /\ s.ctxreg = o.ctxreg
  BY DEF Options
<1>2. \A r : fixedreg(s, r) = fixedreg(o, r) /\ ctxreg(s, r) = ctxreg(o, r)
  BY <1>1 DEF fixedreg, ctxreg
<1>3. ldstreg(op.reg, TRUE) => ~fixedreg(o, op.reg)
  BY DEF ldstreg, fixedreg, ctxreg, REG_ADDR, REG_BASE, REG_CTX
<1> QED
  BY <1>1, <1>2, <1>3 DEF okmemop

\* Code that is valid for the full sandbox is valid for the stores-only sandbox.
THEOREM ValidStores ==
    ASSUME NEW o \in Options, NEW c, Valid(o, c)
    PROVE  Valid([o EXCEPT !.box = "STORES"], c)
<1> DEFINE s == [o EXCEPT !.box = "STORES"]
<1>1. \A r : fixedreg(s, r) = fixedreg(o, r) /\ ctxreg(s, r) = ctxreg(o, r)
  BY DEF Options, fixedreg, ctxreg
<1>2. ASSUME NEW d, chkmemops(o, d) PROVE chkmemops(s, d)
  <2>1. isload(d) \in BOOLEAN
    BY DEF isload
  <2> QED
    BY <1>1, <1>2, <2>1, StoresAsksLess DEF chkmemops
<1>3. ASSUME NEW d, NEW op, okmod(o, d, op) PROVE okmod(s, d, op)
  BY <1>1, <1>3 DEF okmod
<1>4. ASSUME NEW d, NEW g, Checks(o, d, g) PROVE Checks(s, d, g)
  BY <1>2, <1>3, <1>4 DEF Checks
<1> QED
  BY <1>4 DEF Valid, ValidWord

\* Two valid pieces of code make valid code, and valid code cut where x30 is guarded
\* makes two valid pieces: the verdict on a region is that on its segments.
THEOREM ValidComposes ==
    ASSUME NEW o, NEW c \in Seq(Word), NEW k \in 0..Len(c), GuardedBefore(c, k + 1)
    PROVE  Valid(o, c) <=> Valid(o, SubSeq(c, 1, k)) /\ Valid(o, SubSeq(c, k + 1, Len(c)))
<1> DEFINE p == SubSeq(c, 1, k)
           s == SubSeq(c, k + 1, Len(c))
           n == Len(c) - k
<1>1. Len(c) \in Nat /\ k \in Nat /\ n \in Nat
  OBVIOUS
<1>2. Len(p) = k /\ \A j \in 1..k : p[j] = c[j]
  BY <1>1
<1>3. Len(s) = n /\ \A j \in 1..n : s[j] = c[k + j]
  BY <1>1
<1> HIDE DEF p, s
<1>4. ASSUME NEW j \in 1..(k + 1) PROVE GuardedBefore(p, j) <=> GuardedBefore(c, j)
  <2>1. \A m \in 1..(j - 1) : m \in 1..k /\ p[m] = c[m]
    BY <1>1, <1>2
  <2>2. \A x \in 1..(j - 1) : \A m \in (x + 1)..(j - 1) : m \in 1..(j - 1)
    BY <1>1
  <2> QED
    BY <2>1, <2>2 DEF GuardedBefore
<1>5. ASSUME NEW j \in 1..(n + 1) PROVE GuardedBefore(s, j) <=> GuardedBefore(c, k + j)
  <2>1. ASSUME GuardedBefore(c, k + j), NEW m \in 1..(j - 1), Unguards(s[m])
        PROVE  \E q \in (m + 1)..(j - 1) : Guards(s[q])
    <3>1. k + m \in 1..(k + j - 1) /\ Unguards(c[k + m])
      BY <1>1, <1>3, <2>1
    <3>2. PICK q \in (k + m + 1)..(k + j - 1) : Guards(c[q])
      BY <2>1, <3>1 DEF GuardedBefore
    <3>3. q - k \in (m + 1)..(j - 1) /\ q - k \in 1..n /\ k + (q - k) = q
      BY <1>1
    <3>4. s[q - k] = c[q]
      BY <1>3, <3>3
    <3> QED
      BY <3>2, <3>3, <3>4
  <2>2. ASSUME GuardedBefore(s, j), NEW m \in 1..(k + j - 1), Unguards(c[m])
        PROVE  \E q \in (m + 1)..(k + j - 1) : Guards(c[q])
    <3>1. CASE m <= k
      <4>1. PICK q \in (m + 1)..k : Guards(c[q])
        <5>1. m \in 1..((k + 1) - 1) /\ (k + 1) - 1 = k
          BY <1>1, <3>1
        <5> QED
          BY <2>2, <5>1 DEF GuardedBefore
      <4>2. q \in (m + 1)..(k + j - 1)
        BY <1>1
      <4> QED
        BY <4>1, <4>2
    <3>2. CASE m > k
      <4>1. m - k \in 1..(j - 1) /\ Unguards(s[m - k])
        <5>1. m - k \in 1..(j - 1) /\ m - k \in 1..n /\ k + (m - k) = m
          BY <1>1, <3>2
        <5>2. s[m - k] = c[m]
          BY <1>3, <5>1
        <5> QED
          BY <2>2, <5>1, <5>2
      <4>2. PICK q \in (m - k + 1)..(j - 1) : Guards(s[q])
        BY <2>2, <4>1 DEF GuardedBefore
      <4>3. q \in 1..n /\ k + q \in (m + 1)..(k + j - 1)
        <5>1. m \in Nat /\ j \in Nat /\ j <= n + 1 /\ q \in Nat /\ q >= m - k + 1 /\ q <= j - 1
          BY <1>1, <3>2
        <5> HIDE DEF n
        <5> QED
          BY <1>1, <3>2, <5>1
      <4>4. s[q] = c[k + q]
        BY <1>3, <4>3
      <4> QED
        BY <4>2, <4>3, <4>4
    <3> QED
      BY <1>1, <3>1, <3>2
  <2>3. GuardedBefore(c, k + j) => GuardedBefore(s, j)
    BY <2>1 DEF GuardedBefore
  <2>4. GuardedBefore(s, j) => GuardedBefore(c, k + j)
    BY <2>2 DEF GuardedBefore
  <2> QED
    BY <2>3, <2>4
<1>6. Valid(o, p) <=> \A j \in 1..k : ValidWord(o, c[j], GuardedBefore(c, j))
  <2>1. GuardedBefore(p, Len(p) + 1)
    BY <1>1, <1>2, <1>4
  <2>2. \A j \in 1..k : (ValidWord(o, p[j], GuardedBefore(p, j))
                             <=> ValidWord(o, c[j], GuardedBefore(c, j)))
    <3> TAKE j \in 1..k
    <3>1. GuardedBefore(p, j) = GuardedBefore(c, j)
      <4>1. GuardedBefore(p, j) <=> GuardedBefore(c, j)
        BY <1>1, <1>4
      <4> QED
        BY <4>1 DEF GuardedBefore
    <3>2. p[j] = c[j]
      BY <1>2
    <3> QED
      BY <3>1, <3>2, Zenon
  <2> QED
    BY <1>2, <2>1, <2>2 DEF Valid
<1>7. Valid(o, s) <=> /\ \A j \in 1..n : ValidWord(o, c[k + j], GuardedBefore(c, k + j))
                      /\ GuardedBefore(c, Len(c) + 1)
  <2>1. GuardedBefore(s, Len(s) + 1) <=> GuardedBefore(c, Len(c) + 1)
    <3>1. GuardedBefore(s, n + 1) <=> GuardedBefore(c, k + (n + 1))
      BY <1>1, <1>5
    <3>2. k + (n + 1) = Len(c) + 1
      BY <1>1
    <3> QED
      BY <1>3, <3>1, <3>2
  <2>2. \A j \in 1..n : (ValidWord(o, s[j], GuardedBefore(s, j))
                             <=> ValidWord(o, c[k + j], GuardedBefore(c, k + j)))
    <3> TAKE j \in 1..n
    <3>1. GuardedBefore(s, j) = GuardedBefore(c, k + j)
      <4>1. GuardedBefore(s, j) <=> GuardedBefore(c, k + j)
        BY <1>1, <1>5
      <4> QED
        BY <4>1 DEF GuardedBefore
    <3>2. s[j] = c[k + j]
      BY <1>3
    <3> QED
      BY <3>1, <3>2, Zenon
  <2> QED
    BY <1>3, <2>1, <2>2 DEF Valid
<1>8. (\A j \in 1..Len(c) : ValidWord(o, c[j], GuardedBefore(c, j)))
         <=> /\ \A j \in 1..k : ValidWord(o, c[j], GuardedBefore(c, j))
             /\ \A j \in 1..n : ValidWord(o, c[k + j], GuardedBefore(c, k + j))
  <2> DEFINE V(j) == ValidWord(o, c[j], GuardedBefore(c, j))
  <2> HIDE DEF V
  <2>1. (\A j \in 1..Len(c) : V(j)) <=> (\A j \in 1..k : V(j)) /\ (\A j \in 1..n : V(k + j))
    <3>1. ASSUME \A j \in 1..k : V(j), \A j \in 1..n : V(k + j), NEW j \in 1..Len(c) PROVE V(j)
      <4>1. CASE j <= k
        BY <1>1, <3>1, <4>1
      <4>2. CASE j > k
        <5>1. j - k \in 1..n /\ k + (j - k) = j
          BY <1>1, <4>2
        <5>2. V(k + (j - k))
          BY <3>1, <5>1
        <5> QED
          BY <5>1, <5>2
      <4> QED
        BY <1>1, <4>1, <4>2
    <3> QED
      BY <1>1, <3>1
  <2> QED
    BY <2>1 DEF V
<1> QED
  BY <1>6, <1>7, <1>8 DEF Valid, p, s
=============================================================================
