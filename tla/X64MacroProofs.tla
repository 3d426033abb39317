---------------------------- MODULE X64MacroProofs ----------------------------
(***************************************************************************)
(* Theorems about X64Macro: what the recognisers return, of any code and   *)
(* whatever fd_decode makes of it.  The loop of macroinst_call is proved   *)
(* to obey the equation that defines it, from the least-number principle.  *)
(***************************************************************************)
EXTENDS X64Macro, FiniteSetTheorems, TLAPS

-----------------------------------------------------------------------------
(* The least-number principle, for sets. *)

LEMMA OrderOfNat ==
    \E R, N : N = Nat /\ IsWellFoundedOn(R, N) /\ \A m, n \in Nat : m < n => <<m, n>> \in R
<1>1. IsWellFoundedOn(OpToRel(<, Nat), Nat)
  BY NatLessThanWellFounded
<1>2. \A m, n \in Nat : m < n => <<m, n>> \in OpToRel(<, Nat)
  BY DEF OpToRel
<1> QED
  BY <1>1, <1>2

LEMMA MinimalBy ==
    ASSUME NEW R, NEW N, IsWellFoundedOn(R, N), NEW S, S \subseteq N, S # {}
    PROVE  \E n \in S : \A m \in S : ~(<<m, n>> \in R)
  BY WFMin

LEMMA LeastNatural ==
    ASSUME NEW S, S \subseteq Nat, S # {}
    PROVE  \E n \in S : \A m \in S : n <= m
<1>1. PICK R, N : /\ N = Nat /\ IsWellFoundedOn(R, N)
                  /\ \A m, n \in Nat : m < n => <<m, n>> \in R
  BY OrderOfNat
<1>2. S \subseteq N
  BY <1>1
<1>3. IsWellFoundedOn(R, N)
  BY <1>1
<1>4. PICK n \in S : \A m \in S : ~(<<m, n>> \in R)
  BY <1>2, <1>3, MinimalBy
<1>5. ASSUME NEW m \in S PROVE n <= m
  <2>1. m \in Nat /\ n \in Nat
    BY <1>4
  <2>2. ~(<<m, n>> \in R)
    BY <1>4
  <2>3. ~(m < n)
    BY <1>1, <2>1, <2>2
  <2> QED
    BY <2>1, <2>3
<1> QED
  BY <1>4, <1>5

\* Counting down: what holds from some number on, and of a number when it holds from the
\* next one on, holds from 0 on.
LEMMA Downward ==
    ASSUME NEW T, T \subseteq Nat, T # {}, \A n \in T : n # 0 => \E m \in T : m < n
    PROVE  0 \in T
<1>1. PICK n \in T : \A m \in T : n <= m
  BY LeastNatural
<1> QED
  BY <1>1

-----------------------------------------------------------------------------
(* The loop of macroinst_call. *)

\* Every instruction, and what stands for one that cannot be decoded, has a length.
Advances(c) == \A q \in Nat : fd_decode(c, q).size \in Nat \ {0}

\* One turn of the loop, with f for the rest.
Turn(c, p, f, k) ==
    LET d == fd_decode(c, p + k) IN
    IF k >= BundleSize \/ d.type = "INVALID"
      THEN [count |-> k, icount |-> 0, last |-> Undecodable]
    ELSE IF d.type = "NOP"
      THEN [f[k + d.size] EXCEPT !.icount = @ + 1]
    ELSE [count |-> k + d.size, icount |-> 1, last |-> d]

LEMMA TurnLooksAhead ==
    ASSUME NEW c, Advances(c), NEW p \in Nat, NEW f, NEW g, NEW k \in Nat,
           \A j \in Nat : j > k => f[j] = g[j]
    PROVE  Turn(c, p, f, k) = Turn(c, p, g, k)
<1> DEFINE d == fd_decode(c, p + k)
<1>1. p + k \in Nat
  OBVIOUS
<1>2. d.size \in Nat \ {0}
  BY <1>1 DEF Advances
<1>3. f[k + d.size] = g[k + d.size]
  BY <1>2
<1> HIDE DEF d
<1> QED
  BY <1>3 DEF Turn, d

LEMMA TurnPast ==
    ASSUME NEW c, NEW p, NEW f, NEW k \in Nat, k >= BundleSize
    PROVE  Turn(c, p, f, k) = [count |-> k, icount |-> 0, last |-> Undecodable]
  BY DEF Turn

\* There is a function that obeys the equation.
LEMMA LoopExists ==
    ASSUME NEW c, Advances(c), NEW p \in Nat
    PROVE  \E f : f = [k \in Nat |-> Turn(c, p, f, k)]
<1> DEFINE From(f, n) == \A k \in Nat : k >= n => f[k] = Turn(c, p, f, k)
           T == {n \in Nat : \E f : f = [k \in Nat |-> f[k]] /\ From(f, n)}
<1>1. BundleSize \in T
  <2> DEFINE f == [k \in Nat |-> [count |-> k, icount |-> 0, last |-> Undecodable]]
  <2>1. f = [k \in Nat |-> f[k]]
    OBVIOUS
  <2>2. From(f, BundleSize)
    BY TurnPast
  <2> HIDE DEF f
  <2> QED
    BY <2>1, <2>2, BundleAssumption
<1>2. ASSUME NEW n \in T, n # 0 PROVE n - 1 \in T
  <2>1. PICK f : f = [k \in Nat |-> f[k]] /\ From(f, n)
    OBVIOUS
  <2>2. n \in Nat /\ n - 1 \in Nat
    BY <1>2
  <2> DEFINE m == n - 1
             g == [k \in Nat |-> IF k = m THEN Turn(c, p, f, m) ELSE f[k]]
  <2>3. g = [k \in Nat |-> g[k]]
    OBVIOUS
  <2>4. \A j \in Nat : j > m => f[j] = g[j]
    BY <2>2
  <2>5. g[m] = Turn(c, p, f, m)
    BY <2>2
  <2> HIDE DEF g
  <2>6. ASSUME NEW k \in Nat, k >= m PROVE g[k] = Turn(c, p, g, k)
    <3>1. \A j \in Nat : j > k => f[j] = g[j]
      BY <2>2, <2>4, <2>6
    <3>2. Turn(c, p, f, k) = Turn(c, p, g, k)
      BY <3>1, TurnLooksAhead
    <3>3. CASE k = m
      BY <2>5, <3>2, <3>3
    <3>4. CASE k # m
      <4>1. k >= n /\ k > m
        BY <2>2, <2>6, <3>4
      <4> QED
        BY <2>1, <2>4, <3>2, <4>1
    <3> QED
      BY <3>3, <3>4
  <2> HIDE DEF m
  <2>7. From(g, m)
    BY <2>6
  <2> QED
    BY <2>2, <2>3, <2>7 DEF m
<1>3. 0 \in T
  <2>1. T \subseteq Nat /\ T # {}
    BY <1>1
  <2>2. \A n \in T : n # 0 => \E m \in T : m < n
    <3> SUFFICES ASSUME NEW n \in T, n # 0 PROVE \E m \in T : m < n
      OBVIOUS
    <3>1. n \in Nat /\ n - 1 \in T
      BY <1>2
    <3> HIDE DEF T
    <3> QED
      BY <3>1
  <2> HIDE DEF T
  <2> QED
    BY <2>1, <2>2, Downward
<1>4. PICK f : f = [k \in Nat |-> f[k]] /\ From(f, 0)
  BY <1>3
<1>5. \A k \in Nat : f[k] = Turn(c, p, f, k)
  BY <1>4
<1>6. f = [k \in Nat |-> Turn(c, p, f, k)]
  BY <1>4, <1>5
<1> QED
  BY <1>6

\* The loop obeys its equation.
LEMMA PastNopsTurns ==
    ASSUME NEW c, Advances(c), NEW p \in Nat, NEW k \in Nat
    PROVE  LET d == fd_decode(c, p + k) IN
           PastNops(c, p, k) =
             IF k >= BundleSize \/ d.type = "INVALID"
               THEN [count |-> k, icount |-> 0, last |-> Undecodable]
             ELSE IF d.type = "NOP"
               THEN [PastNops(c, p, k + d.size) EXCEPT !.icount = @ + 1]
             ELSE [count |-> k + d.size, icount |-> 1, last |-> d]
<1> DEFINE Loop(f) == f = [j \in Nat |-> Turn(c, p, f, j)]
           from == CHOOSE f : Loop(f)
<1>1. Loop(from)
  <2>1. \E f : Loop(f)
    BY LoopExists
  <2> QED
    BY <2>1
<1>2. \A j : PastNops(c, p, j) = from[j]
  BY DEF PastNops, Turn
<1>3. \A j \in Nat : from[j] = Turn(c, p, from, j)
  BY <1>1
<1> HIDE DEF from
<1>4. fd_decode(c, p + k).size \in Nat
  BY DEF Advances
<1> QED
  BY <1>2, <1>3, <1>4 DEF Turn

\* What holds of every number past the bundle, and of a number when it holds of all greater
\* ones, holds of all.
LEMMA LoopInduction ==
    ASSUME NEW T, T \subseteq Nat,
           \A k \in Nat : k >= BundleSize => k \in T,
           \A k \in Nat : k < BundleSize /\ (\A j \in Nat : j > k => j \in T) => k \in T
    PROVE  \A k \in Nat : k \in T
<1> DEFINE D == {n \in Nat : \A k \in Nat : k >= n => k \in T}
<1>1. BundleSize \in D
  BY BundleAssumption
<1>2. ASSUME NEW n \in D, n # 0 PROVE \E m \in D : m < n
  <2>1. n \in Nat /\ n - 1 \in Nat /\ n - 1 < n
    BY <1>2
  <2>2. \A k \in Nat : k >= n => k \in T
    OBVIOUS
  <2>3. \A j \in Nat : j > n - 1 => j \in T
    BY <2>1, <2>2
  <2>4. n - 1 \in T
    BY <2>1, <2>3, BundleAssumption
  <2>5. \A k \in Nat : k >= n - 1 => k \in T
    BY <2>1, <2>2, <2>4
  <2> QED
    BY <2>1, <2>5
<1>3. 0 \in D
  <2>1. D \subseteq Nat /\ D # {}
    BY <1>1
  <2>2. \A n \in D : n # 0 => \E m \in D : m < n
    BY <1>2
  <2> HIDE DEF D
  <2> QED
    BY <2>1, <2>2, Downward
<1> QED
  BY <1>3

\* What the loop leaves behind is a record of its three variables.
LEMMA PastNopsRecord ==
    ASSUME NEW c, Advances(c), NEW p \in Nat, NEW k \in Nat
    PROVE  LET r == PastNops(c, p, k)
           IN  r = [count |-> r.count, icount |-> r.icount, last |-> r.last]
<1> DEFINE Record(r) == r = [count |-> r.count, icount |-> r.icount, last |-> r.last]
           T == {j \in Nat : Record(PastNops(c, p, j))}
<1>1. \A x, y, z : Record([count |-> x, icount |-> y, last |-> z])
  OBVIOUS
<1>2. \A r : Record(r) => Record([r EXCEPT !.icount = @ + 1])
  <2> SUFFICES ASSUME NEW r, Record(r) PROVE Record([r EXCEPT !.icount = @ + 1])
    OBVIOUS
  <2>1. [r EXCEPT !.icount = @ + 1] = [count |-> r.count, icount |-> r.icount + 1, last |-> r.last]
    OBVIOUS
  <2> QED
    BY <2>1
<1> HIDE DEF Record
<1>3. \A j \in Nat : j >= BundleSize => j \in T
  BY <1>1, PastNopsTurns
<1>4. \A j \in Nat : j < BundleSize /\ (\A i \in Nat : i > j => i \in T) => j \in T
  <2> SUFFICES ASSUME NEW j \in Nat, \A i \in Nat : i > j => i \in T
               PROVE  Record(PastNops(c, p, j))
    OBVIOUS
  <2> DEFINE d == fd_decode(c, p + j)
  <2>1. d.size \in Nat \ {0}
    BY DEF Advances
  <2>2. Record(PastNops(c, p, j + d.size))
    <3>1. j + d.size \in Nat /\ j + d.size > j
      BY <2>1
    <3> HIDE DEF d
    <3> QED
      BY <3>1
  <2> QED
    BY <1>1, <1>2, <2>2, PastNopsTurns
<1>5. T \subseteq Nat
  OBVIOUS
<1> HIDE DEF T
<1>6. k \in T
  BY <1>3, <1>4, <1>5, LoopInduction
<1> QED
  BY <1>6 DEF T, Record

\* The turns of the loop, field by field.
LEMMA PastNopsStops ==
    ASSUME NEW c, Advances(c), NEW p \in Nat, NEW k \in Nat,
           k >= BundleSize \/ fd_decode(c, p + k).type = "INVALID"
    PROVE  /\ PastNops(c, p, k).count = k /\ PastNops(c, p, k).icount = 0
           /\ PastNops(c, p, k).last = Undecodable
<1>1. PastNops(c, p, k) = [count |-> k, icount |-> 0, last |-> Undecodable]
  BY PastNopsTurns
<1> QED
  BY <1>1

LEMMA PastNopsEnds ==
    ASSUME NEW c, Advances(c), NEW p \in Nat, NEW k \in Nat,
           k < BundleSize, fd_decode(c, p + k).type \notin {"INVALID", "NOP"}
    PROVE  /\ PastNops(c, p, k).count = k + fd_decode(c, p + k).size
           /\ PastNops(c, p, k).icount = 1
           /\ PastNops(c, p, k).last = fd_decode(c, p + k)
<1>1. PastNops(c, p, k) = [count |-> k + fd_decode(c, p + k).size, icount |-> 1,
                           last |-> fd_decode(c, p + k)]
  BY PastNopsTurns, BundleAssumption
<1> QED
  BY <1>1

LEMMA PastNopsGoesOn ==
    ASSUME NEW c, Advances(c), NEW p \in Nat, NEW k \in Nat,
           k < BundleSize, fd_decode(c, p + k).type = "NOP"
    PROVE  LET later == PastNops(c, p, k + fd_decode(c, p + k).size)
           IN  /\ PastNops(c, p, k).count = later.count
               /\ PastNops(c, p, k).icount = later.icount + 1
               /\ PastNops(c, p, k).last = later.last
<1> DEFINE later == PastNops(c, p, k + fd_decode(c, p + k).size)
<1>1. PastNops(c, p, k) = [later EXCEPT !.icount = @ + 1]
  BY PastNopsTurns, BundleAssumption
<1>2. p + k \in Nat
  OBVIOUS
<1>3. fd_decode(c, p + k).size \in Nat
  BY <1>2 DEF Advances
<1>4. later = [count |-> later.count, icount |-> later.icount, last |-> later.last]
  BY <1>3, PastNopsRecord
<1> HIDE DEF later
<1>5. PastNops(c, p, k) = [count |-> later.count, icount |-> later.icount + 1, last |-> later.last]
  BY <1>1, <1>4
<1>6. /\ PastNops(c, p, k).count = later.count
      /\ PastNops(c, p, k).icount = later.icount + 1
      /\ PastNops(c, p, k).last = later.last
  BY <1>5
<1> QED
  BY <1>6 DEF later

\* The three turns the loop can take at k.
LEMMA LoopCases ==
    ASSUME NEW c, Advances(c), NEW p \in Nat, NEW T, T \subseteq Nat,
           ASSUME NEW k \in Nat, k >= BundleSize \/ fd_decode(c, p + k).type = "INVALID"
           PROVE  k \in T,
           ASSUME NEW k \in Nat, k < BundleSize,
                  fd_decode(c, p + k).type \notin {"INVALID", "NOP"}
           PROVE  k \in T,
           ASSUME NEW k \in Nat, k < BundleSize, fd_decode(c, p + k).type = "NOP",
                  k + fd_decode(c, p + k).size \in T
           PROVE  k \in T
    PROVE  \A k \in Nat : k \in T
<1>1. ASSUME NEW k \in Nat, k < BundleSize, \A j \in Nat : j > k => j \in T
      PROVE  k \in T
  <2>1. fd_decode(c, p + k).size \in Nat \ {0}
    BY DEF Advances
  <2>2. k + fd_decode(c, p + k).size \in Nat /\ k + fd_decode(c, p + k).size > k
    BY <2>1
  <2>3. k + fd_decode(c, p + k).size \in T
    BY <1>1, <2>2
  <2> QED
    BY <1>1, <2>3
<1>2. \A k \in Nat : k >= BundleSize => k \in T
  OBVIOUS
<1> QED
  BY <1>1, <1>2, LoopInduction

\* What the loop may stop with.
LEMMA PastNopsTyped ==
    ASSUME NEW c, Advances(c), NEW p \in Nat
    PROVE  \A k \in Nat : /\ PastNops(c, p, k).count \in Nat /\ PastNops(c, p, k).count >= k
                          /\ PastNops(c, p, k).icount \in Nat
<1> DEFINE T == {k \in Nat : /\ PastNops(c, p, k).count \in Nat /\ PastNops(c, p, k).count >= k
                             /\ PastNops(c, p, k).icount \in Nat}
<1>1. \A k \in Nat : fd_decode(c, p + k).size \in Nat \ {0}
  BY DEF Advances
<1>2. ASSUME NEW k \in Nat, k >= BundleSize \/ fd_decode(c, p + k).type = "INVALID"
      PROVE  k \in T
  BY <1>2, PastNopsStops
<1>3. ASSUME NEW k \in Nat, k < BundleSize, fd_decode(c, p + k).type \notin {"INVALID", "NOP"}
      PROVE  k \in T
  BY <1>1, <1>3, PastNopsEnds
<1>4. ASSUME NEW k \in Nat, k < BundleSize, fd_decode(c, p + k).type = "NOP",
             k + fd_decode(c, p + k).size \in T
      PROVE  k \in T
  BY <1>1, <1>4, PastNopsGoesOn
<1>5. T \subseteq Nat
  OBVIOUS
<1> HIDE DEF T
<1>6. \A k \in Nat : k \in T
  BY <1>2, <1>3, <1>4, <1>5, LoopCases
<1> QED
  BY <1>6 DEF T

-----------------------------------------------------------------------------
(* What a recogniser that accepts has seen. *)

\* The offsets of the first parts.
LEMMA PartsInOrder ==
    ASSUME NEW c, Advances(c), NEW p \in Nat
    PROVE  /\ Second(c, p) \in Nat /\ Second(c, p) > p
           /\ Third(c, p) \in Nat /\ Third(c, p) > Second(c, p)
           /\ Fourth(c, p) \in Nat /\ Fourth(c, p) > Third(c, p)
           /\ Fifth(c, p) \in Nat /\ Fifth(c, p) > Fourth(c, p)
           /\ Second(c, Fifth(c, p)) \in Nat /\ Second(c, Fifth(c, p)) > Fifth(c, p)
<1>1. \A q \in Nat : Second(c, q) \in Nat /\ Second(c, q) > q
  BY DEF Advances, Second
<1> QED
  BY <1>1 DEF Third, Fourth, Fifth

LoadAt(o, c, p) ==
    LET mov == fd_decode(c, p)  load == fd_decode(c, Second(c, p)) IN
    /\ mov.ops[0].t = "REG" /\ ~reserved(o, mov, 0) /\ Truncates(mov, mov.ops[0].reg)
    /\ load.type = "MOV" /\ load.ops[0].t = "REG" /\ ~reserved(o, load, 0)
    /\ load.ops[1].t = "MEM" /\ load.ops[1].reg = R14
    /\ load.ops[1].index = mov.ops[0].reg /\ load.ops[1].scale = 0

\* The first two parts of a jump or call through a register.
MaskedAt(o, c, p) ==
    /\ MasksReg(o, fd_decode(c, p))
    /\ AddsBase(fd_decode(c, Second(c, p)), fd_decode(c, p).ops[0].reg)

Through(d, c, p) == d.ops[0].t = "REG" /\ d.ops[0].reg = fd_decode(c, p).ops[0].reg

JmpAt(o, c, p) ==
    /\ MaskedAt(o, c, p)
    /\ fd_decode(c, Third(c, p)).type = "JMP" /\ Through(fd_decode(c, Third(c, p)), c, p)

Loop(c, p) == PastNops(c, p, Third(c, p) - p)

CallAt(o, c, p, a) ==
    /\ MaskedAt(o, c, p)
    /\ Loop(c, p).last.type = "CALL" /\ Through(Loop(c, p).last, c, p)
    /\ (a + Loop(c, p).count) % BundleSize = 0

ModspAt(c, p) ==
    LET mov == fd_decode(c, p)  add == fd_decode(c, Second(c, p)) IN
    /\ mov.type \in {"MOV", "ADD", "AND", "SUB", "LEA"} /\ IsReg(mov, 0, SP, 4)
    /\ \/ AddsBase(add, SP)
       \/ /\ add.type = "LEA" /\ IsReg(add, 0, SP, 8)
          /\ add.ops[1].t = "MEM" /\ add.ops[1].reg = SP /\ add.ops[1].index = R14
          /\ add.ops[1].val = 0 /\ add.ops[1].scale = 0

StosAt(c, p) == Rebases(c, p, DI) /\ fd_decode(c, Third(c, p)).type = "STOS"

PointersAt(c, p, type) ==
    Rebases(c, p, DI) /\ Rebases(c, Third(c, p), SI) /\ fd_decode(c, Fifth(c, p)).type = type

RtcallAt(c, p, a) ==
    LET lea == fd_decode(c, p)  jmp == fd_decode(c, Second(c, p)) IN
    /\ lea.type = "LEA" /\ lea.ops[0].t = "REG" /\ lea.ops[0].reg = R11
    /\ lea.ops[1].t = "MEM" /\ lea.ops[1].reg = IP
    /\ jmp.type = "JMP" /\ jmp.ops[0].t = "MEM" /\ jmp.ops[0].reg = R14
    /\ jmp.ops[0].index = NoReg /\ jmp.ops[0].scale = 0 /\ okrtcalldisp(jmp.ops[0].val)
    /\ \/ lea.ops[1].val = jmp.size
       \/ (a + lea.size + lea.ops[1].val) % BundleSize = 0

\* What the recognisers return, in the order they are tried.
Tried(o, c, p, a) ==
    <<macroinst_load(o, c, p), macroinst_jmp(o, c, p), macroinst_call(o, c, p, a),
      macroinst_modsp(c, p), macroinst_stos(c, p), macroinst_movs(c, p),
      macroinst_cmps(c, p), macroinst_rtcall(c, p, a)>>

\* Whether the k-th recogniser accepts, and the group it then returns.
Shape(k, o, c, p, a) ==
    CASE k = 1 -> LoadAt(o, c, p)   [] k = 2 -> JmpAt(o, c, p)
      [] k = 3 -> CallAt(o, c, p, a) [] k = 4 -> ModspAt(c, p)
      [] k = 5 -> StosAt(c, p)      [] k = 6 -> PointersAt(c, p, "MOVS")
      [] k = 7 -> PointersAt(c, p, "CMPS") [] OTHER -> RtcallAt(c, p, a)

Group(k, c, p) ==
    CASE k \in {1, 4, 8} -> [size |-> Third(c, p) - p, ninstr |-> 2]
      [] k \in {2, 5} -> [size |-> Fourth(c, p) - p, ninstr |-> 3]
      [] k = 3 -> [size |-> Loop(c, p).count, ninstr |-> 2 + Loop(c, p).icount]
      [] OTHER -> [size |-> Second(c, Fifth(c, p)) - p, ninstr |-> 5]

\* A recogniser accepts exactly what has its shape.
LEMMA TriedShape ==
    ASSUME NEW o, NEW c, NEW p, NEW a, NEW k \in 1..8
    PROVE  Tried(o, c, p, a)[k] = IF Shape(k, o, c, p, a) THEN Group(k, c, p) ELSE NoMacro
<1>1. CASE k = 1
  <2>1. macroinst_load(o, c, p) = IF LoadAt(o, c, p) THEN Group(1, c, p) ELSE NoMacro
    BY DEF macroinst_load, LoadAt, Group
  <2> QED
    BY <1>1, <2>1 DEF Tried, Shape
<1>2. CASE k = 2
  <2>1. macroinst_jmp(o, c, p) = IF JmpAt(o, c, p) THEN Group(2, c, p) ELSE NoMacro
    BY DEF macroinst_jmp, JmpAt, MaskedAt, Through, Group
  <2> QED
    BY <1>2, <2>1 DEF Tried, Shape
<1>3. CASE k = 3
  <2>1. macroinst_call(o, c, p, a) = IF CallAt(o, c, p, a) THEN Group(3, c, p) ELSE NoMacro
    BY DEF macroinst_call, CallAt, MaskedAt, Through, Loop, Group
  <2> QED
    BY <1>3, <2>1 DEF Tried, Shape
<1>4. CASE k = 4
  <2>1. macroinst_modsp(c, p) = IF ModspAt(c, p) THEN Group(4, c, p) ELSE NoMacro
    BY DEF macroinst_modsp, ModspAt, Group
  <2> QED
    BY <1>4, <2>1 DEF Tried, Shape
<1>5. CASE k = 5
  <2>1. macroinst_stos(c, p) = IF StosAt(c, p) THEN Group(5, c, p) ELSE NoMacro
    BY DEF macroinst_stos, StosAt, Group
  <2> QED
    BY <1>5, <2>1 DEF Tried, Shape
<1>6. CASE k = 6
  <2>1. macroinst_movs(c, p) = IF PointersAt(c, p, "MOVS") THEN Group(6, c, p) ELSE NoMacro
    BY DEF macroinst_movs, TwoPointers, PointersAt, Group
  <2> QED
    BY <1>6, <2>1 DEF Tried, Shape
<1>7. CASE k = 7
  <2>1. macroinst_cmps(c, p) = IF PointersAt(c, p, "CMPS") THEN Group(7, c, p) ELSE NoMacro
    BY DEF macroinst_cmps, TwoPointers, PointersAt, Group
  <2> QED
    BY <1>7, <2>1 DEF Tried, Shape
<1>8. CASE k = 8
  <2>1. macroinst_rtcall(c, p, a) = IF RtcallAt(c, p, a) THEN Group(8, c, p) ELSE NoMacro
    BY DEF macroinst_rtcall, RtcallAt, Group
  <2> QED
    BY <1>8, <2>1 DEF Tried, Shape
<1> QED
  BY <1>1, <1>2, <1>3, <1>4, <1>5, <1>6, <1>7, <1>8

\* The call of the loop comes last, so that the loop has gone past the first two parts.
LEMMA GroupTyped ==
    ASSUME NEW c, Advances(c), NEW p \in Nat, NEW k \in 1..8
    PROVE  Group(k, c, p).size \in Nat \ {0} /\ Group(k, c, p).ninstr \in Nat
<1>1. /\ Second(c, p) \in Nat /\ Second(c, p) > p
      /\ Third(c, p) \in Nat /\ Third(c, p) > Second(c, p)
      /\ Fourth(c, p) \in Nat /\ Fourth(c, p) > Third(c, p)
      /\ Fifth(c, p) \in Nat /\ Fifth(c, p) > Fourth(c, p)
      /\ Second(c, Fifth(c, p)) \in Nat /\ Second(c, Fifth(c, p)) > Fifth(c, p)
  BY PartsInOrder
<1>2. Third(c, p) - p \in Nat \ {0} /\ Fourth(c, p) - p \in Nat \ {0}
        /\ Second(c, Fifth(c, p)) - p \in Nat \ {0}
  BY <1>1
<1>3. Loop(c, p).count \in Nat \ {0} /\ Loop(c, p).icount \in Nat
  <2>1. /\ PastNops(c, p, Third(c, p) - p).count \in Nat
        /\ PastNops(c, p, Third(c, p) - p).count >= Third(c, p) - p
        /\ PastNops(c, p, Third(c, p) - p).icount \in Nat
    BY <1>2, PastNopsTyped
  <2> QED
    BY <1>2, <2>1 DEF Loop
<1>4. CASE k \in {1, 4, 8}
  BY <1>2, <1>4 DEF Group
<1>5. CASE k \in {2, 5}
  BY <1>2, <1>5 DEF Group
<1>6. CASE k = 3
  BY <1>3, <1>6 DEF Group
<1>7. CASE k \in {6, 7}
  BY <1>2, <1>7 DEF Group
<1> QED
  BY <1>4, <1>5, <1>6, <1>7

\* macroinst returns the group of the first recogniser that accepts.
LEMMA FirstAccepts ==
    ASSUME NEW o, NEW c, Advances(c), NEW p \in Nat, NEW a, NEW k \in 1..8,
           Shape(k, o, c, p, a), \A j \in 1..8 : j < k => ~Shape(j, o, c, p, a)
    PROVE  macroinst(o, c, p, a) = Group(k, c, p)
<1> DEFINE tried == Tried(o, c, p, a)  found == {j \in 1..8 : tried[j].size > 0}
<1>1. macroinst(o, c, p, a) = IF found = {} THEN NoMacro
                              ELSE tried[CHOOSE j \in found : \A i \in found : j <= i]
  BY DEF macroinst, Tried
<1>2. \A j \in 1..8 : tried[j].size > 0 <=> Shape(j, o, c, p, a)
  BY TriedShape, GroupTyped DEF NoMacro
<1> HIDE DEF tried
<1>3. k \in found /\ \A i \in found : k <= i
  BY <1>2
<1>4. found \subseteq 1..8
  OBVIOUS
<1>5. (CHOOSE j \in found : \A i \in found : j <= i) = k
  <2>1. \A j \in found : (\A i \in found : j <= i) => j = k
    BY <1>3, <1>4
  <2> QED
    BY <1>3, <2>1
<1>6. tried[k] = Group(k, c, p)
  BY TriedShape DEF tried
<1> QED
  BY <1>1, <1>3, <1>5, <1>6

LEMMA NoneAccepts ==
    ASSUME NEW o, NEW c, Advances(c), NEW p \in Nat, NEW a,
           \A k \in 1..8 : ~Shape(k, o, c, p, a)
    PROVE  macroinst(o, c, p, a) = NoMacro
<1>1. \A k \in 1..8 : Tried(o, c, p, a)[k] = NoMacro
  BY TriedShape
<1>2. {k \in 1..8 : Tried(o, c, p, a)[k].size > 0} = {}
  BY <1>1 DEF NoMacro
<1> QED
  BY <1>2 DEF macroinst, Tried

\* The two together: what macroinst found, by the first shape there is.
LEMMA MacroShape ==
    ASSUME NEW o, NEW c, Advances(c), NEW p \in Nat, NEW a
    PROVE  \/ /\ macroinst(o, c, p, a) = NoMacro
              /\ \A k \in 1..8 : ~Shape(k, o, c, p, a)
           \/ \E k \in 1..8 : /\ Shape(k, o, c, p, a)
                              /\ \A j \in 1..8 : j < k => ~Shape(j, o, c, p, a)
                              /\ macroinst(o, c, p, a) = Group(k, c, p)
<1> DEFINE S == {k \in 1..8 : Shape(k, o, c, p, a)}
<1>1. CASE S = {}
  <2>1. \A k \in 1..8 : ~Shape(k, o, c, p, a)
    BY <1>1
  <2> QED
    BY <2>1, NoneAccepts
<1>2. CASE S # {}
  <2>1. S \subseteq Nat
    OBVIOUS
  <2>2. PICK k \in S : \A j \in S : k <= j
    <3> HIDE DEF S
    <3> QED
      BY <1>2, <2>1, LeastNatural
  <2>3. k \in 1..8 /\ Shape(k, o, c, p, a)
    BY <2>2
  <2>4. \A j \in 1..8 : j < k => ~Shape(j, o, c, p, a)
    BY <2>2
  <2>5. macroinst(o, c, p, a) = Group(k, c, p)
    BY <2>3, <2>4, FirstAccepts
  <2> QED
    BY <2>3, <2>4, <2>5
<1> QED
  BY <1>1, <1>2

\* A unit that is a macro-instruction has the shape one of the recognisers looks for.
LEMMA MacroHasShape ==
    ASSUME NEW o, NEW c, Advances(c), NEW p \in Nat, NEW a, macroinst(o, c, p, a).size > 0
    PROVE  \E k \in 1..8 : Shape(k, o, c, p, a) /\ macroinst(o, c, p, a) = Group(k, c, p)
<1>1. macroinst(o, c, p, a) # NoMacro
  BY DEF NoMacro
<1> QED
  BY <1>1, MacroShape

\* The offsets a recogniser looks at; the loop of macroinst_call looks further.
PartsOf(k, c, p) ==
    CASE k \in {1, 3, 4, 8} -> {p, Second(c, p)}
      [] k \in {2, 5} -> {p, Second(c, p), Third(c, p)}
      [] OTHER -> {p, Second(c, p), Third(c, p), Fourth(c, p), Fifth(c, p)}

\* No recogniser accepts bytes that cannot be decoded.
LEMMA PartsKnown ==
    ASSUME NEW o, NEW c, NEW p, NEW a, NEW k \in 1..8, Shape(k, o, c, p, a)
    PROVE  \A q \in PartsOf(k, c, p) : fd_decode(c, q).type # "INVALID"
<1>1. CASE k = 1
  BY <1>1 DEF Shape, LoadAt, Truncates, PartsOf
<1>2. CASE k = 2
  BY <1>2 DEF Shape, JmpAt, MaskedAt, MasksReg, AddsBase, mask_add, PartsOf
<1>3. CASE k = 3
  BY <1>3 DEF Shape, CallAt, MaskedAt, MasksReg, AddsBase, mask_add, PartsOf
<1>4. CASE k = 4
  BY <1>4 DEF Shape, ModspAt, AddsBase, mask_add, PartsOf
<1>5. CASE k = 5
  BY <1>5 DEF Shape, StosAt, Rebases, Truncates, LeasBase, PartsOf
<1>6. CASE k \in {6, 7}
  <2>1. /\ Rebases(c, p, DI) /\ Rebases(c, Third(c, p), SI)
        /\ fd_decode(c, Fifth(c, p)).type # "INVALID"
    BY <1>6 DEF Shape, PointersAt
  <2> QED
    BY <1>6, <2>1 DEF Rebases, Truncates, LeasBase, Fourth, PartsOf
<1>7. CASE k = 8
  BY <1>7 DEF Shape, RtcallAt, PartsOf
<1> QED
  BY <1>1, <1>2, <1>3, <1>4, <1>5, <1>6, <1>7

\* The k-th recogniser sees the same at p of d as at p + m of c.
SeesSame(k, c, d, m, p) ==
    /\ \A q \in PartsOf(k, d, p) : fd_decode(d, q) = fd_decode(c, q + m)
    /\ k = 3 => PastNops(d, p, Third(d, p) - p) = PastNops(c, p + m, Third(d, p) - p)

\* ... and makes the same of it.
MakesSame(k, c, d, m, p) ==
    /\ \A o, a : Shape(k, o, d, p, a) <=> Shape(k, o, c, p + m, a)
    /\ Group(k, d, p) = Group(k, c, p + m)

\* What a recogniser makes of an offset depends on the instructions it looks at alone: two
\* codes in which they are the same, m bytes apart, are the same to it.
LEMMA SameParts ==
    ASSUME NEW c, NEW d, Advances(d), NEW m \in Nat, NEW p \in Nat,
           NEW k \in 1..8,
           SeesSame(k, c, d, m, p)
    PROVE  MakesSame(k, c, d, m, p)
<1> DEFINE p2 == Second(d, p)  p3 == Third(d, p)  p4 == Fourth(d, p)  p5 == Fifth(d, p)
           p6 == Second(d, p5)
<1>1. p2 \in Nat /\ p3 \in Nat /\ p4 \in Nat /\ p5 \in Nat /\ p6 \in Nat
  BY PartsInOrder
<1>2. \A q \in PartsOf(k, d, p) : Second(c, q + m) = Second(d, q) + m
  <2> SUFFICES ASSUME NEW q \in PartsOf(k, d, p) PROVE Second(c, q + m) = Second(d, q) + m
    OBVIOUS
  <2>1. q \in Nat
    BY <1>1 DEF PartsOf
  <2>2. fd_decode(d, q).size \in Nat /\ fd_decode(c, q + m) = fd_decode(d, q)
    BY <2>1 DEF Advances, SeesSame
  <2> QED
    BY <2>1, <2>2 DEF Second
<1>3. p \in PartsOf(k, d, p) /\ p2 \in PartsOf(k, d, p)
  BY DEF PartsOf
<1>4. Second(c, p + m) = p2 + m /\ Third(c, p + m) = p3 + m
  BY <1>2, <1>3 DEF Third
<1>5. k \in {2, 5, 6, 7} => p3 \in PartsOf(k, d, p) /\ Fourth(c, p + m) = p4 + m
  <2>1. k \in {2, 5, 6, 7} => p3 \in PartsOf(k, d, p)
    BY DEF PartsOf
  <2> QED
    BY <1>2, <1>4, <2>1 DEF Fourth
<1>6. k \in {6, 7} => /\ p4 \in PartsOf(k, d, p) /\ p5 \in PartsOf(k, d, p)
                      /\ Fifth(c, p + m) = p5 + m /\ Second(c, p5 + m) = p6 + m
  <2>1. k \in {6, 7} => p4 \in PartsOf(k, d, p) /\ p5 \in PartsOf(k, d, p)
    BY DEF PartsOf
  <2> QED
    BY <1>2, <1>5, <2>1 DEF Fifth
<1>7. k = 3 => Loop(d, p) = Loop(c, p + m)
  <2>1. p3 - p = (p3 + m) - (p + m)
    BY <1>1
  <2> QED
    BY <1>4, <2>1 DEF Loop, SeesSame
<1>8. /\ fd_decode(c, p + m) = fd_decode(d, p)
      /\ fd_decode(c, Second(c, p + m)) = fd_decode(d, p2)
  BY <1>3, <1>4 DEF SeesSame
<1>9. k \in {2, 5, 6, 7} => fd_decode(c, Third(c, p + m)) = fd_decode(d, p3)
  BY <1>4, <1>5 DEF SeesSame
<1>10. k \in {6, 7} => /\ fd_decode(c, Fourth(c, p + m)) = fd_decode(d, p4)
                       /\ fd_decode(c, Fifth(c, p + m)) = fd_decode(d, p5)
  BY <1>5, <1>6 DEF SeesSame
<1>11. \A o : MaskedAt(o, d, p) <=> MaskedAt(o, c, p + m)
  BY <1>8 DEF MaskedAt
<1>12. \A x : Through(x, d, p) <=> Through(x, c, p + m)
  BY <1>8 DEF Through
<1>13. \A reg : Rebases(d, p, reg) <=> Rebases(c, p + m, reg)
  BY <1>8 DEF Rebases
<1>14. k \in {6, 7} =>
         \A reg : Rebases(d, p3, reg) <=> Rebases(c, Third(c, p + m), reg)
  BY <1>9, <1>10 DEF Rebases, Fourth
<1>16. /\ (p3 + m) - (p + m) = p3 - p /\ (p4 + m) - (p + m) = p4 - p
       /\ (p6 + m) - (p + m) = p6 - p
  BY <1>1
<1> HIDE DEF p2, p3, p4, p5, p6
<1>17. ASSUME NEW o, NEW a PROVE Shape(k, o, d, p, a) <=> Shape(k, o, c, p + m, a)
  <2>1. CASE k = 1
    BY <1>8, <2>1 DEF Shape, LoadAt, p2
  <2>2. CASE k = 2
    BY <1>9, <1>11, <1>12, <2>2 DEF Shape, JmpAt, p3
  <2>3. CASE k = 3
    BY <1>7, <1>11, <1>12, <2>3 DEF Shape, CallAt
  <2>4. CASE k = 4
    BY <1>8, <2>4 DEF Shape, ModspAt, p2
  <2>5. CASE k = 5
    BY <1>9, <1>13, <2>5 DEF Shape, StosAt, p3
  <2>6. CASE k \in {6, 7}
    BY <1>10, <1>13, <1>14, <2>6 DEF Shape, PointersAt, p3, p5
  <2>7. CASE k = 8
    BY <1>8, <2>7 DEF Shape, RtcallAt, p2
  <2> QED
    BY <2>1, <2>2, <2>3, <2>4, <2>5, <2>6, <2>7
<1>18. Group(k, d, p) = Group(k, c, p + m)
  <2>1. CASE k \in {1, 4, 8}
    BY <1>4, <1>16, <2>1 DEF Group, p3
  <2>2. CASE k \in {2, 5}
    BY <1>5, <1>16, <2>2 DEF Group, p4
  <2>3. CASE k = 3
    BY <1>7, <2>3 DEF Group
  <2>4. CASE k \in {6, 7}
    BY <1>6, <1>16, <2>4 DEF Group, p5, p6
  <2> QED
    BY <2>1, <2>2, <2>3, <2>4
<1> QED
  BY <1>17, <1>18 DEF MakesSame

-----------------------------------------------------------------------------
(* The number of instructions of a group. *)

\* N counts the instructions before an offset of C, and C goes on behind every instruction.
CountsAlong(c, C, N) ==
    /\ C \subseteq Nat /\ N \in [Nat -> Nat]
    /\ \A q \in C : fd_decode(c, q).type # "INVALID" =>
                      Second(c, q) \in C /\ N[Second(c, q)] = N[q] + 1

\* So they do behind the loop over nops, wherever it begins.
LoopCounted(c, p, C, N) ==
    \A k \in Nat : p + k \in C /\ PastNops(c, p, k).last.type # "INVALID" =>
      /\ p + PastNops(c, p, k).count \in C
      /\ N[p + PastNops(c, p, k).count] = N[p + k] + PastNops(c, p, k).icount

LEMMA LoopCounts ==
    ASSUME NEW c, Advances(c), NEW p \in Nat, NEW C, NEW N, CountsAlong(c, C, N)
    PROVE  LoopCounted(c, p, C, N)
<1>0. C \subseteq Nat /\ N \in [Nat -> Nat]
  BY DEF CountsAlong
<1> DEFINE T == {j \in Nat : p + j \in C /\ PastNops(c, p, j).last.type # "INVALID" =>
                               /\ p + PastNops(c, p, j).count \in C
                               /\ N[p + PastNops(c, p, j).count]
                                    = N[p + j] + PastNops(c, p, j).icount}
<1>1. \A j \in Nat : p + j \in Nat /\ fd_decode(c, p + j).size \in Nat \ {0}
                     /\ Second(c, p + j) = p + (j + fd_decode(c, p + j).size)
  BY DEF Advances, Second
<1>2. ASSUME NEW j \in Nat, j >= BundleSize \/ fd_decode(c, p + j).type = "INVALID"
      PROVE  j \in T
  <2>1. PastNops(c, p, j).last = Undecodable
    BY <1>2, PastNopsStops
  <2> QED
    BY <2>1 DEF Undecodable
<1>3. ASSUME NEW j \in Nat, j < BundleSize, fd_decode(c, p + j).type \notin {"INVALID", "NOP"}
      PROVE  j \in T
  <2> SUFFICES ASSUME p + j \in C
               PROVE  /\ p + PastNops(c, p, j).count \in C
                      /\ N[p + PastNops(c, p, j).count]
                           = N[p + j] + PastNops(c, p, j).icount
    OBVIOUS
  <2>1. Second(c, p + j) \in C /\ N[Second(c, p + j)] = N[p + j] + 1
    BY <1>3 DEF CountsAlong
  <2>2. /\ PastNops(c, p, j).count = j + fd_decode(c, p + j).size
        /\ PastNops(c, p, j).icount = 1
    BY <1>3, PastNopsEnds
  <2> QED
    BY <1>0, <1>1, <2>1, <2>2
<1>4. ASSUME NEW j \in Nat, j < BundleSize, fd_decode(c, p + j).type = "NOP",
             j + fd_decode(c, p + j).size \in T
      PROVE  j \in T
  <2> DEFINE i == j + fd_decode(c, p + j).size
  <2> SUFFICES ASSUME p + j \in C, PastNops(c, p, j).last.type # "INVALID"
               PROVE  /\ p + PastNops(c, p, j).count \in C
                      /\ N[p + PastNops(c, p, j).count]
                           = N[p + j] + PastNops(c, p, j).icount
    OBVIOUS
  <2>1. p + i \in C /\ N[p + i] = N[p + j] + 1
    BY <1>1, <1>4 DEF CountsAlong
  <2>2. /\ PastNops(c, p, j).count = PastNops(c, p, i).count
        /\ PastNops(c, p, j).icount = PastNops(c, p, i).icount + 1
        /\ PastNops(c, p, j).last = PastNops(c, p, i).last
    BY <1>4, PastNopsGoesOn
  <2>3. /\ p + PastNops(c, p, i).count \in C
        /\ N[p + PastNops(c, p, i).count] = N[p + i] + PastNops(c, p, i).icount
    BY <1>4, <2>1, <2>2
  <2>4. i \in Nat /\ PastNops(c, p, i).icount \in Nat /\ N[p + j] \in Nat
    <3>1. i \in Nat
      BY <1>1
    <3> QED
      BY <1>0, <1>1, <3>1, PastNopsTyped
  <2> HIDE DEF i
  <2> QED
    BY <2>1, <2>2, <2>3, <2>4
<1>5. T \subseteq Nat
  OBVIOUS
<1> HIDE DEF T
<1>6. \A k \in Nat : k \in T
  BY <1>2, <1>3, <1>4, <1>5, LoopCases
<1> QED
  BY <1>6 DEF T, LoopCounted

\* N and C go on from p behind the group mi, by its number of instructions.
GoesOn(C, N, p, mi) == p + mi.size \in C /\ N[p + mi.size] = N[p] + mi.ninstr

\* The number of instructions a recogniser returns is that of the instructions it covers,
\* and it leaves off where one ends.
LEMMA MacroCounts ==
    ASSUME NEW o, NEW c, Advances(c), NEW C, NEW N, CountsAlong(c, C, N), NEW p \in C, NEW a,
           macroinst(o, c, p, a).size > 0
    PROVE  GoesOn(C, N, p, macroinst(o, c, p, a))
<1>1. p \in Nat /\ C \subseteq Nat /\ N \in [Nat -> Nat]
  BY DEF CountsAlong
<1>2. PICK k \in 1..8 : Shape(k, o, c, p, a) /\ macroinst(o, c, p, a) = Group(k, c, p)
  BY <1>1, MacroHasShape
<1> DEFINE p2 == Second(c, p)  p3 == Third(c, p)  p4 == Fourth(c, p)  p5 == Fifth(c, p)
           p6 == Second(c, p5)
<1>3. /\ p2 \in Nat /\ p3 \in Nat /\ p4 \in Nat /\ p5 \in Nat /\ p6 \in Nat
      /\ p2 > p /\ p3 > p2
  BY <1>1, PartsInOrder
<1>4. /\ p3 = Second(c, p2) /\ p4 = Second(c, p3) /\ p5 = Second(c, p4)
  BY DEF Third, Fourth, Fifth
<1>5. /\ p + (p3 - p) = p3 /\ p + (p4 - p) = p4 /\ p + (p6 - p) = p6
  BY <1>1, <1>3
<1>6. \A q \in C : fd_decode(c, q).type # "INVALID" =>
                     Second(c, q) \in C /\ N[Second(c, q)] = N[q] + 1
  BY DEF CountsAlong
<1> HIDE DEF p2, p3, p4, p5, p6
<1>7. CASE k \in {1, 4, 8}
  <2>1. fd_decode(c, p).type # "INVALID" /\ fd_decode(c, p2).type # "INVALID"
    <3>1. CASE k = 1
      BY <1>2, <3>1 DEF Shape, LoadAt, Truncates, p2
    <3>2. CASE k = 4
      BY <1>2, <3>2 DEF Shape, ModspAt, AddsBase, mask_add, p2
    <3>3. CASE k = 8
      BY <1>2, <3>3 DEF Shape, RtcallAt, p2
    <3> QED
      BY <1>7, <3>1, <3>2, <3>3
  <2>2. p2 \in C /\ N[p2] = N[p] + 1 /\ p3 \in C /\ N[p3] = N[p2] + 1
    BY <1>4, <1>6, <2>1 DEF p2
  <2>3. Group(k, c, p) = [size |-> p3 - p, ninstr |-> 2]
    BY <1>7 DEF Group, p3
  <2> QED
    BY <1>1, <1>2, <1>5, <2>2, <2>3 DEF GoesOn
<1>8. CASE k \in {2, 5}
  <2>1. /\ fd_decode(c, p).type # "INVALID" /\ fd_decode(c, p2).type # "INVALID"
        /\ fd_decode(c, p3).type # "INVALID"
    <3>1. CASE k = 2
      BY <1>2, <3>1 DEF Shape, JmpAt, MaskedAt, MasksReg, AddsBase, mask_add, p2, p3
    <3>2. CASE k = 5
      BY <1>2, <3>2 DEF Shape, StosAt, Rebases, Truncates, LeasBase, p2, p3
    <3> QED
      BY <1>8, <3>1, <3>2
  <2>2. /\ p2 \in C /\ N[p2] = N[p] + 1 /\ p3 \in C /\ N[p3] = N[p2] + 1
        /\ p4 \in C /\ N[p4] = N[p3] + 1
    BY <1>4, <1>6, <2>1 DEF p2
  <2>3. Group(k, c, p) = [size |-> p4 - p, ninstr |-> 3]
    BY <1>8 DEF Group, p4
  <2> QED
    BY <1>1, <1>2, <1>5, <2>2, <2>3 DEF GoesOn
<1>9. CASE k \in {6, 7}
  <2>1. Rebases(c, p, DI) /\ Rebases(c, p3, SI) /\ fd_decode(c, p5).type # "INVALID"
    BY <1>2, <1>9 DEF Shape, PointersAt, p3, p5
  <2>2. /\ fd_decode(c, p).type # "INVALID" /\ fd_decode(c, p2).type # "INVALID"
        /\ fd_decode(c, p3).type # "INVALID" /\ fd_decode(c, p4).type # "INVALID"
    BY <1>4, <2>1 DEF Rebases, Truncates, LeasBase, p2
  <2>3. /\ p2 \in C /\ N[p2] = N[p] + 1 /\ p3 \in C /\ N[p3] = N[p2] + 1
        /\ p4 \in C /\ N[p4] = N[p3] + 1
    BY <1>4, <1>6, <2>2 DEF p2
  <2>4. /\ p5 \in C /\ N[p5] = N[p4] + 1 /\ p6 \in C /\ N[p6] = N[p5] + 1
    BY <1>4, <1>6, <2>1, <2>2, <2>3 DEF p6
  <2>5. Group(k, c, p) = [size |-> p6 - p, ninstr |-> 5]
    BY <1>9 DEF Group, p5, p6
  <2> QED
    BY <1>1, <1>2, <1>5, <2>3, <2>4, <2>5 DEF GoesOn
<1>10. CASE k = 3
  <2>1. MaskedAt(o, c, p) /\ Loop(c, p).last.type = "CALL"
    BY <1>2, <1>10 DEF Shape, CallAt
  <2>2. fd_decode(c, p).type # "INVALID" /\ fd_decode(c, p2).type # "INVALID"
    BY <2>1 DEF MaskedAt, MasksReg, AddsBase, mask_add, p2
  <2>3. p2 \in C /\ N[p2] = N[p] + 1 /\ p3 \in C /\ N[p3] = N[p2] + 1
    BY <1>4, <1>6, <2>2 DEF p2
  <2>4. p3 - p \in Nat /\ p + (p3 - p) \in C
    BY <1>1, <1>3, <1>5, <2>3
  <2>5. Loop(c, p) = PastNops(c, p, p3 - p)
    BY DEF Loop, p3
  <2>6. p + Loop(c, p).count \in C
        /\ N[p + Loop(c, p).count] = N[p + (p3 - p)] + Loop(c, p).icount
    <3>1. PastNops(c, p, p3 - p).last.type # "INVALID"
      BY <2>1, <2>5
    <3> DEFINE j == p3 - p
    <3>2. j \in Nat /\ p + j \in C /\ PastNops(c, p, j).last.type # "INVALID"
      BY <2>4, <3>1
    <3> HIDE DEF j
    <3>3. LoopCounted(c, p, C, N)
      BY <1>1, LoopCounts
    <3>4. /\ p + PastNops(c, p, j).count \in C
          /\ N[p + PastNops(c, p, j).count] = N[p + j] + PastNops(c, p, j).icount
      BY <3>2, <3>3 DEF LoopCounted
    <3> QED
      BY <2>5, <3>4 DEF j
  <2>7. Loop(c, p).icount \in Nat
    BY <1>1, <2>4, <2>5, PastNopsTyped
  <2>8. Group(k, c, p) = [size |-> Loop(c, p).count, ninstr |-> 2 + Loop(c, p).icount]
    BY <1>10 DEF Group
  <2> QED
    BY <1>1, <1>2, <1>5, <2>3, <2>6, <2>7, <2>8 DEF GoesOn
<1> QED
  BY <1>7, <1>8, <1>9, <1>10

-----------------------------------------------------------------------------
(* The instructions of a group. *)

\* InstStarts has one step of the scan for each offset, with f for the rest.
Scan(c, end, f, q) == IF q >= end THEN {} ELSE {q} \cup f[Second(c, q)]

LEMMA ScanExists ==
    ASSUME NEW c, Advances(c), NEW end \in Nat
    PROVE  \E f : f = [q \in Nat |-> Scan(c, end, f, q)]
<1> DEFINE From(f, n) == \A q \in Nat : q >= n => f[q] = Scan(c, end, f, q)
           T == {n \in Nat : \E f : f = [q \in Nat |-> f[q]] /\ From(f, n)}
<1>1. end \in T
  <2> DEFINE f == [q \in Nat |-> {}]
  <2>1. f = [q \in Nat |-> f[q]]
    OBVIOUS
  <2>2. From(f, end)
    BY DEF Scan
  <2> HIDE DEF f
  <2> QED
    BY <2>1, <2>2
<1>2. ASSUME NEW n \in T, n # 0 PROVE n - 1 \in T
  <2>1. PICK f : f = [q \in Nat |-> f[q]] /\ From(f, n)
    OBVIOUS
  <2>2. n \in Nat /\ n - 1 \in Nat
    BY <1>2
  <2> DEFINE m == n - 1
             g == [q \in Nat |-> IF q = m THEN Scan(c, end, f, m) ELSE f[q]]
  <2>3. g = [q \in Nat |-> g[q]]
    OBVIOUS
  <2>4. \A j \in Nat : j > m => f[j] = g[j]
    BY <2>2
  <2>5. g[m] = Scan(c, end, f, m)
    BY <2>2
  <2> HIDE DEF g
  <2>6. ASSUME NEW q \in Nat, q >= m PROVE g[q] = Scan(c, end, g, q)
    <3>1. Second(c, q) \in Nat /\ Second(c, q) > q
      BY PartsInOrder
    <3>2. f[Second(c, q)] = g[Second(c, q)]
      BY <2>2, <2>4, <2>6, <3>1
    <3>3. Scan(c, end, f, q) = Scan(c, end, g, q)
      BY <3>2 DEF Scan
    <3>4. CASE q = m
      BY <2>5, <3>3, <3>4
    <3>5. CASE q # m
      <4>1. q >= n /\ q > m
        BY <2>2, <2>6, <3>5
      <4> QED
        BY <2>1, <2>4, <3>3, <4>1
    <3> QED
      BY <3>4, <3>5
  <2> HIDE DEF m
  <2>7. From(g, m)
    BY <2>6
  <2> QED
    BY <2>2, <2>3, <2>7 DEF m
<1>3. 0 \in T
  <2>1. T \subseteq Nat /\ T # {}
    BY <1>1
  <2>2. \A n \in T : n # 0 => \E m \in T : m < n
    <3> SUFFICES ASSUME NEW n \in T, n # 0 PROVE \E m \in T : m < n
      OBVIOUS
    <3>1. n \in Nat /\ n - 1 \in T
      BY <1>2
    <3> HIDE DEF T
    <3> QED
      BY <3>1
  <2> HIDE DEF T
  <2> QED
    BY <2>1, <2>2, Downward
<1>4. PICK f : f = [q \in Nat |-> f[q]] /\ From(f, 0)
  BY <1>3
<1>5. \A q \in Nat : f[q] = Scan(c, end, f, q)
  BY <1>4
<1>6. f = [q \in Nat |-> Scan(c, end, f, q)]
  BY <1>4, <1>5
<1> QED
  BY <1>6

LEMMA InstStartsStep ==
    ASSUME NEW c, Advances(c), NEW end \in Nat, NEW p \in Nat
    PROVE  InstStarts(c, p, end)
             = IF p >= end THEN {} ELSE {p} \cup InstStarts(c, Second(c, p), end)
<1> DEFINE IsScan(f) == f = [q \in Nat |-> Scan(c, end, f, q)]
           from == CHOOSE f : IsScan(f)
<1>1. IsScan(from)
  <2>1. \E f : IsScan(f)
    BY ScanExists
  <2> QED
    BY <2>1
<1>2. \A q : InstStarts(c, q, end) = from[q]
  BY DEF InstStarts, Scan
<1>3. \A q \in Nat : from[q] = Scan(c, end, from, q)
  BY <1>1
<1> HIDE DEF from
<1> QED
  BY <1>2, <1>3 DEF Scan

\* The scan stays within its bounds, and goes on from every instruction it finds.
LEMMA InstStartsClosed ==
    ASSUME NEW c, Advances(c), NEW end \in Nat, NEW p \in Nat
    PROVE  /\ p < end => p \in InstStarts(c, p, end)
           /\ \A q \in InstStarts(c, p, end) :
                /\ q \in Nat /\ p <= q /\ q < end
                /\ Second(c, q) < end => Second(c, q) \in InstStarts(c, p, end)
<1> DEFINE Found(m, q) == /\ q \in Nat /\ m <= q /\ q < end
                          /\ Second(c, q) < end => Second(c, q) \in InstStarts(c, m, end)
           Good(m) == \A q \in InstStarts(c, m, end) : Found(m, q)
           T == {n \in Nat : \A m \in Nat : m >= n => Good(m)}
<1>1. \A m \in Nat : m >= end => Good(m)
  BY InstStartsStep
<1>2. ASSUME NEW n \in T, n # 0 PROVE n - 1 \in T
  <2> DEFINE m == n - 1
  <2>1. m \in Nat /\ \A j \in Nat : j > m => Good(j)
    BY <1>2
  <2> HIDE DEF m
  <2>2. Good(m)
    <3>1. CASE m >= end
      BY <1>1, <2>1, <3>1
    <3>2. CASE m < end
      <4> DEFINE next == Second(c, m)
      <4>1. next \in Nat /\ next > m
        BY <2>1, PartsInOrder
      <4>2. InstStarts(c, m, end) = {m} \cup InstStarts(c, next, end)
        BY <2>1, <3>2, InstStartsStep
      <4>3. next < end => next \in InstStarts(c, next, end)
        BY <4>1, InstStartsStep
      <4>4. Good(next)
        BY <2>1, <4>1
      <4>5. Found(m, m)
        BY <2>1, <3>2, <4>2, <4>3
      <4>6. ASSUME NEW q \in InstStarts(c, next, end) PROVE Found(m, q)
        BY <2>1, <4>1, <4>2, <4>4, <4>6
      <4> HIDE DEF Found, next
      <4> QED
        BY <4>2, <4>5, <4>6
    <3> QED
      BY <2>1, <3>1, <3>2
  <2> HIDE DEF Good
  <2>3. \A j \in Nat : j >= m => Good(j)
    BY <2>1, <2>2
  <2> QED
    BY <2>1, <2>3 DEF m
<1>3. 0 \in T
  <2>1. T \subseteq Nat /\ end \in T
    BY <1>1
  <2>2. \A n \in T : n # 0 => \E m \in T : m < n
    <3> SUFFICES ASSUME NEW n \in T, n # 0 PROVE \E m \in T : m < n
      OBVIOUS
    <3>1. n \in Nat /\ n - 1 \in T
      BY <1>2
    <3> HIDE DEF T
    <3> QED
      BY <3>1
  <2> HIDE DEF T
  <2> QED
    BY <2>1, <2>2, Downward
<1>4. Good(p)
  BY <1>3
<1>5. p < end => p \in InstStarts(c, p, end)
  BY InstStartsStep
<1> QED
  BY <1>4, <1>5

\* Where a recogniser looks is at the instructions of the group it returns, but for the
\* call and the nops before it.
LEMMA GroupParts ==
    ASSUME NEW c, Advances(c), NEW p \in Nat, NEW k \in 1..8, k # 3
    PROVE  InstStarts(c, p, p + Group(k, c, p).size) = PartsOf(k, c, p)
<1> DEFINE p2 == Second(c, p)  p3 == Third(c, p)  p4 == Fourth(c, p)  p5 == Fifth(c, p)
           p6 == Second(c, p5)
<1>1. /\ p2 \in Nat /\ p2 > p /\ p3 \in Nat /\ p3 > p2 /\ p4 \in Nat /\ p4 > p3
      /\ p5 \in Nat /\ p5 > p4 /\ p6 \in Nat /\ p6 > p5
  BY PartsInOrder
<1>2. Second(c, p2) = p3 /\ Second(c, p3) = p4 /\ Second(c, p4) = p5
  BY DEF Third, Fourth, Fifth
<1>3. /\ p + (p3 - p) = p3 /\ p + (p4 - p) = p4 /\ p + (p6 - p) = p6
  BY <1>1
<1>4. /\ Second(c, p) = p2 /\ Third(c, p) = p3 /\ Fourth(c, p) = p4 /\ Fifth(c, p) = p5
      /\ Second(c, p5) = p6
  OBVIOUS
<1> HIDE DEF p2, p3, p4, p5, p6
<1>5. \A e \in Nat : /\ p < e => InstStarts(c, p, e) = {p} \cup InstStarts(c, p2, e)
                     /\ p2 < e => InstStarts(c, p2, e) = {p2} \cup InstStarts(c, p3, e)
                     /\ p3 < e => InstStarts(c, p3, e) = {p3} \cup InstStarts(c, p4, e)
                     /\ p4 < e => InstStarts(c, p4, e) = {p4} \cup InstStarts(c, p5, e)
                     /\ p5 < e => InstStarts(c, p5, e) = {p5} \cup InstStarts(c, p6, e)
                     /\ InstStarts(c, e, e) = {}
  <2> SUFFICES ASSUME NEW e \in Nat
               PROVE  /\ p < e => InstStarts(c, p, e) = {p} \cup InstStarts(c, p2, e)
                      /\ p2 < e => InstStarts(c, p2, e) = {p2} \cup InstStarts(c, p3, e)
                      /\ p3 < e => InstStarts(c, p3, e) = {p3} \cup InstStarts(c, p4, e)
                      /\ p4 < e => InstStarts(c, p4, e) = {p4} \cup InstStarts(c, p5, e)
                      /\ p5 < e => InstStarts(c, p5, e) = {p5} \cup InstStarts(c, p6, e)
                      /\ InstStarts(c, e, e) = {}
    OBVIOUS
  <2>1. \A q \in Nat : InstStarts(c, q, e)
                         = IF q >= e THEN {} ELSE {q} \cup InstStarts(c, Second(c, q), e)
    BY InstStartsStep
  <2>2. \A q \in Nat : q < e => InstStarts(c, q, e) = {q} \cup InstStarts(c, Second(c, q), e)
    BY <2>1
  <2>3. InstStarts(c, e, e) = {}
    BY <2>1
  <2> QED
    BY <1>1, <1>2, <1>4, <2>2, <2>3
<1>6. CASE k \in {1, 4, 8}
  <2>1. p + Group(k, c, p).size = p3
    BY <1>3, <1>4, <1>6 DEF Group
  <2>2. InstStarts(c, p, p3) = {p, p2}
    BY <1>1, <1>5
  <2> QED
    BY <1>4, <1>6, <2>1, <2>2 DEF PartsOf
<1>7. CASE k \in {2, 5}
  <2>1. p + Group(k, c, p).size = p4
    BY <1>3, <1>4, <1>7 DEF Group
  <2>2. InstStarts(c, p, p4) = {p, p2, p3}
    BY <1>1, <1>5
  <2> QED
    BY <1>4, <1>7, <2>1, <2>2 DEF PartsOf
<1>8. CASE k \in {6, 7}
  <2>1. p + Group(k, c, p).size = p6
    BY <1>3, <1>4, <1>8 DEF Group
  <2>2. p < p6 /\ p2 < p6 /\ p3 < p6 /\ p4 < p6
    BY <1>1
  <2>3. InstStarts(c, p, p6) = {p, p2, p3, p4, p5}
    BY <1>1, <1>5, <2>2
  <2> QED
    BY <1>4, <1>8, <2>1, <2>3 DEF PartsOf
<1> QED
  BY <1>6, <1>7, <1>8

\* Only the recogniser of calls accepts a call, and it has the group end its bundle.
LEMMA CallEndsBundle ==
    ASSUME NEW o, NEW c, Advances(c), NEW p \in Nat, NEW a \in Nat,
           macroinst(o, c, p, a).size > 0,
           NEW q \in InstStarts(c, p, p + macroinst(o, c, p, a).size),
           fd_decode(c, q).type = "CALL"
    PROVE  (a + macroinst(o, c, p, a).size) % BundleSize = 0
<1>1. PICK k \in 1..8 : Shape(k, o, c, p, a) /\ macroinst(o, c, p, a) = Group(k, c, p)
  BY MacroHasShape
<1>2. CASE k = 3
  BY <1>1, <1>2 DEF Shape, CallAt, Group
<1>3. CASE k # 3
  <2>1. q \in PartsOf(k, c, p)
    BY <1>1, <1>3, GroupParts
  <2>2. CASE k = 1
    BY <1>1, <2>1, <2>2 DEF PartsOf, Shape, LoadAt, Truncates
  <2>3. CASE k = 2
    BY <1>1, <2>1, <2>3
      DEF PartsOf, Shape, JmpAt, MaskedAt, MasksReg, AddsBase, mask_add
  <2>4. CASE k = 4
    BY <1>1, <2>1, <2>4 DEF PartsOf, Shape, ModspAt, AddsBase, mask_add
  <2>5. CASE k = 5
    BY <1>1, <2>1, <2>5 DEF PartsOf, Shape, StosAt, Rebases, Truncates, LeasBase
  <2>6. CASE k \in {6, 7}
    <3>1. /\ Rebases(c, p, DI) /\ Rebases(c, Third(c, p), SI)
          /\ fd_decode(c, Fifth(c, p)).type \in {"MOVS", "CMPS"}
      BY <1>1, <2>6 DEF Shape, PointersAt
    <3> QED
      BY <2>1, <2>6, <3>1 DEF PartsOf, Rebases, Truncates, LeasBase, Fourth
  <2>7. CASE k = 8
    BY <1>1, <2>1, <2>7 DEF PartsOf, Shape, RtcallAt
  <2> QED
    BY <1>3, <2>2, <2>3, <2>4, <2>5, <2>6, <2>7
<1> QED
  BY <1>2, <1>3

-----------------------------------------------------------------------------
(* Parts of a code on their own. *)

\* The parts of a group lie within it.
LEMMA PartsWithin ==
    ASSUME NEW c, Advances(c), NEW p \in Nat, NEW k \in 1..8
    PROVE  \A q \in PartsOf(k, c, p) : q \in Nat /\ Second(c, q) <= p + Group(k, c, p).size
<1>1. /\ Second(c, p) \in Nat /\ Second(c, p) > p
      /\ Third(c, p) \in Nat /\ Third(c, p) > Second(c, p)
      /\ Fourth(c, p) \in Nat /\ Fourth(c, p) > Third(c, p)
      /\ Fifth(c, p) \in Nat /\ Fifth(c, p) > Fourth(c, p)
      /\ Second(c, Fifth(c, p)) \in Nat /\ Second(c, Fifth(c, p)) > Fifth(c, p)
  BY PartsInOrder
<1>2. /\ Second(c, Second(c, p)) = Third(c, p) /\ Second(c, Third(c, p)) = Fourth(c, p)
      /\ Second(c, Fourth(c, p)) = Fifth(c, p)
  BY DEF Third, Fourth, Fifth
<1>3. \A q \in {p, Second(c, p)} : q \in Nat /\ Second(c, q) <= Third(c, p)
  BY <1>1, <1>2
<1>4. \A q \in {p, Second(c, p), Third(c, p)} : q \in Nat /\ Second(c, q) <= Fourth(c, p)
  BY <1>1, <1>2
<1>5. \A q \in {p, Second(c, p), Third(c, p), Fourth(c, p), Fifth(c, p)} :
        q \in Nat /\ Second(c, q) <= Second(c, Fifth(c, p))
  BY <1>1, <1>2
<1>6. /\ p + (Third(c, p) - p) = Third(c, p) /\ p + (Fourth(c, p) - p) = Fourth(c, p)
      /\ p + (Second(c, Fifth(c, p)) - p) = Second(c, Fifth(c, p))
  BY <1>1
<1>7. CASE k \in {1, 4, 8}
  BY <1>3, <1>6, <1>7 DEF PartsOf, Group
<1>8. CASE k \in {2, 5}
  BY <1>4, <1>6, <1>8 DEF PartsOf, Group
<1>9. CASE k = 3
  <2>1. Third(c, p) - p \in Nat
    BY <1>1
  <2>2. Loop(c, p).count \in Nat /\ Loop(c, p).count >= Third(c, p) - p
    BY <2>1, PastNopsTyped DEF Loop
  <2>3. Third(c, p) <= p + Loop(c, p).count
    BY <1>1, <2>2
  <2>4. \A q \in {p, Second(c, p)} : q \in Nat /\ Second(c, q) \in Nat
    BY <1>1, <1>2
  <2>5. \A q \in {p, Second(c, p)} : Second(c, q) <= p + Loop(c, p).count
    BY <1>1, <1>3, <2>2, <2>3, <2>4
  <2> QED
    BY <1>9, <2>4, <2>5 DEF PartsOf, Group
<1>10. CASE k \in {6, 7}
  BY <1>5, <1>6, <1>10 DEF PartsOf, Group
<1> QED
  BY <1>7, <1>8, <1>9, <1>10

\* d is c without its first m bytes.
Later(c, d, m) == \A q \in Nat : fd_decode(d, q) = fd_decode(c, q + m)

LEMMA LoopLater ==
    ASSUME NEW c, Advances(c), NEW d, Advances(d), NEW m \in Nat, Later(c, d, m), NEW p \in Nat
    PROVE  \A j \in Nat : PastNops(d, p, j) = PastNops(c, p + m, j)
<1> DEFINE T == {j \in Nat : PastNops(d, p, j) = PastNops(c, p + m, j)}
<1>1. \A j \in Nat : fd_decode(d, p + j) = fd_decode(c, (p + m) + j)
  <2> SUFFICES ASSUME NEW j \in Nat PROVE fd_decode(d, p + j) = fd_decode(c, (p + m) + j)
    OBVIOUS
  <2>1. p + j \in Nat /\ (p + j) + m = (p + m) + j
    OBVIOUS
  <2>2. fd_decode(d, p + j) = fd_decode(c, (p + j) + m)
    BY <2>1 DEF Later
  <2> QED
    BY <2>1, <2>2
<1>2. p + m \in Nat
  OBVIOUS
<1>3. ASSUME NEW j \in Nat, j >= BundleSize \/ fd_decode(d, p + j).type = "INVALID"
      PROVE  j \in T
  <2>1. PastNops(d, p, j) = [count |-> j, icount |-> 0, last |-> Undecodable]
    BY <1>3, PastNopsTurns
  <2>2. j >= BundleSize \/ fd_decode(c, (p + m) + j).type = "INVALID"
    BY <1>1, <1>3
  <2>3. PastNops(c, p + m, j) = [count |-> j, icount |-> 0, last |-> Undecodable]
    BY <1>2, <2>2, PastNopsTurns
  <2> QED
    BY <2>1, <2>3
<1>4. ASSUME NEW j \in Nat, j < BundleSize, fd_decode(d, p + j).type \notin {"INVALID", "NOP"}
      PROVE  j \in T
  <2> DEFINE i == fd_decode(d, p + j)
  <2>1. ~(j >= BundleSize) /\ i = fd_decode(c, (p + m) + j)
    BY <1>1, <1>4, BundleAssumption
  <2>2. PastNops(d, p, j) = [count |-> j + i.size, icount |-> 1, last |-> i]
    BY <1>4, <2>1, PastNopsTurns
  <2>3. PastNops(c, p + m, j) = [count |-> j + i.size, icount |-> 1, last |-> i]
    BY <1>2, <1>4, <2>1, PastNopsTurns
  <2> QED
    BY <2>2, <2>3
<1>5. ASSUME NEW j \in Nat, j < BundleSize, fd_decode(d, p + j).type = "NOP",
             j + fd_decode(d, p + j).size \in T
      PROVE  j \in T
  <2> DEFINE i == j + fd_decode(d, p + j).size
  <2>1. ~(j >= BundleSize) /\ fd_decode(d, p + j) = fd_decode(c, (p + m) + j)
    BY <1>1, <1>5, BundleAssumption
  <2>2. PastNops(d, p, j) = [PastNops(d, p, i) EXCEPT !.icount = @ + 1]
    BY <1>5, <2>1, PastNopsTurns
  <2>3. PastNops(c, p + m, j) = [PastNops(c, p + m, i) EXCEPT !.icount = @ + 1]
    <3>1. fd_decode(c, (p + m) + j).type = "NOP" /\ i = j + fd_decode(c, (p + m) + j).size
      BY <1>5, <2>1
    <3> HIDE DEF i
    <3> QED
      BY <1>2, <2>1, <3>1, PastNopsTurns
  <2>4. PastNops(d, p, i) = PastNops(c, p + m, i)
    BY <1>5
  <2> HIDE DEF i
  <2> QED
    BY <2>2, <2>3, <2>4
<1>6. T \subseteq Nat
  OBVIOUS
<1> HIDE DEF T
<1>7. \A j \in Nat : j \in T
  BY <1>3, <1>4, <1>5, <1>6, LoopCases
<1> QED
  BY <1>7 DEF T

\* The recognisers see no bytes before the offset they are called at.
LEMMA MacroLater ==
    ASSUME NEW o, NEW c, Advances(c), NEW d, Advances(d), NEW m \in Nat, Later(c, d, m),
           NEW p \in Nat, NEW a
    PROVE  macroinst(o, d, p, a) = macroinst(o, c, p + m, a)
<1>1. \A k \in 1..8 : \A q \in PartsOf(k, d, p) : fd_decode(d, q) = fd_decode(c, q + m)
  BY PartsWithin DEF Later
<1>2. Third(d, p) - p \in Nat
  <2>1. Second(d, p) \in Nat /\ Second(d, p) > p /\ Third(d, p) \in Nat
        /\ Third(d, p) > Second(d, p)
    BY PartsInOrder
  <2> QED
    BY <2>1
<1>3. PastNops(d, p, Third(d, p) - p) = PastNops(c, p + m, Third(d, p) - p)
  BY <1>2, LoopLater
<1>4. \A k \in 1..8 : /\ Shape(k, o, d, p, a) <=> Shape(k, o, c, p + m, a)
                      /\ Group(k, d, p) = Group(k, c, p + m)
  <2> SUFFICES ASSUME NEW k \in 1..8
               PROVE  /\ Shape(k, o, d, p, a) <=> Shape(k, o, c, p + m, a)
                      /\ Group(k, d, p) = Group(k, c, p + m)
    OBVIOUS
  <2>1. SeesSame(k, c, d, m, p)
    BY <1>1, <1>3 DEF SeesSame
  <2>2. MakesSame(k, c, d, m, p)
    BY <2>1, SameParts
  <2> QED
    BY <2>2 DEF MakesSame
<1>5. \A k \in 1..8 : Tried(o, d, p, a)[k] = Tried(o, c, p + m, a)[k]
  BY <1>4, TriedShape
<1>6. Tried(o, d, p, a) = Tried(o, c, p + m, a)
  BY <1>5 DEF Tried
<1> QED
  BY <1>6 DEF macroinst, Tried

\* d is c without its bytes from m on: fd_decode does not see past the cut.
Sooner(c, d, m) ==
    \A q \in Nat : fd_decode(d, q) = IF Second(c, q) <= m THEN fd_decode(c, q) ELSE Undecodable

\* As far as the loop of macroinst_call gets to a call before the cut, the cut changes
\* nothing.
LEMMA LoopSooner ==
    ASSUME NEW c, Advances(c), NEW d, Advances(d), NEW m \in Nat, Sooner(c, d, m),
           NEW p \in Nat
    PROVE  \A j \in Nat :
             PastNops(d, p, j).last.type # "INVALID" => PastNops(d, p, j) = PastNops(c, p, j)
<1> DEFINE T == {j \in Nat : PastNops(d, p, j).last.type # "INVALID" =>
                               PastNops(d, p, j) = PastNops(c, p, j)}
<1>1. \A j \in Nat : fd_decode(d, p + j).type # "INVALID" =>
                       fd_decode(d, p + j) = fd_decode(c, p + j)
  BY DEF Sooner, Undecodable
<1>2. ASSUME NEW j \in Nat, j >= BundleSize \/ fd_decode(d, p + j).type = "INVALID"
      PROVE  j \in T
  <2>1. PastNops(d, p, j).last = Undecodable
    BY <1>2, PastNopsStops
  <2> QED
    BY <2>1 DEF Undecodable
<1>3. ASSUME NEW j \in Nat, j < BundleSize, fd_decode(d, p + j).type \notin {"INVALID", "NOP"}
      PROVE  j \in T
  <2> DEFINE i == fd_decode(d, p + j)
  <2>1. ~(j >= BundleSize) /\ i = fd_decode(c, p + j)
    BY <1>1, <1>3, BundleAssumption
  <2>2. PastNops(d, p, j) = [count |-> j + i.size, icount |-> 1, last |-> i]
    BY <1>3, <2>1, PastNopsTurns
  <2>3. PastNops(c, p, j) = [count |-> j + i.size, icount |-> 1, last |-> i]
    BY <1>3, <2>1, PastNopsTurns
  <2> QED
    BY <2>2, <2>3
<1>4. ASSUME NEW j \in Nat, j < BundleSize, fd_decode(d, p + j).type = "NOP",
             j + fd_decode(d, p + j).size \in T
      PROVE  j \in T
  <2> SUFFICES ASSUME PastNops(d, p, j).last.type # "INVALID"
               PROVE  PastNops(d, p, j) = PastNops(c, p, j)
    OBVIOUS
  <2> DEFINE i == j + fd_decode(d, p + j).size
  <2>1. ~(j >= BundleSize) /\ fd_decode(d, p + j) = fd_decode(c, p + j)
    BY <1>1, <1>4, BundleAssumption
  <2>2. PastNops(d, p, j) = [PastNops(d, p, i) EXCEPT !.icount = @ + 1]
    BY <1>4, <2>1, PastNopsTurns
  <2>3. PastNops(c, p, j) = [PastNops(c, p, i) EXCEPT !.icount = @ + 1]
    BY <1>4, <2>1, PastNopsTurns
  <2>4. PastNops(d, p, j).last = PastNops(d, p, i).last
    BY <1>4, PastNopsGoesOn
  <2>5. PastNops(d, p, i) = PastNops(c, p, i)
    BY <1>4, <2>4
  <2> HIDE DEF i
  <2> QED
    BY <2>2, <2>3, <2>5
<1>5. T \subseteq Nat
  OBVIOUS
<1> HIDE DEF T
<1>6. \A j \in Nat : j \in T
  BY <1>2, <1>3, <1>4, <1>5, LoopCases
<1> QED
  BY <1>6 DEF T

\* The other way: a call that ends before the cut is still found.
LEMMA LoopKept ==
    ASSUME NEW c, Advances(c), NEW d, Advances(d), NEW m \in Nat, Sooner(c, d, m),
           NEW p \in Nat
    PROVE  \A j \in Nat :
             PastNops(c, p, j).last.type # "INVALID" /\ p + PastNops(c, p, j).count <= m =>
               PastNops(d, p, j) = PastNops(c, p, j)
<1> DEFINE T == {j \in Nat :
             PastNops(c, p, j).last.type # "INVALID" /\ p + PastNops(c, p, j).count <= m =>
               PastNops(d, p, j) = PastNops(c, p, j)}
<1>1. \A j \in Nat : /\ fd_decode(c, p + j).size \in Nat \ {0}
                     /\ p + (j + fd_decode(c, p + j).size) <= m =>
                          fd_decode(d, p + j) = fd_decode(c, p + j)
  BY DEF Sooner, Second, Advances
<1>2. ASSUME NEW j \in Nat, j >= BundleSize \/ fd_decode(c, p + j).type = "INVALID"
      PROVE  j \in T
  <2>1. PastNops(c, p, j).last = Undecodable
    BY <1>2, PastNopsStops
  <2> QED
    BY <2>1 DEF Undecodable
<1>3. ASSUME NEW j \in Nat, j < BundleSize, fd_decode(c, p + j).type \notin {"INVALID", "NOP"}
      PROVE  j \in T
  <2> SUFFICES ASSUME p + PastNops(c, p, j).count <= m
               PROVE  PastNops(d, p, j) = PastNops(c, p, j)
    OBVIOUS
  <2> DEFINE i == fd_decode(c, p + j)
  <2>1. PastNops(c, p, j).count = j + i.size
    BY <1>3, PastNopsEnds
  <2>2. ~(j >= BundleSize) /\ i = fd_decode(d, p + j)
    BY <1>1, <1>3, <2>1, BundleAssumption
  <2>3. PastNops(c, p, j) = [count |-> j + i.size, icount |-> 1, last |-> i]
    BY <1>3, <2>2, PastNopsTurns
  <2>4. PastNops(d, p, j) = [count |-> j + i.size, icount |-> 1, last |-> i]
    BY <1>3, <2>2, PastNopsTurns
  <2> QED
    BY <2>3, <2>4
<1>4. ASSUME NEW j \in Nat, j < BundleSize, fd_decode(c, p + j).type = "NOP",
             j + fd_decode(c, p + j).size \in T
      PROVE  j \in T
  <2> SUFFICES ASSUME PastNops(c, p, j).last.type # "INVALID",
                      p + PastNops(c, p, j).count <= m
               PROVE  PastNops(d, p, j) = PastNops(c, p, j)
    OBVIOUS
  <2> DEFINE i == j + fd_decode(c, p + j).size
  <2>1. /\ PastNops(c, p, j).count = PastNops(c, p, i).count
        /\ PastNops(c, p, j).last = PastNops(c, p, i).last
    BY <1>4, PastNopsGoesOn
  <2>2. i \in Nat
    BY <1>1
  <2>3. PastNops(c, p, i).count \in Nat /\ PastNops(c, p, i).count >= i
    <3> HIDE DEF i
    <3> QED
      BY <2>2, PastNopsTyped
  <2>4. p + i <= m
    <3> HIDE DEF i
    <3> QED
      BY <2>1, <2>2, <2>3
  <2>5. ~(j >= BundleSize) /\ fd_decode(d, p + j) = fd_decode(c, p + j)
    BY <1>1, <1>4, <2>4, BundleAssumption
  <2>6. PastNops(d, p, j) = [PastNops(d, p, i) EXCEPT !.icount = @ + 1]
    BY <1>4, <2>5, PastNopsTurns
  <2>7. PastNops(c, p, j) = [PastNops(c, p, i) EXCEPT !.icount = @ + 1]
    BY <1>4, <2>5, PastNopsTurns
  <2>8. PastNops(d, p, i) = PastNops(c, p, i)
    BY <1>4, <2>1
  <2> HIDE DEF i
  <2> QED
    BY <2>6, <2>7, <2>8
<1>5. T \subseteq Nat
  OBVIOUS
<1> HIDE DEF T
<1>6. \A j \in Nat : j \in T
  BY <1>2, <1>3, <1>4, <1>5, LoopCases
<1> QED
  BY <1>6 DEF T

\* SameParts at the same offset of both codes.
LEMMA SameHere ==
    ASSUME NEW c, NEW d, Advances(d), NEW p \in Nat, NEW k \in 1..8,
           \A q \in PartsOf(k, d, p) : fd_decode(d, q) = fd_decode(c, q),
           k = 3 => PastNops(d, p, Third(d, p) - p) = PastNops(c, p, Third(d, p) - p)
    PROVE  /\ \A o, a : Shape(k, o, d, p, a) <=> Shape(k, o, c, p, a)
           /\ Group(k, d, p) = Group(k, c, p)
<1>1. \A q \in PartsOf(k, d, p) : fd_decode(d, q) = fd_decode(c, q + 0)
  <2>1. \A q \in PartsOf(k, d, p) : q + 0 = q
    BY PartsWithin
  <2> QED
    BY <2>1
<1>2. p + 0 = p
  OBVIOUS
<1>3. SeesSame(k, c, d, 0, p)
  BY <1>1, <1>2 DEF SeesSame
<1>4. MakesSame(k, c, d, 0, p)
  BY <1>3, SameParts
<1> QED
  BY <1>2, <1>4 DEF MakesSame

\* What a recogniser accepts before the cut it accepts in the whole code: its look-ahead
\* turns nothing down because of what comes later.
LEMMA ShapeSooner ==
    ASSUME NEW o, NEW c, Advances(c), NEW d, Advances(d), NEW m \in Nat, Sooner(c, d, m),
           NEW p \in Nat, NEW a, NEW k \in 1..8, Shape(k, o, d, p, a)
    PROVE  Shape(k, o, c, p, a)
<1>1. \A q \in PartsOf(k, d, p) : fd_decode(d, q) = fd_decode(c, q)
  <2>1. \A q \in PartsOf(k, d, p) : q \in Nat /\ fd_decode(d, q).type # "INVALID"
    BY PartsKnown, PartsWithin
  <2> QED
    BY <2>1 DEF Sooner, Undecodable
<1>2. k = 3 => PastNops(d, p, Third(d, p) - p) = PastNops(c, p, Third(d, p) - p)
  <2> SUFFICES ASSUME k = 3
               PROVE  PastNops(d, p, Third(d, p) - p) = PastNops(c, p, Third(d, p) - p)
    OBVIOUS
  <2>1. PastNops(d, p, Third(d, p) - p).last.type # "INVALID"
    BY DEF Shape, CallAt, Loop
  <2>2. Second(d, p) \in Nat /\ Second(d, p) > p /\ Third(d, p) \in Nat
        /\ Third(d, p) > Second(d, p)
    BY PartsInOrder
  <2>3. Third(d, p) - p \in Nat
    BY <2>2
  <2> QED
    BY <2>1, <2>3, LoopSooner
<1> QED
  BY <1>1, <1>2, SameHere

LEMMA ShapeKept ==
    ASSUME NEW o, NEW c, Advances(c), NEW d, Advances(d), NEW m \in Nat, Sooner(c, d, m),
           NEW p \in Nat, NEW a, NEW k \in 1..8, Shape(k, o, c, p, a),
           p + Group(k, c, p).size <= m
    PROVE  Shape(k, o, d, p, a) /\ Group(k, d, p) = Group(k, c, p)
<1>1. \A q \in PartsOf(k, c, p) : fd_decode(c, q) = fd_decode(d, q)
  <2> SUFFICES ASSUME NEW q \in PartsOf(k, c, p) PROVE fd_decode(c, q) = fd_decode(d, q)
    OBVIOUS
  <2>1. q \in Nat /\ Second(c, q) <= p + Group(k, c, p).size
    BY PartsWithin
  <2>2. Group(k, c, p).size \in Nat
    BY GroupTyped
  <2>3. Second(c, q) \in Nat
    BY <2>1, PartsInOrder
  <2>4. Second(c, q) <= m
    BY <2>1, <2>2, <2>3
  <2> QED
    BY <2>1, <2>3, <2>4 DEF Sooner
<1>2. k = 3 => PastNops(c, p, Third(c, p) - p) = PastNops(d, p, Third(c, p) - p)
  <2> SUFFICES ASSUME k = 3
               PROVE  PastNops(c, p, Third(c, p) - p) = PastNops(d, p, Third(c, p) - p)
    OBVIOUS
  <2>1. PastNops(c, p, Third(c, p) - p).last.type # "INVALID"
    BY DEF Shape, CallAt, Loop
  <2>2. p + PastNops(c, p, Third(c, p) - p).count <= m
    BY DEF Group, Loop
  <2>3. Second(c, p) \in Nat /\ Second(c, p) > p /\ Third(c, p) \in Nat
        /\ Third(c, p) > Second(c, p)
    BY PartsInOrder
  <2>4. Third(c, p) - p \in Nat
    BY <2>3
  <2> QED
    BY <2>1, <2>2, <2>4, LoopKept
<1>3. Shape(k, o, c, p, a) <=> Shape(k, o, d, p, a)
  BY <1>1, <1>2, SameHere
<1> QED
  BY <1>1, <1>2, <1>3, SameHere

\* The cut changes nothing for a macro-instruction that ends before it, and makes no others.
LEMMA MacroSooner ==
    ASSUME NEW o, NEW c, Advances(c), NEW d, Advances(d), NEW m \in Nat, Sooner(c, d, m),
           NEW p \in Nat, NEW a,
           macroinst(o, c, p, a).size > 0 => p + macroinst(o, c, p, a).size <= m
    PROVE  macroinst(o, d, p, a) = macroinst(o, c, p, a)
<1>1. \A k \in 1..8 : Shape(k, o, d, p, a) => Shape(k, o, c, p, a)
  BY ShapeSooner
<1>2. CASE /\ macroinst(o, c, p, a) = NoMacro
           /\ \A k \in 1..8 : ~Shape(k, o, c, p, a)
  BY <1>1, <1>2, NoneAccepts
<1>3. CASE \E k \in 1..8 : /\ Shape(k, o, c, p, a)
                           /\ \A j \in 1..8 : j < k => ~Shape(j, o, c, p, a)
                           /\ macroinst(o, c, p, a) = Group(k, c, p)
  <2>1. PICK k \in 1..8 : /\ Shape(k, o, c, p, a)
                          /\ \A j \in 1..8 : j < k => ~Shape(j, o, c, p, a)
                          /\ macroinst(o, c, p, a) = Group(k, c, p)
    BY <1>3
  <2>2. Group(k, c, p).size \in Nat \ {0}
    BY GroupTyped
  <2>3. p + Group(k, c, p).size <= m
    BY <2>1, <2>2
  <2>4. Shape(k, o, d, p, a) /\ Group(k, d, p) = Group(k, c, p)
    BY <2>1, <2>3, ShapeKept
  <2>5. \A j \in 1..8 : j < k => ~Shape(j, o, d, p, a)
    BY <1>1, <2>1
  <2>6. macroinst(o, d, p, a) = Group(k, d, p)
    BY <2>4, <2>5, FirstAccepts
  <2> QED
    BY <2>1, <2>4, <2>6
<1> QED
  BY <1>2, <1>3, MacroShape
=============================================================================
