-------------------------- MODULE X64VerifierProofs --------------------------
(***************************************************************************)
(* Theorems about X64Verifier, for every code, every answer of the two     *)
(* decoders and every bundle size.                                         *)
(***************************************************************************)
EXTENDS X64Verifier, X64MacroProofs, TLAPS

\* Wherever the recognisers look, fd_decode gives an instruction a length of at least 1.
LEMMA CodeAdvances ==
    ASSUME NEW c, IsCode(c)
    PROVE  Advances(c)
<1> SUFFICES ASSUME NEW p \in Nat PROVE fd_decode(c, p).size \in Nat \ {0}
  BY DEF Advances
<1>1. CASE p < c.n
  <2>1. p \in 0..(c.n - 1)
    BY <1>1 DEF IsCode
  <2>2. c.fd[p] \in Inst
    BY <2>1 DEF IsCode
  <2> QED
    BY <1>1, <2>2 DEF fd_decode, Inst
<1>2. CASE ~(p < c.n)
  BY <1>2 DEF fd_decode, Undecodable
<1> QED
  BY <1>1, <1>2

\* What a recogniser may return.
MacroInst == [size : Nat \cup {-1}, ninstr : Nat]

\* What the recognisers add up from the lengths fd_decode gives is a size_t.
LEMMA MacroTyped ==
    ASSUME NEW o, NEW c, IsCode(c), NEW p \in Nat, NEW a \in Nat
    PROVE  macroinst(o, c, p, a) \in MacroInst
<1>1. Advances(c)
  BY CodeAdvances
<1>2. NoMacro \in MacroInst
  BY DEF NoMacro, MacroInst
<1>3. \A k \in 1..8 : Group(k, c, p) \in MacroInst
  <2> SUFFICES ASSUME NEW k \in 1..8 PROVE Group(k, c, p) \in MacroInst
    OBVIOUS
  <2>1. Group(k, c, p).size \in Nat /\ Group(k, c, p).ninstr \in Nat
    BY <1>1, GroupTyped
  <2>2. Group(k, c, p) = [size |-> Group(k, c, p).size, ninstr |-> Group(k, c, p).ninstr]
    BY DEF Group
  <2> QED
    BY <2>1, <2>2 DEF MacroInst
<1>4. \/ macroinst(o, c, p, a) = NoMacro
      \/ \E k \in 1..8 : macroinst(o, c, p, a) = Group(k, c, p)
  BY <1>1, MacroShape
<1> QED
  BY <1>2, <1>3, <1>4

\* The pass always moves on, whatever it finds: a unit is not empty.
LEMMA UnitTyped ==
    ASSUME NEW o, NEW c, IsCode(c), NEW p \in 0..(c.n - 1), NEW a \in Nat
    PROVE  Unit(o, c, p, a).size \in Nat \ {0} /\ Unit(o, c, p, a).ninstr \in Nat
<1>1. c.n \in Nat /\ c.fd[p] \in Inst
  BY DEF IsCode
<1>2. p \in Nat /\ c.fd[p].size \in 1..15
  BY <1>1 DEF Inst
<1>3. macroinst(o, c, p, a) \in MacroInst
  BY <1>2, MacroTyped
<1> QED
  BY <1>2, <1>3 DEF Unit, MacroInst

-----------------------------------------------------------------------------
(* Bundles. *)

LEMMA DivMod ==
    ASSUME NEW q \in Nat
    PROVE  /\ q \div BundleSize \in Nat /\ q % BundleSize \in 0..(BundleSize - 1)
           /\ q = BundleSize * (q \div BundleSize) + (q % BundleSize)
  BY BundleAssumption

LEMMA ModUnique ==
    ASSUME NEW k \in Nat, NEW r \in 0..(BundleSize - 1)
    PROVE  (BundleSize * k + r) % BundleSize = r
<1> DEFINE q == BundleSize * k + r
<1>1. q \in Nat
  BY BundleAssumption
<1>2. /\ q \div BundleSize \in Nat /\ q % BundleSize \in 0..(BundleSize - 1)
      /\ q = BundleSize * (q \div BundleSize) + (q % BundleSize)
  BY <1>1, DivMod
<1>3. ASSUME NEW d \in Nat, NEW e \in 0..(BundleSize - 1), BundleSize * k + r = BundleSize * d + e
      PROVE  e = r
  BY <1>3, BundleAssumption
<1> QED
  BY <1>2, <1>3

LEMMA NextBundleStart ==
    ASSUME NEW q \in Nat, q % BundleSize = 0
    PROVE  (q + BundleSize) % BundleSize = 0
<1> DEFINE k == q \div BundleSize
<1>1. k + 1 \in Nat /\ q = BundleSize * k
  BY DivMod, BundleAssumption
<1>2. q + BundleSize = BundleSize * (k + 1) + 0
  BY <1>1, BundleAssumption
<1>3. (BundleSize * (k + 1) + 0) % BundleSize = 0
  BY <1>1, ModUnique, BundleAssumption
<1> QED
  BY <1>2, <1>3

LEMMA OffsetInBundle ==
    ASSUME NEW q \in Nat, q % BundleSize = 0, NEW k \in 0..(BundleSize - 1)
    PROVE  (q + k) % BundleSize = k
<1> DEFINE d == q \div BundleSize
<1>1. d \in Nat /\ q = BundleSize * d
  BY DivMod, BundleAssumption
<1>2. (BundleSize * d + k) % BundleSize = k
  BY <1>1, ModUnique
<1> QED
  BY <1>1, <1>2

\* A bundle start among the bytes of a bundle is its first byte.
LEMMA OneStartPerBundle ==
    ASSUME NEW q \in Nat, q % BundleSize = 0, NEW r \in Nat, r % BundleSize = 0,
           q <= r, r < q + BundleSize
    PROVE  r = q
<1>1. r - q \in 0..(BundleSize - 1)
  BY BundleAssumption
<1>2. (q + (r - q)) % BundleSize = r - q
  BY <1>1, OffsetInBundle
<1>3. q + (r - q) = r
  OBVIOUS
<1> QED
  BY <1>2, <1>3

-----------------------------------------------------------------------------
(* Type correctness. *)

\* What the arguments of the call are, in every state.
LEMMA InputsTyped ==
    ASSUME TypeOK
    PROVE  opts \in Options /\ IsCode(code) /\ base \in Nat /\ code.n \in Nat
<1>1. PICK c \in Calls : opts = c.opts /\ code = c.code /\ base = c.base
  BY DEF TypeOK
<1>2. opts \in Options /\ IsCode(code) /\ base \in Nat
  BY <1>1, CallsAssumption
<1> QED
  BY <1>2 DEF IsCode

\* The pass is well typed: the counters of lfiv_verify_x64 and vchkbundle, and v.
THEOREM TypeCorrect == Spec => []TypeOK
<1>1. Init => TypeOK
  <2> SUFFICES ASSUME Init PROVE TypeOK
    OBVIOUS
  <2>1. PICK c \in Calls : opts = c.opts /\ code = c.code /\ base = c.base
    BY DEF Init
  <2>2. IsCode(code) /\ base \in Nat
    BY <2>1, CallsAssumption
  <2>3. code.n \in Nat
    BY <2>2 DEF IsCode
  <2>4. 0 % BundleSize = 0
    BY BundleAssumption
  <2>5. /\ bdd_count \in 0..(code.n + 254) /\ bdd_ninstr \in 0..bdd_count
        /\ off \in Nat /\ off % BundleSize = 0 /\ off < code.n + BundleSize
        /\ count \in 0..BundleSize /\ ninstr \in Nat
    BY <2>3, <2>4, BundleAssumption DEF Init
  <2>6. pc \in {"bdd", "bundle"} /\ failed = FALSE /\ addr \in Nat
          /\ reports = {} /\ starts = {}
    BY <2>2 DEF Init
  <2> QED
    BY <2>1, <2>5, <2>6 DEF TypeOK
<1>2. TypeOK /\ [Next]_vars => TypeOK'
  <2> SUFFICES ASSUME TypeOK, [Next]_vars PROVE TypeOK'
    OBVIOUS
  <2>1. opts \in Options /\ IsCode(code) /\ base \in Nat /\ code.n \in Nat
    BY InputsTyped
  <2>2. CASE UNCHANGED vars
    BY <2>2 DEF vars, TypeOK, Offset
  <2>3. CASE BddStep
    <3>1. bdd_count \in 0..(code.n - 1)
      BY <2>1, <2>3 DEF BddStep, TypeOK
    <3>2. code.bdd[bdd_count] \in 0..255
      BY <2>1, <3>1 DEF IsCode
    <3>3. /\ code.bdd[bdd_count] # 0 /\ bdd_ninstr \in 0..bdd_count /\ addr \in Nat
          /\ bdd_count' = bdd_count + code.bdd[bdd_count]
          /\ bdd_ninstr' = bdd_ninstr + 1 /\ addr' = addr + code.bdd[bdd_count]
      BY <2>3 DEF BddStep, TypeOK
    <3>4. /\ bdd_count \in Nat /\ bdd_count <= code.n - 1
          /\ code.bdd[bdd_count] \in Nat \ {0} /\ code.bdd[bdd_count] <= 255
      BY <2>1, <3>1, <3>2, <3>3
    <3>5. bdd_count' \in 0..(code.n + 254) /\ addr' \in Nat
      BY <2>1, <3>3, <3>4
    <3>6. bdd_ninstr' \in 0..bdd_count'
      BY <3>3, <3>4
    <3> QED
      BY <2>3, <3>5, <3>6 DEF BddStep, TypeOK, Offset, inputs
  <2>4. CASE BddUnknown
    BY <2>4 DEF BddUnknown, verrmin, TypeOK, Offset, inputs
  <2>5. CASE BddDone
    BY <2>1, <2>5 DEF BddDone, TypeOK, Offset, inputs
  <2>6. CASE StartBundle
    BY <2>6, BundleAssumption DEF StartBundle, TypeOK, Offset, inputs
  <2>7. CASE UnknownInst
    <3>1. off' = off + BundleSize /\ off \in Nat /\ off % BundleSize = 0 /\ off < code.n
      BY <2>7 DEF UnknownInst, InBundle, NextBundle, TypeOK
    <3>2. off' \in Nat /\ off' % BundleSize = 0 /\ off' < code.n + BundleSize
      BY <2>1, <3>1, NextBundleStart, BundleAssumption
    <3> QED
      BY <2>7, <3>2 DEF UnknownInst, NextBundle, verrmin, TypeOK, Offset, inputs
  <2>8. CASE CheckUnit
    <3>1. At \in 0..(code.n - 1)
      BY <2>1, <2>8 DEF CheckUnit, InBundle, At, TypeOK
    <3>2. /\ Unit(opts, code, At, addr).size \in Nat \ {0}
          /\ Unit(opts, code, At, addr).ninstr \in Nat
      BY <2>1, <3>1, UnitTyped DEF TypeOK
    <3>3. addr' \in Nat /\ count' \in 0..BundleSize /\ ninstr' \in Nat
      BY <2>8, <3>2, BundleAssumption DEF CheckUnit, TypeOK
    <3>4. failed' \in BOOLEAN /\ reports' \subseteq Nat /\ (reports' # {} => opts.err)
      BY <2>8 DEF CheckUnit, verrmin, TypeOK
    <3>5. starts' \subseteq Offset
      BY <2>8, <3>1 DEF CheckUnit, TypeOK, Offset
    <3> QED
      BY <2>8, <3>3, <3>4, <3>5 DEF CheckUnit, TypeOK, Offset, inputs
  <2>9. CASE UnitSpans
    BY <2>9 DEF UnitSpans, verrmin, TypeOK, Offset, inputs
  <2>10. CASE BundleDone
    <3>1. off' \in Nat /\ off' % BundleSize = 0
      BY <2>1, <2>10, NextBundleStart, BundleAssumption
        DEF BundleDone, NextBundle, TypeOK
    <3>2. off' < code.n + BundleSize
      BY <2>1, <2>10, BundleAssumption DEF BundleDone, NextBundle, TypeOK
    <3> QED
      BY <2>10, <3>1, <3>2 DEF BundleDone, NextBundle, TypeOK, Offset, inputs
  <2>11. CASE Finish
    BY <2>11 DEF Finish, TypeOK, Offset, inputs
  <2> QED
    BY <2>2, <2>3, <2>4, <2>5, <2>6, <2>7, <2>8, <2>9, <2>10, <2>11 DEF Next
<1> QED
  BY <1>1, <1>2, PTL DEF Spec

-----------------------------------------------------------------------------
(* The verdict. *)

NextUnit(p) == p + Unit(opts, code, p, base + p).size

\* How far the second pass has come.
Front == IF pc = "inst" THEN off + count ELSE off

\* The units found so far take the code apart up to Front, and every way of taking it
\* apart has them.
Covered ==
    /\ starts \subseteq GoodUnits(opts, code, base)
    /\ \A p \in starts : NextUnit(p) < code.n => NextUnit(p) \in starts \/ NextUnit(p) = Front
    /\ \A p \in Offset : p % BundleSize = 0 /\ p < Front => p \in starts
    /\ \A S \in SUBSET GoodUnits(opts, code, base) :
         TakesApart(opts, code, base, S) =>
           starts \subseteq S /\ (Front < code.n => Front \in S)

\* The lengths of the BDD lead from the start of the code to bdd_count, and from nowhere
\* else there.
CoveredLengths ==
    /\ \E V \in SUBSET KnownLengths(code) :
         /\ bdd_count > 0 /\ code.n > 0 => 0 \in V
         /\ \A p \in V : p + code.bdd[p] < code.n =>
                           p + code.bdd[p] \in V \/ p + code.bdd[p] = bdd_count
    /\ \A S \in SUBSET KnownLengths(code) :
         LeadsOn(code, S) /\ bdd_count < code.n => bdd_count \in S

VerdictInv ==
    /\ pc = "bdd" => ~failed /\ ~opts.no_bdd /\ starts = {} /\ off = 0 /\ CoveredLengths
    /\ pc \in {"bundle", "inst", "pass", "assert"} => opts.no_bdd \/ ValidLengths(code)
    /\ pc \in {"bundle", "inst"} /\ ~failed => Covered
    /\ pc = "inst" /\ ~failed => addr = base + At
    /\ pc = "bundle" /\ ~failed /\ off < code.n => addr = base + off
    /\ pc \in {"pass", "assert"} =>
         ~failed /\ starts \subseteq GoodUnits(opts, code, base)
                 /\ TakesApart(opts, code, base, starts)
    /\ failed => ~Valid(opts, code, base)
    /\ pc = "fail" => failed

LEMMA VerdictInvInitially == TypeOK /\ Init => VerdictInv
<1> SUFFICES ASSUME TypeOK, Init PROVE VerdictInv
  OBVIOUS
<1>1. code.n \in Nat /\ IsCode(code) /\ base \in Nat /\ opts \in Options
  BY InputsTyped
<1>2. pc \in {"bdd", "bundle"} /\ failed = FALSE /\ off = 0 /\ starts = {} /\ addr = base
        /\ bdd_count = 0 /\ (pc = "bundle" <=> opts.no_bdd)
  BY <1>1 DEF Init, Options
<1>3. 0 % BundleSize = 0
  BY BundleAssumption
<1>4. Front = 0
  BY <1>2 DEF Front
<1>5. Covered
  BY <1>1, <1>2, <1>3, <1>4 DEF Covered, TakesApart, Offset
<1>6. CoveredLengths
  <2>1. \E V \in SUBSET KnownLengths(code) :
         /\ bdd_count > 0 /\ code.n > 0 => 0 \in V
         /\ \A p \in V : p + code.bdd[p] < code.n =>
                           p + code.bdd[p] \in V \/ p + code.bdd[p] = bdd_count
    <3> WITNESS {} \in SUBSET KnownLengths(code)
    <3> QED
      BY <1>2
  <2> QED
    BY <1>1, <1>2, <2>1 DEF CoveredLengths, LeadsOn
<1> QED
  BY <1>1, <1>2, <1>4, <1>5, <1>6 DEF VerdictInv

\* A step of the BDD pass adds the offset it leaves to the lengths seen.
LEMMA BddStepInv ==
    ASSUME TypeOK, VerdictInv, BddStep
    PROVE  VerdictInv'
<1>1. code.n \in Nat /\ IsCode(code)
  BY InputsTyped
<1>2. /\ pc = "bdd" /\ bdd_count \in Nat /\ bdd_count < code.n /\ code.bdd[bdd_count] # 0
      /\ UNCHANGED <<inputs, pc, off, failed, starts>>
      /\ bdd_count' = bdd_count + code.bdd[bdd_count]
  BY DEF BddStep, TypeOK
<1>3. ~failed /\ ~opts.no_bdd /\ starts = {} /\ off = 0 /\ CoveredLengths
  BY <1>2 DEF VerdictInv
<1>4. bdd_count \in KnownLengths(code)
  BY <1>1, <1>2 DEF KnownLengths
<1>5. CoveredLengths'
  <2>1. PICK V \in SUBSET KnownLengths(code) :
         /\ bdd_count > 0 /\ code.n > 0 => 0 \in V
         /\ \A p \in V : p + code.bdd[p] < code.n =>
                           p + code.bdd[p] \in V \/ p + code.bdd[p] = bdd_count
    BY <1>3 DEF CoveredLengths
  <2> DEFINE W == V \cup {bdd_count}
  <2>2. W \in SUBSET KnownLengths(code)
    BY <1>4
  <2>3. 0 \in W
    BY <1>1, <1>2, <2>1
  <2>4. \A p \in W : p + code.bdd[p] < code.n =>
                       p + code.bdd[p] \in W \/ p + code.bdd[p] = bdd_count'
    BY <1>2, <2>1
  <2>5. \A S \in SUBSET KnownLengths(code) :
          LeadsOn(code, S) /\ bdd_count' < code.n => bdd_count' \in S
    BY <1>2, <1>3 DEF CoveredLengths, LeadsOn
  <2>6. code' = code
    BY <1>2 DEF inputs
  <2> HIDE DEF W
  <2> QED
    BY <2>2, <2>3, <2>4, <2>5, <2>6 DEF CoveredLengths
<1> QED
  BY <1>2, <1>3, <1>5 DEF VerdictInv, inputs, Front

\* The BDD knows no instruction where every valid chain of lengths leads.
LEMMA BddUnknownInv ==
    ASSUME TypeOK, VerdictInv, BddUnknown
    PROVE  VerdictInv'
<1>1. /\ pc = "bdd" /\ bdd_count < code.n /\ code.bdd[bdd_count] = 0
      /\ failed' = TRUE /\ pc' = "fail" /\ UNCHANGED inputs
  BY DEF BddUnknown, verrmin
<1>2. ~opts.no_bdd /\ CoveredLengths
  BY <1>1 DEF VerdictInv
<1>3. ~ValidLengths(code)
  BY <1>1, <1>2 DEF ValidLengths, CoveredLengths, KnownLengths
<1> QED
  BY <1>1, <1>2, <1>3 DEF VerdictInv, Valid, inputs

LEMMA BddDoneInv ==
    ASSUME TypeOK, VerdictInv, BddDone
    PROVE  VerdictInv'
<1>1. code.n \in Nat /\ IsCode(code)
  BY InputsTyped
<1>2. /\ pc = "bdd" /\ bdd_count \in Nat /\ bdd_count >= code.n /\ pc' = "bundle"
      /\ addr' = base /\ UNCHANGED <<inputs, off, failed, starts>>
  BY DEF BddDone, TypeOK
<1>3. ~failed /\ ~opts.no_bdd /\ starts = {} /\ off = 0 /\ CoveredLengths
  BY <1>2 DEF VerdictInv
<1>4. ValidLengths(code)
  <2>1. PICK V \in SUBSET KnownLengths(code) :
         /\ bdd_count > 0 /\ code.n > 0 => 0 \in V
         /\ \A p \in V : p + code.bdd[p] < code.n =>
                           p + code.bdd[p] \in V \/ p + code.bdd[p] = bdd_count
    BY <1>3 DEF CoveredLengths
  <2>2. LeadsOn(code, V)
    BY <1>1, <1>2, <2>1 DEF LeadsOn
  <2> QED
    BY <2>2 DEF ValidLengths
<1>5. base \in Nat /\ 0 % BundleSize = 0
  BY InputsTyped, BundleAssumption
<1>6. Front' = 0
  BY <1>2, <1>3 DEF Front
<1>7. Covered'
  BY <1>1, <1>2, <1>3, <1>5, <1>6 DEF Covered, TakesApart, Offset, inputs
<1> QED
  BY <1>2, <1>3, <1>4, <1>5, <1>6, <1>7 DEF VerdictInv, inputs

\* An instruction or unit that is turned down is where every way to take the code apart
\* has one.
LEMMA TurnedDown ==
    ASSUME TypeOK, VerdictInv, InBundle, ~failed,
           ~UnitOK(opts, code, At, addr) \/ count + Unit(opts, code, At, addr).size > BundleSize
    PROVE  ~Valid(opts, code, base)
<1>1. /\ pc = "inst" /\ At = off + count /\ At < code.n
      /\ count \in 0..(BundleSize - 1) /\ off \in Nat /\ off % BundleSize = 0
  BY BundleAssumption DEF InBundle, At, TypeOK
<1>2. Front = At /\ addr = base + At /\ Covered
  BY <1>1 DEF Front, VerdictInv
<1>3. At % BundleSize = count
  <2>1. (off + count) % BundleSize = count
    BY <1>1, OffsetInBundle
  <2> QED
    BY <1>1, <2>1
<1>4. At \notin GoodUnits(opts, code, base)
  <2>1. ASSUME At \in GoodUnits(opts, code, base)
        PROVE  /\ UnitOK(opts, code, At, base + At)
               /\ (At % BundleSize) + Unit(opts, code, At, base + At).size <= BundleSize
    BY <2>1 DEF GoodUnits
  <2>2. At \in 0..(code.n - 1)
    BY <1>1, InputsTyped
  <2>3. Unit(opts, code, At, addr).size \in Nat
    BY <2>2, InputsTyped, UnitTyped DEF TypeOK
  <2>4. ASSUME At \in GoodUnits(opts, code, base)
        PROVE  count + Unit(opts, code, At, addr).size <= BundleSize
    BY <2>1, <2>4, <1>2, <1>3
  <2> QED
    BY <2>1, <2>3, <2>4, <1>1, <1>2, BundleAssumption
<1>5. ASSUME NEW S \in SUBSET GoodUnits(opts, code, base), TakesApart(opts, code, base, S)
      PROVE  FALSE
  BY <1>1, <1>2, <1>4, <1>5 DEF Covered
<1> QED
  BY <1>5 DEF Valid, ValidUnits

\* Once something has failed the code is not valid, and the rest of the invariant asks
\* nothing but that the lengths were in order.
LEMMA StaysFailed ==
    ASSUME VerdictInv, ~Valid(opts, code, base), pc \in {"bundle", "inst"},
           UNCHANGED inputs, failed', pc' \in {"bundle", "inst", "fail"}
    PROVE  VerdictInv'
<1>1. opts' = opts /\ code' = code /\ base' = base
  BY DEF inputs
<1>2. opts.no_bdd \/ ValidLengths(code)
  BY DEF VerdictInv
<1> QED
  BY <1>1, <1>2 DEF VerdictInv

LEMMA StartBundleInv ==
    ASSUME TypeOK, VerdictInv, StartBundle
    PROVE  VerdictInv'
<1>1. /\ pc = "bundle" /\ off < code.n /\ pc' = "inst" /\ count' = 0 /\ off \in Nat
      /\ UNCHANGED <<opts, code, base, off, failed, addr, starts>>
  BY DEF StartBundle, inputs, TypeOK
<1>2. CASE failed
  <2>1. ~Valid(opts, code, base)
    BY <1>2 DEF VerdictInv
  <2> QED
    BY <1>1, <1>2, <2>1, StaysFailed DEF inputs
<1>3. CASE ~failed
  <2>1. Covered /\ addr = base + off /\ (opts.no_bdd \/ ValidLengths(code))
    BY <1>1, <1>3 DEF VerdictInv
  <2>2. Front' = Front /\ At' = off
    BY <1>1 DEF Front, At
  <2>3. Covered'
    BY <1>1, <2>1, <2>2 DEF Covered, NextUnit, Offset
  <2> QED
    BY <1>1, <1>3, <2>1, <2>2, <2>3 DEF VerdictInv
<1> QED
  BY <1>2, <1>3

\* What is reported -- an unknown instruction, a unit out of order, a unit that spans
\* bundles -- makes the code invalid.
LEMMA ReportedInvalid ==
    ASSUME TypeOK, VerdictInv, InBundle,
           ~UnitOK(opts, code, At, addr) \/ count + Unit(opts, code, At, addr).size > BundleSize
    PROVE  ~Valid(opts, code, base)
<1>1. failed => ~Valid(opts, code, base)
  BY DEF VerdictInv
<1> QED
  BY <1>1, TurnedDown

LEMMA UnknownInstInv ==
    ASSUME TypeOK, VerdictInv, UnknownInst
    PROVE  VerdictInv'
<1>1. /\ InBundle /\ pc = "inst" /\ failed' /\ pc' \in {"bundle", "fail"} /\ UNCHANGED inputs
      /\ ~UnitOK(opts, code, At, addr)
  BY DEF UnknownInst, InBundle, verrmin, NextBundle, UnitOK
<1>2. ~Valid(opts, code, base)
  BY <1>1, ReportedInvalid
<1> QED
  BY <1>1, <1>2, StaysFailed

LEMMA UnitSpansInv ==
    ASSUME TypeOK, VerdictInv, UnitSpans
    PROVE  VerdictInv'
<1>1. /\ InBundle /\ pc = "inst" /\ failed' /\ pc' = "fail" /\ UNCHANGED inputs
      /\ count + Unit(opts, code, At, addr).size > BundleSize
  BY DEF UnitSpans, InBundle, verrmin
<1>2. ~Valid(opts, code, base)
  BY <1>1, ReportedInvalid
<1> QED
  BY <1>1, <1>2, StaysFailed

\* A unit in order is one that every way to take the code apart has, and the pass comes to
\* where the next one has to be.
LEMMA CheckUnitInv ==
    ASSUME TypeOK, VerdictInv, CheckUnit
    PROVE  VerdictInv'
<1> DEFINE size == Unit(opts, code, At, addr).size
<1>1. /\ InBundle /\ pc = "inst" /\ pc' = "inst"
      /\ count + size <= BundleSize
      /\ addr' = addr + size /\ count' = count + size
      /\ starts' = starts \cup {At}
      /\ UNCHANGED <<opts, code, base, off>>
      /\ (UnitOK(opts, code, At, addr) => failed' = failed)
      /\ (~UnitOK(opts, code, At, addr) => failed' = TRUE)
  BY DEF CheckUnit, InBundle, verrmin, inputs
<1>2. CASE failed \/ ~UnitOK(opts, code, At, addr)
  <2>1. ~Valid(opts, code, base)
    BY <1>1, <1>2, ReportedInvalid DEF VerdictInv
  <2>2. failed'
    BY <1>1, <1>2
  <2> QED
    BY <1>1, <2>1, <2>2, StaysFailed DEF inputs
<1>3. CASE ~failed /\ UnitOK(opts, code, At, addr)
  <2>1. /\ At = off + count /\ off \in Nat /\ off % BundleSize = 0 /\ base \in Nat
        /\ count \in 0..(BundleSize - 1) /\ At \in 0..(code.n - 1) /\ code.n \in Nat
    BY <1>1, InputsTyped, BundleAssumption DEF InBundle, At, TypeOK
  <2>2. /\ Covered /\ addr = base + At /\ Front = At
        /\ (opts.no_bdd \/ ValidLengths(code))
    BY <1>1, <1>3, <2>1 DEF VerdictInv, Front
  <2>3. size \in Nat \ {0}
    BY <2>1, InputsTyped, UnitTyped DEF TypeOK
  <2>4. NextUnit(At) = At + size
    BY <2>2 DEF NextUnit
  <2>5. Front' = At + size /\ At' = At + size
    BY <1>1, <2>1, <2>3 DEF Front, At
  <2>6. At \in GoodUnits(opts, code, base)
    <3>1. (off + count) % BundleSize = count
      BY <2>1, OffsetInBundle
    <3>2. At % BundleSize = count
      BY <2>1, <3>1
    <3>3. UnitOK(opts, code, At, base + At)
      BY <1>3, <2>2
    <3>4. (At % BundleSize) + Unit(opts, code, At, base + At).size <= BundleSize
      BY <1>1, <2>2, <3>2
    <3> QED
      BY <2>1, <3>3, <3>4 DEF GoodUnits
  <2>7. starts' \subseteq GoodUnits(opts, code, base)
    BY <1>1, <2>2, <2>6 DEF Covered
  <2>8. \A p \in starts' :
          NextUnit(p) < code.n => NextUnit(p) \in starts' \/ NextUnit(p) = At + size
    BY <1>1, <2>2, <2>4 DEF Covered
  <2>9. \A p \in Offset : p % BundleSize = 0 /\ p < At + size => p \in starts'
    <3> SUFFICES ASSUME NEW p \in Offset, p % BundleSize = 0, p < At + size, p >= At
                 PROVE  p = At
      BY <1>1, <2>1, <2>2 DEF Covered, Offset
    <3>1. p \in Nat
      BY <2>1 DEF Offset
    <3>2. off <= p /\ p < off + BundleSize
      BY <1>1, <2>1, <2>3, <3>1, BundleAssumption
    <3>3. p = off
      BY <2>1, <3>1, <3>2, OneStartPerBundle
    <3> QED
      BY <2>1, <3>1, <3>3, BundleAssumption
  <2>10. \A S \in SUBSET GoodUnits(opts, code, base) :
           TakesApart(opts, code, base, S) =>
             starts' \subseteq S /\ (At + size < code.n => At + size \in S)
    <3> SUFFICES ASSUME NEW S \in SUBSET GoodUnits(opts, code, base),
                        TakesApart(opts, code, base, S)
                 PROVE  starts' \subseteq S /\ (At + size < code.n => At + size \in S)
      OBVIOUS
    <3>1. starts \subseteq S /\ At \in S
      BY <2>1, <2>2 DEF Covered
    <3>2. NextUnit(At) < code.n => NextUnit(At) \in S
      BY <3>1 DEF TakesApart, NextUnit
    <3> QED
      BY <1>1, <2>4, <3>1, <3>2
  <2> HIDE DEF size
  <2>11. Covered'
    BY <1>1, <2>5, <2>7, <2>8, <2>9, <2>10 DEF Covered, NextUnit, Offset
  <2>12. addr' = base + At'
    BY <1>1, <2>1, <2>2, <2>3, <2>5
  <2> QED
    BY <1>1, <1>3, <2>2, <2>11, <2>12 DEF VerdictInv
<1> QED
  BY <1>2, <1>3

\* Units that fill their bundle leave the pass at the start of the next one; in the last
\* bundle the pass may stop short, at the end of the code.
LEMMA BundleDoneInv ==
    ASSUME TypeOK, VerdictInv, BundleDone
    PROVE  VerdictInv'
<1>1. /\ pc = "inst" /\ ~(count < BundleSize /\ off + count < code.n)
      /\ off' = off + BundleSize
      /\ pc' = IF failed' /\ ~opts.err THEN "fail" ELSE "bundle"
      /\ UNCHANGED <<opts, code, base, failed, addr, starts>>
  BY DEF BundleDone, InBundle, NextBundle, inputs
<1>2. CASE failed
  <2>1. ~Valid(opts, code, base)
    BY <1>2 DEF VerdictInv
  <2> QED
    BY <1>1, <1>2, <2>1, StaysFailed DEF inputs
<1>3. CASE ~failed
  <2>1. off \in Nat /\ count \in 0..BundleSize /\ code.n \in Nat /\ base \in Nat
    BY InputsTyped DEF TypeOK
  <2>2. /\ pc' = "bundle" /\ Covered /\ addr = base + At /\ At = off + count /\ Front = At
        /\ (opts.no_bdd \/ ValidLengths(code))
    BY <1>1, <1>3 DEF VerdictInv, At, Front
  <2>3. Front' = off + BundleSize
    BY <1>1, <2>2 DEF Front
  <2>4. CASE count = BundleSize
    <3>1. Front' = Front
      BY <2>2, <2>3, <2>4
    <3>2. Covered'
      BY <1>1, <2>2, <3>1 DEF Covered, NextUnit, Offset
    <3>3. addr' = base + off'
      BY <1>1, <2>2, <2>4
    <3> QED
      BY <1>1, <1>3, <2>2, <3>2, <3>3 DEF VerdictInv
  <2>5. CASE count # BundleSize
    <3>1. At >= code.n /\ Front' >= code.n
      BY <1>1, <2>1, <2>2, <2>3, <2>5, BundleAssumption
    <3>2. Front' \in Nat /\ At \in Nat
      BY <2>1, <2>2, <2>3, BundleAssumption
    <3>3. \A p \in starts : NextUnit(p) < code.n => NextUnit(p) \in starts
      BY <2>1, <2>2, <3>1, <3>2 DEF Covered
    <3>4. \A p \in Offset : p % BundleSize = 0 => p \in starts
      BY <2>1, <2>2, <3>1, <3>2 DEF Covered, Offset
    <3>5. ~(Front' < code.n)
      BY <2>1, <3>1, <3>2
    <3>6. Covered'
      BY <1>1, <2>2, <3>3, <3>4, <3>5 DEF Covered, NextUnit, Offset
    <3>7. ~(off' < code.n)
      BY <1>1, <2>3, <3>5
    <3> QED
      BY <1>1, <1>3, <2>2, <3>6, <3>7 DEF VerdictInv
  <2> QED
    BY <2>4, <2>5
<1> QED
  BY <1>2, <1>3

\* At the end of the code the units found take it apart.
LEMMA FinishInv ==
    ASSUME TypeOK, VerdictInv, Finish
    PROVE  VerdictInv'
<1>1. /\ pc = "bundle" /\ off >= code.n /\ off \in Nat /\ code.n \in Nat
      /\ pc' \in {"pass", "assert", "fail"} /\ (pc' = "fail" <=> failed)
      /\ UNCHANGED <<opts, code, base, failed, starts>>
  BY InputsTyped DEF Finish, inputs, TypeOK
<1>2. CASE failed
  <2>1. ~Valid(opts, code, base)
    BY <1>2 DEF VerdictInv
  <2> QED
    BY <1>1, <1>2, <2>1, StaysFailed DEF inputs
<1>3. CASE ~failed
  <2>1. Covered /\ Front = off /\ (opts.no_bdd \/ ValidLengths(code))
    BY <1>1, <1>3 DEF VerdictInv, Front
  <2>2. \A p \in starts : NextUnit(p) < code.n => NextUnit(p) \in starts
    BY <1>1, <2>1 DEF Covered
  <2>3. \A p \in Offset : p % BundleSize = 0 => p \in starts
    BY <1>1, <2>1 DEF Covered, Offset
  <2>4. TakesApart(opts, code, base, starts)
    BY <2>2, <2>3 DEF TakesApart, NextUnit, Offset
  <2>5. starts \subseteq GoodUnits(opts, code, base)
    BY <2>1 DEF Covered
  <2> QED
    BY <1>1, <1>3, <2>1, <2>4, <2>5 DEF VerdictInv
<1> QED
  BY <1>2, <1>3

\* The invariant the verdict rests on: up to where the passes have come they have found
\* what every way of taking the code apart has, or have failed where there is none.
THEOREM VerdictInvariant == Spec => [](TypeOK /\ VerdictInv)
<1>1. TypeOK /\ VerdictInv /\ [Next]_vars => VerdictInv'
  <2> SUFFICES ASSUME TypeOK, VerdictInv, [Next]_vars PROVE VerdictInv'
    OBVIOUS
  <2>1. CASE UNCHANGED vars
    BY <2>1 DEF vars, VerdictInv, Covered, CoveredLengths, Front, NextUnit, At, Offset
  <2> QED
    BY <2>1, BddStepInv, BddUnknownInv, BddDoneInv, StartBundleInv, UnknownInstInv,
       CheckUnitInv, UnitSpansInv, BundleDoneInv, FinishInv DEF Next
<1>2. Spec => []TypeOK
  BY TypeCorrect
<1> QED
  BY <1>1, <1>2, VerdictInvInitially, PTL DEF Spec

-----------------------------------------------------------------------------
(* What follows from the invariant. *)

LEMMA InvGivesVerdict == TypeOK /\ VerdictInv => VerdictExact
<1> SUFFICES ASSUME VerdictInv, Done
             PROVE  pc \in {"pass", "assert"} <=> Valid(opts, code, base)
  BY DEF VerdictExact
<1>1. CASE pc = "fail"
  BY <1>1 DEF VerdictInv
<1>2. CASE pc \in {"pass", "assert"}
  <2>1. ValidUnits(opts, code, base)
    BY <1>2 DEF VerdictInv, ValidUnits
  <2> QED
    BY <1>2, <2>1 DEF VerdictInv, Valid
<1> QED
  BY <1>1, <1>2 DEF Done

\* The verdict is exact: when lfiv_verify_x64 returns, or stops at its assertion, it has
\* accepted the code exactly if there is a way to take it apart into units in order.
THEOREM VerdictCorrect == Spec => []VerdictExact
  BY VerdictInvariant, InvGivesVerdict, PTL

\* Until something has failed the address the checks go by is that of the instruction.
THEOREM AddressCorrect == Spec => []AddrTracks
<1>1. VerdictInv => AddrTracks
  BY DEF VerdictInv, AddrTracks
<1> QED
  BY <1>1, VerdictInvariant, PTL

\* The passes implement VerdictSpec: they answer once, with the validity of the code; a
\* process that its assertion ends has given no answer.
THEOREM ImplementsVerdictSafely == Spec => Verdict!Spec
<1>1. Init => Verdict!Init
  BY DEF Init, Verdict!Init
<1>2. VerdictExact' /\ [Next]_vars => [Verdict!Decide]_(Verdict!vars)
  <2> SUFFICES ASSUME VerdictExact', [Next]_vars PROVE [Verdict!Decide]_(Verdict!vars)
    OBVIOUS
  <2>1. opts' = opts /\ code' = code /\ base' = base
    BY DEF Next, vars, inputs, BddStep, BddUnknown, BddDone, StartBundle, UnknownInst,
           CheckUnit, UnitSpans, BundleDone, Finish
  <2>2. pc \in {"pass", "fail"} => pc' = pc
    BY DEF Next, vars, BddStep, BddUnknown, BddDone, StartBundle, UnknownInst, CheckUnit,
           UnitSpans, BundleDone, Finish, InBundle
  <2>3. /\ [opts |-> opts, code |-> code, base |-> base]' = [opts |-> opts, code |-> code, base |-> base]
        /\ Valid(opts, code, base)' <=> ValidCall([opts |-> opts, code |-> code, base |-> base])
    BY <2>1 DEF ValidCall
  <2>4. CASE pc \in {"pass", "fail"}
    BY <2>2, <2>3, <2>4 DEF Verdict!vars
  <2>5. CASE pc \notin {"pass", "fail"} /\ pc' \notin {"pass", "fail"}
    BY <2>3, <2>5 DEF Verdict!vars
  <2>6. CASE pc \notin {"pass", "fail"} /\ pc' \in {"pass", "fail"}
    <3>1. pc' = "pass" <=> ValidCall([opts |-> opts, code |-> code, base |-> base])
      BY <2>3, <2>6 DEF VerdictExact, Done
    <3> QED
      BY <2>3, <2>6, <3>1 DEF Verdict!Decide
  <2> QED
    BY <2>4, <2>5, <2>6
<1> QED
  BY <1>1, <1>2, VerdictCorrect, PTL DEF Spec, Verdict!Spec

-----------------------------------------------------------------------------
(* Where control may arrive. *)

\* Code loaded at a bundle boundary has its bundles where memory has them.
LEMMA SameBundles ==
    ASSUME NEW b \in Nat, b % BundleSize = 0, NEW q \in Nat, (b + q) % BundleSize = 0
    PROVE  q % BundleSize = 0
<1> DEFINE k == b \div BundleSize  d == q \div BundleSize  r == q % BundleSize
<1>1. k \in Nat /\ b = BundleSize * k
  BY DivMod, BundleAssumption
<1>2. d \in Nat /\ r \in 0..(BundleSize - 1) /\ q = BundleSize * d + r
  BY DivMod
<1> HIDE DEF k, d, r
<1>3. b + q = BundleSize * (k + d) + r
  BY <1>1, <1>2, BundleAssumption
<1>4. (BundleSize * (k + d) + r) % BundleSize = r
  BY <1>1, <1>2, ModUnique
<1> QED
  BY <1>3, <1>4 DEF r

\* A macro-instruction that begins by loading r11 with an address is a runtime call.
LEMMA OnlyRtcallLoadsR11 ==
    ASSUME NEW o, NEW c, IsCode(c), NEW p \in 0..(c.n - 1), NEW a,
           macroinst(o, c, p, a).size > 0, c.fd[p].type = "LEA", c.fd[p].ops[0].reg = R11
    PROVE  macroinst(o, c, p, a) = macroinst_rtcall(c, p, a)
<1> DEFINE tried == <<macroinst_load(o, c, p), macroinst_jmp(o, c, p),
                      macroinst_call(o, c, p, a), macroinst_modsp(c, p),
                      macroinst_stos(c, p), macroinst_movs(c, p),
                      macroinst_cmps(c, p), macroinst_rtcall(c, p, a)>>
           found == {k \in 1..8 : tried[k].size > 0}
<1>1. fd_decode(c, p).type = "LEA" /\ fd_decode(c, p).ops[0].reg = R11
  BY DEF fd_decode, IsCode
<1>2. macroinst_load(o, c, p) = NoMacro
  BY <1>1 DEF macroinst_load, Truncates
<1>3. macroinst_jmp(o, c, p) = NoMacro
  BY <1>1 DEF macroinst_jmp, MasksReg
<1>4. macroinst_call(o, c, p, a) = NoMacro
  BY <1>1 DEF macroinst_call, MasksReg
<1>5. macroinst_modsp(c, p) = NoMacro
  BY <1>1 DEF macroinst_modsp, IsReg, SP, R11
<1>6. macroinst_stos(c, p) = NoMacro
  BY <1>1 DEF macroinst_stos, Rebases, Truncates
<1>7. macroinst_movs(c, p) = NoMacro /\ macroinst_cmps(c, p) = NoMacro
  BY <1>1 DEF macroinst_movs, macroinst_cmps, TwoPointers, Rebases, Truncates
<1>8. \A k \in 1..7 : tried[k] = NoMacro
  BY <1>2, <1>3, <1>4, <1>5, <1>6, <1>7
<1>9. ~(NoMacro.size > 0)
  BY DEF NoMacro
<1>10. found \subseteq {8}
  BY <1>8, <1>9
<1>11. macroinst(o, c, p, a) = IF found = {} THEN NoMacro
                               ELSE tried[CHOOSE k \in found : \A j \in found : k <= j]
  BY DEF macroinst
<1>12. found # {}
  BY <1>9, <1>11
<1>13. found = {8}
  BY <1>10, <1>12
<1>14. (CHOOSE k \in found : \A j \in found : k <= j) = 8
  BY <1>13
<1>15. tried[8] = macroinst_rtcall(c, p, a)
  OBVIOUS
<1> QED
  BY <1>11, <1>12, <1>14, <1>15

LEMMA InvGivesArrivals == TypeOK /\ VerdictInv => ArrivalsAreUnits
<1> SUFFICES ASSUME TypeOK, VerdictInv, pc = "pass", base % BundleSize = 0
             PROVE  /\ \A p \in Offset : p % BundleSize = 0 => p \in starts
                    /\ \A p \in starts : Arrivals(p) \cap Offset \subseteq starts
  BY DEF ArrivalsAreUnits
<1>1. IsCode(code) /\ base \in Nat /\ code.n \in Nat
  BY InputsTyped
<1>2. starts \subseteq GoodUnits(opts, code, base) /\ TakesApart(opts, code, base, starts)
  BY DEF VerdictInv
<1>3. \A p \in Offset : p % BundleSize = 0 => p \in starts
  BY <1>2 DEF TakesApart, Offset
<1>4. ASSUME NEW p \in starts, NEW q \in Arrivals(p), q \in Offset
      PROVE  q \in starts
  <2> DEFINE d == code.fd[p]
  <2>1. p \in 0..(code.n - 1) /\ UnitOK(opts, code, p, base + p)
    BY <1>2 DEF GoodUnits
  <2>2. d \in Inst /\ p \in Nat /\ q \in Nat /\ q < code.n
    BY <1>1, <1>4, <2>1 DEF IsCode, Offset
  <2>3. d.size \in Nat /\ d.ops[1].val \in Int /\ d.ops[0].val \in Int
    BY <2>2 DEF Inst, Op, OpIndex
  <2>4. CASE q = p + Unit(opts, code, p, base + p).size
    BY <1>2, <2>2, <2>4 DEF TakesApart
  <2>5. CASE q = Target(d, base + p) - base
             /\ ~IsMacro(opts, code, p, base + p) /\ Direct(d)
    <3>1. Target(d, base + p) % BundleSize = 0
      BY <2>1, <2>5 DEF UnitOK, Checks, chkbranch, Direct
    <3>2. Target(d, base + p) = base + q
      BY <1>1, <2>2, <2>3, <2>5 DEF Target
    <3>3. q % BundleSize = 0
      BY <1>1, <2>2, <3>1, <3>2, SameBundles
    <3> QED
      BY <1>3, <1>4, <3>3
  <2>6. CASE q = p + d.size + d.ops[1].val /\ IsMacro(opts, code, p, base + p)
             /\ d.type = "LEA" /\ d.ops[0].reg = R11
    <3> DEFINE jmp == fd_decode(code, Second(code, p))
    <3>1. macroinst(opts, code, p, base + p) = macroinst_rtcall(code, p, base + p)
          /\ macroinst_rtcall(code, p, base + p).size > 0
      BY <1>1, <2>1, <2>6, OnlyRtcallLoadsR11 DEF IsMacro
    <3>2. macroinst_rtcall(code, p, base + p) # NoMacro
      BY <3>1 DEF NoMacro
    <3>3. fd_decode(code, p) = d
      BY <2>2, <1>1, <2>1 DEF fd_decode
    <3>4. /\ macroinst_rtcall(code, p, base + p).size = Third(code, p) - p
          /\ \/ d.ops[1].val = jmp.size
             \/ (base + p + d.size + d.ops[1].val) % BundleSize = 0
      BY <3>2, <3>3 DEF macroinst_rtcall
    <3>5. CASE d.ops[1].val = jmp.size
      <4>1. Second(code, p) = p + d.size
        BY <3>3 DEF Second
      <4>2. Third(code, p) = p + d.size + jmp.size
        BY <4>1 DEF Second, Third
      <4>3. Unit(opts, code, p, base + p).size = Third(code, p) - p
        BY <3>1, <3>4 DEF Unit
      <4>4. q = p + Unit(opts, code, p, base + p).size
        BY <2>2, <2>3, <2>6, <3>5, <4>2, <4>3
      <4> QED
        BY <2>4, <4>4
    <3>6. CASE (base + p + d.size + d.ops[1].val) % BundleSize = 0
      <4>1. base + p + d.size + d.ops[1].val = base + q
        BY <1>1, <2>2, <2>3, <2>6
      <4>2. q % BundleSize = 0
        BY <1>1, <2>2, <3>6, <4>1, SameBundles
      <4> QED
        BY <1>3, <1>4, <4>2
    <3> QED
      BY <3>4, <3>5, <3>6
  <2> QED
    BY <1>4, <2>4, <2>5, <2>6 DEF Arrivals
<1> QED
  BY <1>3, <1>4

\* In accepted code loaded at a bundle boundary control arrives at checked units only: at
\* the next unit, a branch target, a return address of a runtime call, or a bundle start.
THEOREM ArrivalsCorrect == Spec => []ArrivalsAreUnits
  BY VerdictInvariant, InvGivesArrivals, PTL

-----------------------------------------------------------------------------
(* The two sandboxes. *)

StoresOnly(o) == [o EXCEPT !.box = "STORES"]

\* The recognisers look at no option but the one that reserves the context register.
LEMMA SameMacros ==
    ASSUME NEW o \in Options, NEW c, NEW p, NEW a
    PROVE  macroinst(StoresOnly(o), c, p, a) = macroinst(o, c, p, a)
<1>1. StoresOnly(o).ctxreg = o.ctxreg
  BY DEF StoresOnly, Options
<1>2. \A d, k : reserved(StoresOnly(o), d, k) <=> reserved(o, d, k)
  BY <1>1 DEF reserved
<1>3. \A d : MasksReg(StoresOnly(o), d) <=> MasksReg(o, d)
  BY <1>2 DEF MasksReg
<1>4. macroinst_load(StoresOnly(o), c, p) = macroinst_load(o, c, p)
  BY <1>2 DEF macroinst_load
<1>5. macroinst_jmp(StoresOnly(o), c, p) = macroinst_jmp(o, c, p)
  BY <1>3 DEF macroinst_jmp
<1>6. macroinst_call(StoresOnly(o), c, p, a) = macroinst_call(o, c, p, a)
  BY <1>3 DEF macroinst_call
<1> QED
  BY <1>4, <1>5, <1>6 DEF macroinst

LEMMA ChecksMonotone ==
    ASSUME NEW o \in Options, NEW d, NEW a, Checks(o, d, a)
    PROVE  Checks(StoresOnly(o), d, a)
<1>1. StoresOnly(o).ctxreg = o.ctxreg /\ StoresOnly(o).box = "STORES"
  BY DEF StoresOnly, Options
<1>2. \A k : reserved(StoresOnly(o), d, k) <=> reserved(o, d, k)
  BY <1>1 DEF reserved
<1>3. \A k : okmem(StoresOnly(o), d, k) <=> okmem(o, d, k)
  BY <1>1 DEF okmem
<1>4. chkmod(StoresOnly(o), d)
  BY <1>2 DEF Checks, chkmod
<1>5. chkmem(StoresOnly(o), d)
  BY <1>1, <1>3 DEF Checks, chkmem
<1> QED
  BY <1>4, <1>5 DEF Checks

LEMMA ValidMonotone ==
    ASSUME NEW o \in Options, NEW c, NEW b, Valid(o, c, b)
    PROVE  Valid(StoresOnly(o), c, b)
<1>1. \A p, a : Unit(StoresOnly(o), c, p, a) = Unit(o, c, p, a)
  BY SameMacros DEF Unit
<1>2. \A p, a : UnitOK(o, c, p, a) => UnitOK(StoresOnly(o), c, p, a)
  BY SameMacros, ChecksMonotone DEF UnitOK, IsMacro
<1>3. GoodUnits(o, c, b) \subseteq GoodUnits(StoresOnly(o), c, b)
  BY <1>1, <1>2 DEF GoodUnits
<1>4. \A S : TakesApart(o, c, b, S) => TakesApart(StoresOnly(o), c, b, S)
  BY <1>1 DEF TakesApart
<1>5. PICK S \in SUBSET GoodUnits(o, c, b) : TakesApart(o, c, b, S)
  BY DEF Valid, ValidUnits
<1>6. S \in SUBSET GoodUnits(StoresOnly(o), c, b) /\ TakesApart(StoresOnly(o), c, b, S)
  BY <1>3, <1>4, <1>5
<1>7. ValidUnits(StoresOnly(o), c, b)
  BY <1>6 DEF ValidUnits
<1>8. StoresOnly(o).no_bdd = o.no_bdd
  BY DEF StoresOnly, Options
<1> QED
  BY <1>7, <1>8 DEF Valid

\* Code accepted for the full sandbox is valid for the stores-only one.
THEOREM BoxIsMonotone == Spec => []BoxMonotone
<1>1. TypeOK /\ VerdictExact => BoxMonotone
  <2> SUFFICES ASSUME TypeOK, VerdictExact, pc = "pass"
               PROVE  Valid(StoresOnly(opts), code, base)
    BY DEF BoxMonotone, StoresOnly
  <2>1. Valid(opts, code, base)
    BY DEF VerdictExact, Done
  <2> QED
    BY <2>1, InputsTyped, ValidMonotone
<1> QED
  BY <1>1, TypeCorrect, VerdictCorrect, PTL

-----------------------------------------------------------------------------
(* Code cut in two. *)

LEMMA ModAdds ==
    ASSUME NEW m \in Nat, m % BundleSize = 0, NEW p \in Nat
    PROVE  (p + m) % BundleSize = p % BundleSize
<1> DEFINE k == m \div BundleSize  d == p \div BundleSize  r == p % BundleSize
<1>1. k \in Nat /\ m = BundleSize * k
  BY DivMod, BundleAssumption
<1>2. d \in Nat /\ r \in 0..(BundleSize - 1) /\ p = BundleSize * d + r
  BY DivMod
<1> HIDE DEF k, d, r
<1>3. p + m = BundleSize * (d + k) + r
  BY <1>1, <1>2, BundleAssumption
<1>4. (BundleSize * (d + k) + r) % BundleSize = r
  BY <1>1, <1>2, ModUnique
<1> QED
  BY <1>3, <1>4 DEF r

\* What starts before a bundle boundary and stays in its bundle ends before the boundary.
LEMMA EndsBefore ==
    ASSUME NEW m \in Nat, m % BundleSize = 0, NEW p \in Nat, p < m, NEW s \in Nat,
           (p % BundleSize) + s <= BundleSize
    PROVE  p + s <= m
<1> DEFINE k == m \div BundleSize  d == p \div BundleSize  r == p % BundleSize
<1>1. k \in Nat /\ m = BundleSize * k
  BY DivMod, BundleAssumption
<1>2. d \in Nat /\ r \in 0..(BundleSize - 1) /\ p = BundleSize * d + r /\ r + s <= BundleSize
  BY DivMod
<1> HIDE DEF k, d, r
<1>3. BundleSize * d < BundleSize * k
  BY <1>1, <1>2, BundleAssumption
<1>4. d < k
  BY <1>1, <1>2, <1>3, BundleAssumption
<1>5. BundleSize * (d + 1) <= BundleSize * k
  BY <1>1, <1>2, <1>4, BundleAssumption
<1>6. BundleSize * (d + 1) = BundleSize * d + BundleSize
  BY <1>2, BundleAssumption
<1>7. p + s <= BundleSize * d + BundleSize
  BY <1>2, BundleAssumption
<1> QED
  BY <1>1, <1>2, <1>5, <1>6, <1>7, BundleAssumption

LEMMA AfterIsLater ==
    ASSUME NEW c, IsCode(c), NEW m \in 0..(c.n - 1)
    PROVE  Later(c, After(c, m), m) /\ Advances(After(c, m))
<1>1. c.n \in Nat /\ m \in Nat /\ m < c.n
  BY DEF IsCode
<1>2. Later(c, After(c, m), m)
  <2> SUFFICES ASSUME NEW q \in Nat PROVE fd_decode(After(c, m), q) = fd_decode(c, q + m)
    BY DEF Later
  <2>1. q < c.n - m => After(c, m).fd[q] = c.fd[q + m]
    BY <1>1 DEF After
  <2>2. After(c, m).n = c.n - m
    BY DEF After
  <2>3. q < c.n - m <=> q + m < c.n
    BY <1>1
  <2> QED
    BY <2>1, <2>2, <2>3 DEF fd_decode
<1>3. \A q \in Nat : q + m \in Nat
  BY <1>1
<1>4. Advances(After(c, m))
  BY <1>2, <1>3, CodeAdvances DEF Advances, Later
<1> QED
  BY <1>2, <1>4

LEMMA BeforeIsSooner ==
    ASSUME NEW c, IsCode(c), NEW m \in 0..(c.n - 1)
    PROVE  Sooner(c, Before(c, m), m) /\ Advances(Before(c, m))
<1>1. c.n \in Nat /\ m \in Nat /\ m < c.n
  BY DEF IsCode
<1>2. Sooner(c, Before(c, m), m)
  <2> SUFFICES ASSUME NEW q \in Nat
               PROVE  fd_decode(Before(c, m), q)
                        = IF Second(c, q) <= m THEN fd_decode(c, q) ELSE Undecodable
    BY DEF Sooner
  <2>1. q < m => Before(c, m).fd[q] = IF Second(c, q) <= m THEN c.fd[q] ELSE Undecodable
    BY <1>1 DEF Before
  <2>2. Before(c, m).n = m
    BY DEF Before
  <2>3. Second(c, q) \in Nat /\ Second(c, q) > q
    BY CodeAdvances, PartsInOrder
  <2>4. q < m => fd_decode(c, q) = c.fd[q]
    BY <1>1 DEF fd_decode
  <2>5. ~(q < m) => ~(Second(c, q) <= m)
    BY <1>1, <2>3
  <2> QED
    BY <2>1, <2>2, <2>4, <2>5 DEF fd_decode
<1>3. Advances(Before(c, m))
  BY <1>2, CodeAdvances DEF Advances, Sooner, Undecodable
<1> QED
  BY <1>2, <1>3

\* A unit covers the instruction it starts with.
LEMMA FirstWithin ==
    ASSUME NEW o, NEW c, IsCode(c), NEW p \in 0..(c.n - 1), NEW a \in Nat
    PROVE  Second(c, p) <= p + Unit(o, c, p, a).size
<1>1. p \in Nat /\ fd_decode(c, p) = c.fd[p] /\ Advances(c)
  <2>1. c.n \in Nat
    BY DEF IsCode
  <2>2. p \in Nat /\ p < c.n
    BY <2>1
  <2> QED
    BY <2>2, CodeAdvances DEF fd_decode
<1>2. CASE macroinst(o, c, p, a).size > 0
  <2>1. PICK k \in 1..8 : macroinst(o, c, p, a) = Group(k, c, p)
    BY <1>1, <1>2, MacroHasShape
  <2>2. p \in PartsOf(k, c, p)
    BY DEF PartsOf
  <2>3. Second(c, p) <= p + Group(k, c, p).size
    BY <1>1, <2>2, PartsWithin
  <2> QED
    BY <1>2, <2>1, <2>3 DEF Unit
<1>3. CASE ~(macroinst(o, c, p, a).size > 0)
  <2>1. Unit(o, c, p, a).size = c.fd[p].size
    BY <1>3 DEF Unit
  <2>2. Second(c, p) \in Nat /\ Second(c, p) = p + c.fd[p].size
    BY <1>1, PartsInOrder DEF Second
  <2> QED
    BY <2>1, <2>2
<1> QED
  BY <1>2, <1>3

LEMMA AfterValid ==
    ASSUME NEW o, NEW c, IsCode(c), NEW b \in Nat, NEW S \in SUBSET GoodUnits(o, c, b),
           TakesApart(o, c, b, S), NEW m \in 0..(c.n - 1), m % BundleSize = 0
    PROVE  ValidUnits(o, After(c, m), b + m)
<1> DEFINE d == After(c, m)  T == {p \in 0..(d.n - 1) : p + m \in S}
<1>1. c.n \in Nat /\ m \in Nat /\ m < c.n /\ d.n = c.n - m
  BY DEF IsCode, After
<1>2. \A p \in 0..(d.n - 1) : p \in Nat /\ p + m \in 0..(c.n - 1) /\ d.fd[p] = c.fd[p + m]
  BY <1>1 DEF After
<1>3. Later(c, d, m) /\ Advances(d) /\ Advances(c)
  BY AfterIsLater, CodeAdvances
<1> HIDE DEF d
<1>4. \A p \in 0..(d.n - 1) :
        /\ macroinst(o, d, p, (b + m) + p) = macroinst(o, c, p + m, b + (p + m))
        /\ (b + m) + p = b + (p + m)
  <2> SUFFICES ASSUME NEW p \in 0..(d.n - 1)
               PROVE  /\ macroinst(o, d, p, (b + m) + p) = macroinst(o, c, p + m, b + (p + m))
                      /\ (b + m) + p = b + (p + m)
    OBVIOUS
  <2>1. (b + m) + p = b + (p + m) /\ p \in Nat
    BY <1>1, <1>2
  <2>2. macroinst(o, d, p, b + (p + m)) = macroinst(o, c, p + m, b + (p + m))
    BY <1>1, <1>3, <2>1, MacroLater
  <2> QED
    BY <2>1, <2>2
<1>5. \A p \in 0..(d.n - 1) :
        /\ Unit(o, d, p, (b + m) + p) = Unit(o, c, p + m, b + (p + m))
        /\ UnitOK(o, d, p, (b + m) + p) <=> UnitOK(o, c, p + m, b + (p + m))
  BY <1>2, <1>4 DEF Unit, UnitOK, IsMacro
<1>6. T \subseteq GoodUnits(o, d, b + m)
  <2> SUFFICES ASSUME NEW p \in T
               PROVE  /\ UnitOK(o, d, p, (b + m) + p)
                      /\ (p % BundleSize) + Unit(o, d, p, (b + m) + p).size <= BundleSize
    BY DEF GoodUnits
  <2>1. p + m \in GoodUnits(o, c, b) /\ p \in Nat
    BY <1>2
  <2>2. /\ UnitOK(o, c, p + m, b + (p + m))
        /\ ((p + m) % BundleSize) + Unit(o, c, p + m, b + (p + m)).size <= BundleSize
    BY <2>1 DEF GoodUnits
  <2>3. (p + m) % BundleSize = p % BundleSize
    BY <1>1, <2>1, ModAdds
  <2> QED
    BY <1>5, <2>2, <2>3
<1>7. TakesApart(o, d, b + m, T)
  <2>1. ASSUME NEW p \in 0..(d.n - 1), p % BundleSize = 0 PROVE p \in T
    <3>1. (p + m) % BundleSize = 0 /\ p + m \in 0..(c.n - 1)
      BY <1>1, <1>2, <2>1, ModAdds
    <3> QED
      BY <3>1 DEF TakesApart
  <2>2. ASSUME NEW p \in T, p + Unit(o, d, p, (b + m) + p).size < d.n
        PROVE  p + Unit(o, d, p, (b + m) + p).size \in T
    <3> DEFINE s == Unit(o, d, p, (b + m) + p).size
    <3>1. s = Unit(o, c, p + m, b + (p + m)).size /\ p \in Nat /\ p + m \in 0..(c.n - 1)
            /\ p + m \in S
      BY <1>2, <1>5
    <3>2. s \in Nat
      BY <1>1, <3>1, UnitTyped
    <3>3. (p + m) + s < c.n => (p + m) + s \in S
      BY <3>1 DEF TakesApart
    <3> HIDE DEF s
    <3>4. (p + m) + s < c.n /\ (p + s) + m = (p + m) + s /\ p + s \in 0..(d.n - 1)
      BY <1>1, <2>2, <3>1, <3>2 DEF s
    <3> QED
      BY <3>3, <3>4 DEF s
  <2> QED
    BY <2>1, <2>2 DEF TakesApart
<1> QED
  BY <1>6, <1>7 DEF ValidUnits, d

LEMMA BeforeValid ==
    ASSUME NEW o, NEW c, IsCode(c), NEW b \in Nat, NEW S \in SUBSET GoodUnits(o, c, b),
           TakesApart(o, c, b, S), NEW m \in 0..(c.n - 1), m % BundleSize = 0
    PROVE  ValidUnits(o, Before(c, m), b)
<1> DEFINE d == Before(c, m)  T == {p \in S : p < m}
<1>1. c.n \in Nat /\ m \in Nat /\ m < c.n /\ d.n = m
  BY DEF IsCode, Before
<1>2. Sooner(c, d, m) /\ Advances(d) /\ Advances(c)
  BY BeforeIsSooner, CodeAdvances
<1>3. \A p \in T : p \in Nat /\ p \in 0..(c.n - 1) /\ p \in 0..(m - 1) /\ b + p \in Nat
  BY <1>1 DEF GoodUnits
<1>4. \A p \in T : p + Unit(o, c, p, b + p).size <= m
  <2> SUFFICES ASSUME NEW p \in T PROVE p + Unit(o, c, p, b + p).size <= m
    OBVIOUS
  <2>1. (p % BundleSize) + Unit(o, c, p, b + p).size <= BundleSize
    BY DEF GoodUnits
  <2>2. Unit(o, c, p, b + p).size \in Nat
    BY <1>3, UnitTyped
  <2> QED
    BY <1>1, <1>3, <2>1, <2>2, EndsBefore
<1>5. \A p \in T : d.fd[p] = c.fd[p]
  <2> SUFFICES ASSUME NEW p \in T PROVE d.fd[p] = c.fd[p]
    OBVIOUS
  <2>1. Second(c, p) <= p + Unit(o, c, p, b + p).size
    BY <1>3, FirstWithin
  <2>2. Unit(o, c, p, b + p).size \in Nat /\ Second(c, p) \in Nat
    <3>1. Unit(o, c, p, b + p).size \in Nat
      BY <1>3, UnitTyped
    <3>2. Second(c, p) \in Nat
      BY <1>2, <1>3, PartsInOrder
    <3> QED
      BY <3>1, <3>2
  <2>3. Second(c, p) <= m
    BY <1>1, <1>3, <1>4, <2>1, <2>2
  <2> QED
    BY <1>3, <2>3 DEF Before
<1> HIDE DEF d
<1>6. \A p \in T : macroinst(o, d, p, b + p) = macroinst(o, c, p, b + p)
  <2> SUFFICES ASSUME NEW p \in T
               PROVE  macroinst(o, d, p, b + p) = macroinst(o, c, p, b + p)
    OBVIOUS
  <2>1. macroinst(o, c, p, b + p).size > 0 => p + macroinst(o, c, p, b + p).size <= m
    BY <1>4 DEF Unit
  <2>2. p \in Nat /\ m \in Nat
    BY <1>1, <1>3
  <2>3. \A a : (macroinst(o, c, p, a).size > 0 => p + macroinst(o, c, p, a).size <= m) =>
                 macroinst(o, d, p, a) = macroinst(o, c, p, a)
    <3> HIDE DEF T
    <3> QED
      BY <1>2, <2>2, MacroSooner
  <2> QED
    BY <2>1, <2>3
<1>7. \A p \in T : /\ Unit(o, d, p, b + p) = Unit(o, c, p, b + p)
                   /\ UnitOK(o, d, p, b + p) <=> UnitOK(o, c, p, b + p)
  BY <1>5, <1>6 DEF Unit, UnitOK, IsMacro
<1>8. T \subseteq GoodUnits(o, d, b)
  BY <1>1, <1>3, <1>7 DEF GoodUnits
<1>9. TakesApart(o, d, b, T)
  <2>1. ASSUME NEW p \in 0..(d.n - 1), p % BundleSize = 0 PROVE p \in T
    <3>1. p \in 0..(c.n - 1) /\ p < m
      BY <1>1
    <3> QED
      BY <2>1, <3>1 DEF TakesApart
  <2>2. ASSUME NEW p \in T, p + Unit(o, d, p, b + p).size < d.n
        PROVE  p + Unit(o, d, p, b + p).size \in T
    <3>1. /\ Unit(o, d, p, b + p).size = Unit(o, c, p, b + p).size
          /\ Unit(o, c, p, b + p).size \in Nat /\ p \in Nat
      BY <1>3, <1>7, UnitTyped
    <3>2. p + Unit(o, c, p, b + p).size < c.n
      BY <1>1, <2>2, <3>1
    <3>3. p + Unit(o, c, p, b + p).size \in S
      BY <3>2 DEF TakesApart
    <3> QED
      BY <1>1, <2>2, <3>1, <3>3
  <2> QED
    BY <2>1, <2>2 DEF TakesApart
<1> QED
  BY <1>8, <1>9 DEF ValidUnits, d

\* Accepted code, cut between two bundles, is two pieces that take apart as well: the
\* look-ahead of the recognisers never makes the verdict on a bundle depend on later bytes.
THEOREM CutsAreHarmless == Spec => []CutsPass
<1>1. TypeOK /\ VerdictInv => CutsPass
  <2> SUFFICES ASSUME TypeOK, VerdictInv, pc = "pass", NEW m \in Offset, m % BundleSize = 0
               PROVE  /\ ValidUnits(opts, Before(code, m), base)
                      /\ ValidUnits(opts, After(code, m), base + m)
    BY DEF CutsPass
  <2>1. IsCode(code) /\ base \in Nat /\ m \in 0..(code.n - 1)
    BY InputsTyped DEF Offset
  <2>2. /\ starts \in SUBSET GoodUnits(opts, code, base)
        /\ TakesApart(opts, code, base, starts)
    BY DEF VerdictInv
  <2> QED
    BY <2>1, <2>2, BeforeValid, AfterValid
<1> QED
  BY <1>1, VerdictInvariant, PTL

-----------------------------------------------------------------------------
(* Calls. *)

\* In accepted code a call through a register ends its bundle, so that the callee can
\* return to what follows it.
THEOREM CallsCanReturn == Spec => []CallsReturn
<1>1. TypeOK /\ VerdictInv => CallsReturn
  <2> SUFFICES ASSUME TypeOK, VerdictInv, pc = "pass", NEW p \in starts,
                      IsMacro(opts, code, p, base + p),
                      NEW q \in InstStarts(code, p, p + Unit(opts, code, p, base + p).size),
                      fd_decode(code, q).type = "CALL"
               PROVE  (base + (p + Unit(opts, code, p, base + p).size)) % BundleSize = 0
    BY DEF CallsReturn
  <2>1. IsCode(code) /\ base \in Nat /\ p \in 0..(code.n - 1) /\ code.n \in Nat
    BY InputsTyped DEF TypeOK, Offset
  <2>2. p \in Nat /\ Advances(code)
    BY <2>1, CodeAdvances
  <2> DEFINE a == base + p
  <2>3. a \in Nat
    BY <2>1, <2>2
  <2>4. /\ macroinst(opts, code, p, a).size > 0
        /\ Unit(opts, code, p, a) = macroinst(opts, code, p, a)
    BY DEF IsMacro, Unit
  <2>5. q \in InstStarts(code, p, p + macroinst(opts, code, p, a).size)
    BY <2>4
  <2>6. macroinst(opts, code, p, a).size \in Nat
    BY <2>1, <2>3, <2>4, UnitTyped
  <2>7. (base + p) + macroinst(opts, code, p, a).size
          = base + (p + macroinst(opts, code, p, a).size)
    BY <2>1, <2>2, <2>6
  <2> HIDE DEF a
  <2>8. (a + macroinst(opts, code, p, a).size) % BundleSize = 0
    BY <2>2, <2>3, <2>4, <2>5, CallEndsBundle
  <2> QED
    BY <2>4, <2>7, <2>8 DEF a
<1> QED
  BY <1>1, VerdictInvariant, PTL

-----------------------------------------------------------------------------
(* The assertion. *)

\* f leads through k instructions of the lengths the BDD gives, from the start of the code.
Walk(c, f, k) ==
    /\ f \in [0..k -> Nat] /\ f[0] = 0
    /\ \A i \in 0..(k - 1) : f[i] < c.n /\ c.bdd[f[i]] # 0 /\ f[i + 1] = f[i] + c.bdd[f[i]]
    /\ \A i, j \in 0..k : i < j => f[i] < f[j]

\* N numbers the offsets in C as the walk does.
Numbers(c, f, k, C, N) ==
    /\ C \subseteq Nat /\ N \in [Nat -> Nat] /\ CountsAlong(c, C, N)
    /\ \A i \in 0..k : f[i] \in C /\ N[f[i]] = i
    /\ \A q \in C : N[q] \in 0..k /\ f[N[q]] = q

\* A walk to the end of the code counts the instructions fd_decode finds, when the two
\* decoders agree.
LEMMA WalkCounts ==
    ASSUME NEW c, IsCode(c), DecodersAgree(c), NEW k \in Nat, NEW f, Walk(c, f, k), f[k] >= c.n
    PROVE  \E C, N : Numbers(c, f, k, C, N)
<1> DEFINE C == {f[i] : i \in 0..k}
           N == [q \in Nat |-> IF q \in C THEN CHOOSE i \in 0..k : f[i] = q ELSE 0]
<1>1. c.n \in Nat /\ f \in [0..k -> Nat]
  BY DEF IsCode, Walk
<1>2. C \subseteq Nat
  BY <1>1
<1>3. \A q \in C : N[q] \in 0..k /\ f[N[q]] = q
  BY <1>2
<1>4. \A i \in 0..k : f[i] \in C /\ N[f[i]] = i
  <2> SUFFICES ASSUME NEW i \in 0..k PROVE f[i] \in C /\ N[f[i]] = i
    OBVIOUS
  <2>1. f[i] \in C
    OBVIOUS
  <2> DEFINE j == N[f[i]]
  <2>2. j \in 0..k /\ f[j] = f[i]
    BY <1>3, <2>1
  <2> HIDE DEF j, C, N
  <2>3. ~(i < j) /\ ~(j < i)
    BY <1>1, <2>2 DEF Walk
  <2>4. j = i
    BY <2>2, <2>3
  <2> QED
    BY <2>1, <2>4 DEF j
<1>5. N \in [Nat -> Nat]
  <2>1. \A q \in Nat : q \in C => N[q] \in Nat
    BY <1>3
  <2>2. \A q \in Nat : q \notin C => N[q] \in Nat
    OBVIOUS
  <2>3. N = [q \in Nat |-> N[q]]
    OBVIOUS
  <2> HIDE DEF N, C
  <2> QED
    BY <2>1, <2>2, <2>3
<1> HIDE DEF C, N
<1>6. CountsAlong(c, C, N)
  <2> SUFFICES ASSUME NEW q \in C, fd_decode(c, q).type # "INVALID"
               PROVE  Second(c, q) \in C /\ N[Second(c, q)] = N[q] + 1
    BY <1>2, <1>5 DEF CountsAlong
  <2> DEFINE i == N[q]
  <2>1. i \in 0..k /\ f[i] = q /\ q \in Nat
    BY <1>2, <1>3
  <2> HIDE DEF i
  <2>2. q < c.n
    BY DEF fd_decode, Undecodable
  <2>3. i \in 0..(k - 1)
    BY <1>1, <2>1, <2>2
  <2>4. q \in 0..(c.n - 1) /\ fd_decode(c, q) = c.fd[q]
    BY <1>1, <2>1, <2>2 DEF fd_decode
  <2>5. f[i + 1] = q + c.bdd[q]
    BY <2>1, <2>3 DEF Walk
  <2>6. c.bdd[q] = c.fd[q].size
    BY <2>4 DEF DecodersAgree
  <2>7. Second(c, q) = f[i + 1]
    BY <2>4, <2>5, <2>6 DEF Second
  <2>8. i + 1 \in 0..k
    BY <2>3
  <2> QED
    BY <1>4, <2>7, <2>8 DEF i
<1> QED
  BY <1>2, <1>3, <1>4, <1>5, <1>6 DEF Numbers

\* The number of instructions of a unit is what takes the walk past it.
LEMMA UnitSteps ==
    ASSUME NEW c, IsCode(c), DecodersAgree(c), NEW k \in Nat, NEW f, Walk(c, f, k),
           f[k] >= c.n, NEW i \in 0..k, NEW p, f[i] = p, fd_decode(c, p).type # "INVALID",
           NEW o, NEW a
    PROVE  LET unit == Unit(o, c, p, a)
           IN  i + unit.ninstr \in 0..k /\ f[i + unit.ninstr] = p + unit.size
<1>1. \E C, N : Numbers(c, f, k, C, N)
  BY WalkCounts
<1> PICK C, N : Numbers(c, f, k, C, N)
  BY <1>1
<1>2. /\ C \subseteq Nat /\ N \in [Nat -> Nat] /\ CountsAlong(c, C, N)
      /\ \A j \in 0..k : f[j] \in C /\ N[f[j]] = j
      /\ \A q \in C : N[q] \in 0..k /\ f[N[q]] = q
  BY DEF Numbers
<1>3. p \in C /\ N[p] = i /\ p \in Nat
  BY <1>2
<1> DEFINE unit == Unit(o, c, p, a)
<1>4. p + unit.size \in C /\ N[p + unit.size] = i + unit.ninstr
  <2>1. CASE macroinst(o, c, p, a).size > 0
    <3>1. unit = macroinst(o, c, p, a)
      BY <2>1 DEF Unit
    <3>2. Advances(c)
      BY CodeAdvances
    <3>3. GoesOn(C, N, p, macroinst(o, c, p, a))
      BY <1>2, <1>3, <2>1, <3>2, MacroCounts
    <3> QED
      BY <1>3, <3>1, <3>3 DEF GoesOn
  <2>2. CASE ~(macroinst(o, c, p, a).size > 0)
    <3>1. unit = [size |-> c.fd[p].size, ninstr |-> 1]
      BY <2>2 DEF Unit
    <3>2. fd_decode(c, p) = c.fd[p]
      BY DEF fd_decode, Undecodable
    <3>3. Second(c, p) \in C /\ N[Second(c, p)] = N[p] + 1
      BY <1>2, <1>3 DEF CountsAlong
    <3> QED
      BY <1>3, <3>1, <3>2, <3>3 DEF Second
  <2> QED
    BY <2>1, <2>2
<1> HIDE DEF unit
<1>5. N[p + unit.size] \in 0..k /\ f[N[p + unit.size]] = p + unit.size
  BY <1>2, <1>4
<1> QED
  BY <1>4, <1>5 DEF unit

\* How far the second pass has come, beyond the end of the code it does not matter.
Reached(q) == IF pc = "inst" THEN q = At ELSE q = off \/ (q >= code.n /\ off >= code.n)

\* The first pass counts the steps of a walk, the second follows it as long as nothing
\* fails.
CountInv ==
    /\ pc = "bdd" => /\ ninstr = 0 /\ off = 0
                     /\ \E f : Walk(code, f, bdd_ninstr) /\ f[bdd_ninstr] = bdd_count
    /\ ~opts.no_bdd /\ pc \in {"bundle", "inst"} /\ ~failed /\ DecodersAgree(code) =>
         \E f : /\ Walk(code, f, bdd_ninstr) /\ f[bdd_ninstr] >= code.n
                /\ ninstr \in 0..bdd_ninstr /\ Reached(f[ninstr])
    /\ AssertMeansDisagreement

LEMMA WalkStep ==
    ASSUME NEW c, c.n \in Nat, NEW k \in Nat, NEW f, Walk(c, f, k), f[k] < c.n, c.bdd[f[k]] \in Nat,
           c.bdd[f[k]] # 0
    PROVE  \E g : Walk(c, g, k + 1) /\ g[k + 1] = f[k] + c.bdd[f[k]]
<1> DEFINE g == [i \in 0..(k + 1) |-> IF i = k + 1 THEN f[k] + c.bdd[f[k]] ELSE f[i]]
<1>1. f \in [0..k -> Nat] /\ f[k] \in Nat
  BY DEF Walk
<1>2. g \in [0..(k + 1) -> Nat] /\ g[k + 1] = f[k] + c.bdd[f[k]]
  BY <1>1
<1>3. \A i \in 0..k : g[i] = f[i]
  OBVIOUS
<1> HIDE DEF g
<1>4. g[0] = 0
  BY <1>3 DEF Walk
<1>5. \A i \in 0..((k + 1) - 1) :
        g[i] < c.n /\ c.bdd[g[i]] # 0 /\ g[i + 1] = g[i] + c.bdd[g[i]]
  <2> SUFFICES ASSUME NEW i \in 0..k
               PROVE  g[i] < c.n /\ c.bdd[g[i]] # 0 /\ g[i + 1] = g[i] + c.bdd[g[i]]
    OBVIOUS
  <2>1. CASE i = k
    BY <1>2, <1>3, <2>1
  <2>2. CASE i # k
    <3>1. i \in 0..(k - 1) /\ i + 1 \in 0..k
      BY <2>2
    <3> QED
      BY <1>3, <3>1 DEF Walk
  <2> QED
    BY <2>1, <2>2
<1>6. \A i, j \in 0..(k + 1) : i < j => g[i] < g[j]
  <2> SUFFICES ASSUME NEW i \in 0..(k + 1), NEW j \in 0..(k + 1), i < j PROVE g[i] < g[j]
    OBVIOUS
  <2>1. i \in 0..k /\ f[i] \in Nat
    BY <1>1
  <2>2. CASE j \in 0..k
    BY <1>3, <2>1, <2>2 DEF Walk
  <2>3. CASE j = k + 1
    <3>1. i = k \/ f[i] < f[k]
      BY <2>1 DEF Walk
    <3>2. f[i] <= f[k]
      BY <1>1, <2>1, <3>1
    <3> QED
      BY <1>1, <1>2, <1>3, <2>1, <2>3, <3>2
  <2> QED
    BY <2>2, <2>3
<1> QED
  BY <1>2, <1>4, <1>5, <1>6 DEF Walk

LEMMA CountInvInitially == TypeOK /\ Init => CountInv
<1> SUFFICES ASSUME TypeOK, Init PROVE CountInv
  OBVIOUS
<1>1. /\ pc = IF opts.no_bdd THEN "bundle" ELSE "bdd"
      /\ bdd_count = 0 /\ bdd_ninstr = 0 /\ off = 0 /\ ninstr = 0
  BY DEF Init
<1> DEFINE f == [i \in 0..0 |-> 0]
<1>2. f \in [0..0 -> Nat] /\ f[0] = 0
  OBVIOUS
<1> HIDE DEF f
<1>3. Walk(code, f, 0)
  BY <1>2 DEF Walk
<1> QED
  BY <1>1, <1>2, <1>3 DEF CountInv, AssertMeansDisagreement

LEMMA CountInvStep ==
    ASSUME TypeOK, CountInv, [Next]_vars
    PROVE  CountInv'
<1>1. IsCode(code) /\ code.n \in Nat /\ bdd_count \in Nat /\ bdd_ninstr \in Nat
      /\ off \in Nat /\ count \in Nat
  BY InputsTyped DEF TypeOK
<1>2. CASE UNCHANGED vars
  BY <1>2 DEF vars, CountInv, Reached, At, AssertMeansDisagreement
<1>3. CASE BddStep
  <2>1. /\ pc = "bdd" /\ pc' = "bdd" /\ bdd_count < code.n /\ code.bdd[bdd_count] # 0
        /\ bdd_count' = bdd_count + code.bdd[bdd_count] /\ bdd_ninstr' = bdd_ninstr + 1
        /\ ninstr' = ninstr /\ off' = off /\ code' = code
    BY <1>3 DEF BddStep, inputs
  <2>2. PICK f : Walk(code, f, bdd_ninstr) /\ f[bdd_ninstr] = bdd_count
    BY <2>1 DEF CountInv
  <2>3. code.bdd[bdd_count] \in Nat
    <3>1. bdd_count \in 0..(code.n - 1)
      BY <1>1, <2>1
    <3>2. code.bdd[bdd_count] \in 0..255
      BY <1>1, <3>1 DEF IsCode
    <3> QED
      BY <3>2
  <2>4. \E g : Walk(code, g, bdd_ninstr + 1) /\ g[bdd_ninstr + 1] = bdd_count'
    BY <1>1, <2>1, <2>2, <2>3, WalkStep
  <2> QED
    BY <2>1, <2>4 DEF CountInv, AssertMeansDisagreement
<1>4. CASE BddUnknown
  BY <1>4 DEF BddUnknown, CountInv, AssertMeansDisagreement
<1>5. CASE BddDone
  <2>1. /\ pc = "bdd" /\ pc' = "bundle" /\ bdd_count >= code.n
        /\ UNCHANGED <<code, bdd_count, bdd_ninstr, ninstr, off>>
    BY <1>5 DEF BddDone, inputs
  <2>2. PICK f : Walk(code, f, bdd_ninstr) /\ f[bdd_ninstr] = bdd_count
    BY <2>1 DEF CountInv
  <2>3. ninstr = 0 /\ off = 0 /\ f[0] = 0
    BY <2>1, <2>2 DEF CountInv, Walk
  <2> QED
    BY <1>1, <2>1, <2>2, <2>3 DEF CountInv, Reached, AssertMeansDisagreement
<1>6. CASE StartBundle
  <2>1. /\ pc = "bundle" /\ pc' = "inst" /\ off < code.n /\ count' = 0
        /\ UNCHANGED <<opts, code, failed, bdd_ninstr, ninstr, off>>
    BY <1>6 DEF StartBundle, inputs
  <2>2. At' = off
    BY <1>1, <2>1 DEF At
  <2>3. \A q : Reached(q) => Reached(q)'
    BY <1>1, <2>1, <2>2 DEF Reached
  <2> QED
    BY <2>1, <2>3 DEF CountInv, AssertMeansDisagreement
<1>7. CASE UnknownInst \/ UnitSpans
  <2>1. failed' = TRUE /\ pc' \in {"bundle", "fail"}
    BY <1>7 DEF UnknownInst, UnitSpans, verrmin, NextBundle
  <2> QED
    BY <2>1 DEF CountInv, AssertMeansDisagreement
<1>8. CASE CheckUnit
  <2> DEFINE unit == Unit(opts, code, At, addr)
  <2>1. /\ pc = "inst" /\ pc' = "inst" /\ At < code.n /\ code.fd[At].type # "INVALID"
        /\ count' = count + unit.size /\ ninstr' = ninstr + unit.ninstr
        /\ UNCHANGED <<opts, code, bdd_ninstr, off>> /\ (failed => failed')
    BY <1>8 DEF CheckUnit, InBundle, At, verrmin, inputs
  <2> SUFFICES ASSUME ~opts.no_bdd, ~failed, DecodersAgree(code)
               PROVE  \E f : /\ Walk(code, f, bdd_ninstr) /\ f[bdd_ninstr] >= code.n
                             /\ ninstr' \in 0..bdd_ninstr /\ f[ninstr'] = At'
    BY <2>1 DEF CountInv, AssertMeansDisagreement, Reached
  <2>2. PICK f : /\ Walk(code, f, bdd_ninstr) /\ f[bdd_ninstr] >= code.n
                 /\ ninstr \in 0..bdd_ninstr /\ Reached(f[ninstr])
    BY <2>1 DEF CountInv
  <2>3. f[ninstr] = At
    BY <2>1, <2>2 DEF Reached
  <2>4. At \in 0..(code.n - 1)
    BY <1>1, <2>1 DEF At
  <2>5. fd_decode(code, At).type # "INVALID"
    BY <2>1 DEF fd_decode
  <2>6. ninstr + unit.ninstr \in 0..bdd_ninstr /\ f[ninstr + unit.ninstr] = At + unit.size
    BY <1>1, <2>2, <2>3, <2>5, UnitSteps
  <2>7. unit.size \in Nat
    BY <1>1, <2>4, UnitTyped DEF TypeOK
  <2> HIDE DEF unit
  <2>8. At' = At + unit.size
    BY <1>1, <2>1, <2>7 DEF At
  <2> QED
    BY <2>1, <2>2, <2>6, <2>8
<1>9. CASE BundleDone
  <2>1. /\ pc = "inst" /\ pc' \in {"bundle", "fail"} /\ off' = off + BundleSize
        /\ ~(count < BundleSize /\ off + count < code.n)
        /\ UNCHANGED <<opts, code, failed, bdd_ninstr, ninstr>>
    BY <1>9 DEF BundleDone, InBundle, NextBundle, inputs
  <2>2. At = off' \/ (At >= code.n /\ off' >= code.n)
    <3>1. count \in 0..BundleSize
      BY DEF TypeOK
    <3> QED
      BY <1>1, <2>1, <3>1, BundleAssumption DEF At
  <2>3. pc' = "bundle" => \A q : Reached(q) => Reached(q)'
    BY <2>1, <2>2 DEF Reached
  <2> QED
    BY <2>1, <2>3 DEF CountInv, AssertMeansDisagreement
<1>10. CASE Finish
  <2>1. /\ pc = "bundle" /\ off >= code.n /\ pc' \in {"pass", "fail", "assert"}
        /\ code' = code
        /\ pc' = "assert" => ~failed /\ ~opts.no_bdd /\ bdd_ninstr # ninstr
    BY <1>10 DEF Finish, inputs
  <2> SUFFICES ASSUME ~failed, ~opts.no_bdd, DecodersAgree(code)
               PROVE  bdd_ninstr = ninstr
    BY <2>1 DEF CountInv, AssertMeansDisagreement, DecodersAgree
  <2>2. PICK f : /\ Walk(code, f, bdd_ninstr) /\ ninstr \in 0..bdd_ninstr
                 /\ Reached(f[ninstr])
    BY <2>1 DEF CountInv
  <2>3. f[ninstr] >= code.n
    BY <2>1, <2>2 DEF Reached
  <2>4. ninstr \notin 0..(bdd_ninstr - 1)
    <3>1. f[ninstr] \in Nat
      BY <2>2 DEF Walk
    <3>2. ~(f[ninstr] < code.n)
      BY <1>1, <2>3, <3>1
    <3> QED
      BY <2>2, <3>2 DEF Walk
  <2> QED
    BY <1>1, <2>2, <2>4
<1> QED
  BY <1>2, <1>3, <1>4, <1>5, <1>6, <1>7, <1>8, <1>9, <1>10 DEF Next

\* The two passes count the same instructions where the two decoders agree, those of the
\* macro-instructions and the nops in them included: the assertion that ends the process
\* is reached only if they differ on a length.
THEOREM AssertionCorrect == Spec => []AssertMeansDisagreement
<1>1. CountInv => AssertMeansDisagreement
  BY DEF CountInv
<1> QED
  BY <1>1, CountInvInitially, CountInvStep, TypeCorrect, PTL DEF Spec
=============================================================================
