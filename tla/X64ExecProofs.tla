---------------------------- MODULE X64ExecProofs ----------------------------
(***************************************************************************)
(* Theorems about X64Exec: what executing accepted x64 code can do, for    *)
(* every code, every answer of the two decoders and every bundle size.     *)
(***************************************************************************)
EXTENDS X64Exec, X64VerifierProofs

\* Units do not overlap: each ends where a later one starts, or before.
Apart ==
    pc \in {"bundle", "inst", "pass"} /\ ~failed =>
      \A p \in starts : /\ NextUnit(p) <= Front
                        /\ \A q \in starts : p < q => NextUnit(p) <= q

\* Only accepted code executes.
Accepted == where # "away" => pc = "pass"

\* The registers that are not to be changed but rsp.
Pinned == regs[R14] = "base" /\ (opts.ctxreg => regs[R15] = "ctx")

Held == WritesCounted => Pinned

\* The unit at p is the group the k-th recogniser accepts.
GroupAt(k, p) ==
    /\ p \in starts /\ Shape(k, opts, code, p, base + p)
    /\ macroinst(opts, code, p, base + p) = Group(k, code, p)

\* The register the group at p begins with.
FirstReg(p) == fd_decode(code, p).ops[0].reg

\* Control is among the nops of the call at p, or at the call.
NearCall(p) ==
    \E j \in Nat : /\ at = p + j
                   /\ PastNops(code, p, j).count = Loop(code, p).count
                   /\ PastNops(code, p, j).last = Loop(code, p).last

\* Where in the group at p control is, and what the parts before have made of the registers.
Between(k, p) ==
    \/ /\ at = Second(code, p)
       /\ CASE k = 1 -> regs[FirstReg(p)] = "low"
            [] k \in {2, 3} -> regs[FirstReg(p)] = "masked"
            [] k = 4 -> regs[SP] \in {"low", "masked"}
            [] k \in 5..7 -> regs[DI] = "low"
            [] OTHER -> /\ regs[R11] = "link"
                        /\ link = Second(code, p) + fd_decode(code, p).ops[1].val
    \/ k = 2 /\ at = Third(code, p) /\ regs[FirstReg(p)] = "target"
    \/ k = 3 /\ NearCall(p) /\ regs[FirstReg(p)] = "target"
    \/ k \in 5..7 /\ at = Third(code, p) /\ regs[DI] \in InBox
    \/ k \in {6, 7} /\ at = Fourth(code, p) /\ regs[DI] \in InBox /\ regs[SI] = "low"
    \/ k \in {6, 7} /\ at = Fifth(code, p) /\ regs[DI] \in InBox /\ regs[SI] \in InBox

Within(k, p) == GroupAt(k, p) /\ Between(k, p) /\ (k # 4 => regs[SP] \in InBox)

AtUnit == at \in starts /\ regs[SP] \in InBox

\* Control may go to p: to a unit of this code, or to where other code starts.
MayGoTo(p) == IF p \in Offset THEN p \in starts ELSE p = code.n \/ (base + p) % BundleSize = 0

Inside ==
    /\ where # "outside"
    /\ where = "box" => Pinned /\ (AtUnit \/ \E k \in 1..8 : \E p \in starts : Within(k, p))
    /\ where = "runtime" => regs[R11] = "link" /\ MayGoTo(link)

\* The instructions of the unit at p.
Insts(p) == InstStarts(code, p, NextUnit(p))

\* Control is at an instruction of the unit at p: of a call, at its mask, its add or behind;
\* of a runtime call behind the lea, with the link as that left it.
Tracks(p) ==
    /\ at \in Insts(p)
    /\ GroupAt(3, p) => at \in {p, Second(code, p)} \/ NearCall(p)
    /\ GroupAt(8, p) /\ at # p => link = Second(code, p) + fd_decode(code, p).ops[1].val

\* What holds whatever the recognisers leave open.
OnTrack ==
    /\ where = "box" => Held /\ \E p \in starts : Tracks(p)
    /\ where = "runtime" /\ regs[R11] = "link" => MayGoTo(link)

ExecInv == ExecTypeOK /\ Accepted /\ OnTrack /\ (WritesCounted /\ AsWritten => Inside)


-----------------------------------------------------------------------------
(* The pass, seen from the execution. *)

\* The execution does not disturb the pass.
LEMMA ExecImplementsPass == ExecSpec => Spec
<1>1. ExecInit => Init
  BY DEF ExecInit
<1>2. [ExecNext]_<<vars, execvars>> => [Next]_vars
  BY DEF ExecNext, Verify, Enter, Return, ExecPlain, ExecDirect, ExecNotTaken, ExecIndirect,
         Runs, Executes
<1> QED
  BY <1>1, <1>2, PTL DEF ExecSpec, Spec

\* The arguments stay what they are.
LEMMA InputsStay == [Next]_vars => UNCHANGED inputs
  BY DEF Next, vars, inputs, BddStep, BddUnknown, BddDone, StartBundle, UnknownInst, CheckUnit,
         UnitSpans, BundleDone, Finish

LEMMA FrontAdvances ==
    ASSUME TypeOK, VerdictInv, Apart, Next, ~CheckUnit, ~failed'
    PROVE  Apart'
<1>1. UNCHANGED inputs /\ UNCHANGED starts /\ ~failed
  BY InputsStay DEF Next, BddStep, BddUnknown, BddDone, StartBundle, UnknownInst, UnitSpans,
                    BundleDone, Finish, verrmin, NextBundle
<1>2. \A p : NextUnit(p)' = NextUnit(p)
  BY <1>1 DEF NextUnit, inputs
<1>3. CASE pc = "bdd"
  <2>1. starts' = {}
    BY <1>1, <1>3 DEF VerdictInv
  <2> QED
    BY <2>1 DEF Apart
<1>4. CASE pc # "bdd"
  <2>1. pc \in {"bundle", "inst", "pass"} /\ Front' >= Front /\ Front' \in Int /\ Front \in Int
    <3>1. off \in Nat /\ count \in Nat /\ count <= BundleSize /\ BundleSize \in Nat
      BY BundleAssumption DEF TypeOK
    <3>2. CASE StartBundle
      BY <3>1, <3>2 DEF StartBundle, Front
    <3>3. CASE UnknownInst \/ UnitSpans
      BY <3>3 DEF UnknownInst, UnitSpans, verrmin
    <3>4. CASE BundleDone
      BY <3>1, <3>4 DEF BundleDone, NextBundle, Front
    <3>5. CASE Finish
      BY <3>1, <3>5 DEF Finish, Front
    <3> QED
      BY <1>4, <3>2, <3>3, <3>4, <3>5 DEF Next, BddStep, BddUnknown, BddDone
  <2>2. \A p \in starts : NextUnit(p) \in Int
    <3> SUFFICES ASSUME NEW p \in starts PROVE NextUnit(p) \in Int
      OBVIOUS
    <3>1. IsCode(code) /\ base \in Nat /\ code.n \in Nat
      BY InputsTyped
    <3>2. p \in 0..(code.n - 1)
      BY DEF TypeOK, Offset
    <3>3. base + p \in Nat
      BY <3>1, <3>2
    <3>4. Unit(opts, code, p, base + p).size \in Nat
      BY <3>1, <3>2, <3>3, UnitTyped
    <3> QED
      BY <3>1, <3>2, <3>4 DEF NextUnit
  <2>3. \A p \in starts : NextUnit(p) <= Front /\ \A q \in starts : p < q => NextUnit(p) <= q
    BY <1>1, <2>1 DEF Apart
  <2>4. \A p \in starts : NextUnit(p) <= Front'
    BY <2>1, <2>2, <2>3
  <2> HIDE DEF Front
  <2> QED
    BY <1>1, <1>2, <2>3, <2>4 DEF Apart
<1> QED
  BY <1>3, <1>4

LEMMA UnitApart ==
    ASSUME TypeOK, VerdictInv, Apart, CheckUnit, ~failed'
    PROVE  Apart'
<1>1. UNCHANGED inputs /\ ~failed /\ pc = "inst" /\ pc' = "inst" /\ starts' = starts \cup {At}
  BY DEF CheckUnit, InBundle, verrmin, inputs
<1>2. \A p : NextUnit(p)' = NextUnit(p)
  BY <1>1 DEF NextUnit, inputs
<1>3. IsCode(code) /\ base \in Nat /\ code.n \in Nat
  BY InputsTyped
<1>4. off \in Nat /\ count \in Nat /\ At \in 0..(code.n - 1) /\ addr = base + At /\ Front = At
  <2>1. off \in Nat /\ count \in 0..BundleSize /\ BundleSize \in Nat /\ off + count < code.n
    BY BundleAssumption DEF TypeOK, CheckUnit, InBundle
  <2>2. addr = base + At
    BY <1>1 DEF VerdictInv
  <2> QED
    BY <1>1, <1>3, <2>1, <2>2 DEF At, Front
<1>5. \A p \in starts \cup {At} : p \in Nat /\ NextUnit(p) \in Nat /\ NextUnit(p) > p
  <2> SUFFICES ASSUME NEW p \in starts \cup {At}
               PROVE  p \in Nat /\ NextUnit(p) \in Nat /\ NextUnit(p) > p
    OBVIOUS
  <2>1. p \in 0..(code.n - 1)
    BY <1>4 DEF TypeOK, Offset
  <2>2. p \in Nat /\ base + p \in Nat
    BY <1>3, <2>1
  <2>3. Unit(opts, code, p, base + p).size \in Nat \ {0}
    BY <1>3, <2>1, <2>2, UnitTyped
  <2> QED
    BY <2>2, <2>3 DEF NextUnit
<1>6. \A p \in starts : NextUnit(p) <= At /\ \A q \in starts : p < q => NextUnit(p) <= q
  BY <1>1, <1>4 DEF Apart
<1>7. Front' = NextUnit(At)
  <2>1. count' = count + Unit(opts, code, At, addr).size /\ off' = off
    BY DEF CheckUnit
  <2>2. Unit(opts, code, At, addr).size \in Nat
    BY <1>3, <1>4, UnitTyped
  <2> QED
    BY <1>1, <1>4, <2>1, <2>2 DEF Front, NextUnit, At
<1>8. ASSUME NEW p \in starts \cup {At}
      PROVE  /\ NextUnit(p) <= NextUnit(At)
             /\ \A q \in starts \cup {At} : p < q => NextUnit(p) <= q
  <2>1. CASE p = At
    BY <1>4, <1>5, <1>6, <2>1
  <2>2. CASE p \in starts
    BY <1>4, <1>5, <1>6, <2>2
  <2> QED
    BY <2>1, <2>2
<1> HIDE DEF At, Front
<1> QED
  BY <1>1, <1>2, <1>7, <1>8 DEF Apart

\* The units of accepted code lie one behind the other.
LEMMA UnitsApart == Spec => []Apart
<1>1. Init => Apart
  BY DEF Init, Apart
<1>2. TypeOK /\ VerdictInv /\ Apart /\ [Next]_vars => Apart'
  <2> SUFFICES ASSUME TypeOK, VerdictInv, Apart, [Next]_vars PROVE Apart'
    OBVIOUS
  <2>1. CASE UNCHANGED vars
    BY <2>1 DEF vars, Apart, NextUnit, Front
  <2>2. CASE failed'
    BY <2>2 DEF Apart
  <2> QED
    BY <2>1, <2>2, FrontAdvances, UnitApart
<1> QED
  BY <1>1, <1>2, VerdictInvariant, PTL DEF Spec


-----------------------------------------------------------------------------
(* Types. *)

ExecTyped == TypeOK /\ ExecTypeOK

\* The instruction executed next.
LEMMA InstTyped ==
    ASSUME ExecTyped, where = "box"
    PROVE  /\ pc = "pass" /\ at \in Offset /\ at \in Nat /\ at < code.n
           /\ inst = fd_decode(code, at) /\ inst \in Inst /\ Decoded(inst)
           /\ at + inst.size = Second(code, at) /\ at + inst.size \in 0..code.n
<1>1. PICK c \in Calls : opts = c.opts /\ code = c.code /\ base = c.base
  BY DEF ExecTyped, TypeOK
<1>2. IsCode(code) /\ code.n \in Nat
  BY InputsTyped DEF ExecTyped
<1>3. pc = "pass" /\ at \in 0..(code.n - 1)
  BY DEF ExecTyped, ExecTypeOK, Offset
<1>4. at \in Nat /\ at < code.n
  BY <1>2, <1>3
<1>5. inst = fd_decode(code, at)
  BY <1>4 DEF inst, fd_decode
<1>6. inst \in Inst /\ at + inst.size <= code.n
  BY <1>2, <1>3 DEF inst, IsCode
<1>7. Decoded(inst)
  BY <1>1, <1>3, DecoderAssumption DEF inst
<1>8. inst.size \in Nat
  BY <1>6 DEF Inst
<1>9. at + inst.size \in 0..code.n
  BY <1>2, <1>4, <1>6, <1>8
<1> QED
  BY <1>3, <1>4, <1>5, <1>6, <1>7, <1>9 DEF Second, Offset

LEMMA ResultTyped == ASSUME regs \in [GPR -> Class], NEW d, NEW k PROVE Result(d, k) \in Class
<1>1. \A a, b : Sum(a, b) \in Class
  BY DEF Sum, Rebased, Class
<1>2. LeaResult(d.ops[1]) \in Class
  BY <1>1 DEF LeaResult, Class
<1>3. {"masked", "low", "any"} \subseteq Class
  BY DEF Class
<1> QED
  BY <1>1, <1>2, <1>3 DEF Result

LEMMA EffectTyped ==
    ASSUME regs \in [GPR -> Class], NEW d PROVE Effect(d) \in [GPR -> Class]
<1>1. \A k : Result(d, k) \in Class
  BY ResultTyped
<1> QED
  BY <1>1 DEF Effect

LEMMA ArrivalTyped == Arrival \in [GPR -> Class]
  BY DEF Arrival, Class

LEMMA GoToTyped ==
    ASSUME ExecTyped, NEW p, GoTo(p)
    PROVE  /\ where' \in {"box", "away", "outside"} /\ at' \in 0..code.n
           /\ where' = "box" => at' \in Offset
<1>1. code.n \in Nat /\ at \in 0..code.n
  BY InputsTyped DEF ExecTyped, ExecTypeOK
<1>2. Offset \subseteq 0..code.n
  BY <1>1 DEF Offset
<1> QED
  BY <1>1, <1>2 DEF GoTo

\* A step of the execution does not change what the pass has left behind.
LEMMA ExecutesStays == ASSUME Executes PROVE UNCHANGED vars /\ where = "box"
  BY DEF Executes

\* The offset a lea of an address relative to rip refers to.
LEMMA LinkTyped ==
    ASSUME ExecTyped, where = "box"
    PROVE  at + inst.size + inst.ops[1].val \in Int
<1>1. at \in Nat /\ inst \in Inst
  BY InstTyped
<1>2. inst.ops[1] \in Op
  BY <1>1 DEF Inst, OpIndex
<1>3. inst.size \in Int /\ inst.ops[1].val \in Int
  BY <1>1, <1>2 DEF Inst, Op
<1> QED
  BY <1>1, <1>3

\* What is left to show of a step that lets the pass rest.
LEMMA TypedNext ==
    ASSUME ExecTyped, Accepted, UNCHANGED vars, pc = "pass", 
           where' \in {"box", "runtime", "away", "outside"}, at' \in 0..code.n,
           where' = "box" => at' \in Offset,
           regs' \in [GPR -> Class], link' \in Int
    PROVE  ExecTypeOK' /\ Accepted'
<1>1. code' = code /\ pc' = "pass" /\ opts' = opts
  BY DEF vars
<1>2. Offset' = Offset
  BY <1>1 DEF Offset
<1> QED
  BY <1>1, <1>2 DEF ExecTypeOK, Accepted

\* Types are kept, and nothing but accepted code executes.
LEMMA TypedInductive ==
    ASSUME ExecTyped, Accepted, [ExecNext]_<<vars, execvars>>
    PROVE  ExecTypeOK' /\ Accepted'
<1>1. /\ at \in 0..code.n /\ regs \in [GPR -> Class] /\ link \in Int /\ code.n \in Nat
      /\ where \in {"box", "runtime", "away", "outside"}
  BY InputsTyped DEF ExecTyped, ExecTypeOK
<1>2. CASE UNCHANGED <<vars, execvars>>
  BY <1>2 DEF vars, execvars, ExecTyped, ExecTypeOK, Accepted, Offset
<1>3. CASE Verify
  <2>1. UNCHANGED inputs /\ UNCHANGED execvars /\ pc # "pass"
    BY <1>3, InputsStay
      DEF Verify, Next, BddStep, BddUnknown, BddDone, StartBundle, UnknownInst, CheckUnit,
          UnitSpans, BundleDone, Finish, InBundle
  <2>2. where = "away"
    BY <2>1 DEF Accepted
  <2> QED
    BY <1>1, <2>1, <2>2 DEF inputs, execvars, ExecTypeOK, Accepted
<1>4. CASE Enter
  <2>1. BundleStarts \subseteq Offset /\ Offset \subseteq 0..code.n
    BY <1>1 DEF BundleStarts, Offset
  <2>2. /\ where' = "box" /\ at' \in BundleStarts /\ regs' = Arrival /\ link' = link
        /\ UNCHANGED vars /\ pc = "pass"
    BY <1>4 DEF Enter
  <2> QED
    BY <1>1, <2>1, <2>2, ArrivalTyped, TypedNext
<1>5. CASE Return
  <2>1. UNCHANGED vars /\ pc = "pass" /\ regs' = Arrival /\ link' = link
    BY <1>5 DEF Return, Accepted
  <2>2. /\ where' \in {"box", "away", "outside"} /\ at' \in 0..code.n
        /\ where' = "box" => at' \in Offset
    <3>1. CASE GoTo(link)
      BY <3>1, GoToTyped
    <3>2. CASE Leave("outside")
      BY <1>1, <3>2 DEF Leave
    <3> QED
      BY <1>5, <3>1, <3>2 DEF Return
  <2> QED
    BY <1>1, <2>1, <2>2, ArrivalTyped, TypedNext
<1>6. CASE ExecPlain
  <2>1. UNCHANGED vars /\ where = "box" /\ regs' = Effect(inst) /\ Falls(inst)
    BY <1>6 DEF ExecPlain, Runs, Executes
  <2>2. pc = "pass" /\ link' \in Int
    BY <1>1, <1>6, <2>1, InstTyped, LinkTyped DEF ExecPlain
  <2>3. /\ where' \in {"box", "away", "outside"} /\ at' \in 0..code.n
        /\ where' = "box" => at' \in Offset
    BY <2>1, GoToTyped DEF Falls
  <2> QED
    BY <1>1, <2>1, <2>2, <2>3, EffectTyped, TypedNext
<1>7. CASE ExecDirect \/ ExecNotTaken
  <2>1. UNCHANGED <<vars, regs, link>> /\ where = "box" /\ \E p : GoTo(p)
    BY <1>7 DEF ExecDirect, ExecNotTaken, Runs, Executes, Falls
  <2>2. pc = "pass"
    BY <2>1, InstTyped
  <2>3. /\ where' \in {"box", "away", "outside"} /\ at' \in 0..code.n
        /\ where' = "box" => at' \in Offset
    BY <2>1, GoToTyped
  <2> QED
    BY <1>1, <2>1, <2>2, <2>3, TypedNext
<1>8. CASE ExecIndirect
  <2>1. UNCHANGED <<vars, regs, link>> /\ where = "box"
    BY <1>8 DEF ExecIndirect, Runs, Executes
  <2>2. pc = "pass" /\ BundleStarts \subseteq Offset /\ Offset \subseteq 0..code.n
    BY <1>1, <2>1, InstTyped DEF BundleStarts, Offset
  <2>3. GoAnywhereMasked \/ Leave("outside") \/ Leave("runtime")
    BY <1>8 DEF ExecIndirect
  <2>4. /\ where' \in {"box", "runtime", "away", "outside"} /\ at' \in 0..code.n
        /\ where' = "box" => at' \in Offset
    BY <1>1, <2>2, <2>3 DEF GoAnywhereMasked, Leave
  <2> QED
    BY <1>1, <2>1, <2>2, <2>4, TypedNext
<1> QED
  BY <1>2, <1>3, <1>4, <1>5, <1>6, <1>7, <1>8 DEF ExecNext

LEMMA TypedInitially == ASSUME TypeOK, ExecInit PROVE ExecTypeOK /\ Accepted
<1>1. code.n \in Nat
  BY InputsTyped
<1> QED
  BY <1>1, ArrivalTyped DEF ExecInit, ExecTypeOK, Accepted

\* The execution is well typed, and nothing executes before the answer or after another one
\* than LFI_OK.
THEOREM ExecTypeCorrect == ExecSpec => []ExecTypeOK
<1>1. TypeOK /\ ExecInit => ExecTypeOK /\ Accepted
  BY TypedInitially
<1>2. TypeOK /\ ExecTypeOK /\ Accepted /\ [ExecNext]_<<vars, execvars>> => ExecTypeOK' /\ Accepted'
  BY TypedInductive DEF ExecTyped
<1>3. ExecSpec => []TypeOK
  BY ExecImplementsPass, TypeCorrect, PTL
<1> QED
  BY <1>1, <1>2, <1>3, PTL DEF ExecSpec


-----------------------------------------------------------------------------
(* One instruction. *)

OneOutput == {"MOV", "ADD", "OR", "SUB", "AND", "LEA"}

\* The registers reserved() keeps from an instruction are not written by it, not even in
\* part: the registers of which bytes 8 to 15 can be named are not among them.
LEMMA KeptUnwritten ==
    ASSUME NEW d, d \in Inst, Decoded(d), NEW k \in OpIndex, k \in Written(d), k < nmod(d),
           ~reserved(opts, d, k)
    PROVE  RegName(d.ops[k]) \notin Kept
<1>1. d.ops[k].t = "REG" /\ d.ops[k].rt \in {"GPL", "GPH"}
  BY DEF Written
<1>2. d.ops[k].reg \notin Kept
  BY <1>1 DEF reserved, Kept
<1>3. d.ops[k].rt = "GPH" => d.ops[k].reg \in 4..7
  BY <1>1 DEF Decoded
<1>4. CASE d.ops[k].rt = "GPH"
  <2>1. RegName(d.ops[k]) \in 0..3
    BY <1>3, <1>4 DEF RegName
  <2> QED
    BY <2>1 DEF Kept, SP, R14, R15
<1>5. CASE d.ops[k].rt # "GPH"
  BY <1>2, <1>5 DEF RegName
<1> QED
  BY <1>4, <1>5

\* What an instruction writes is among its operands.
LEMMA WritesOperands ==
    ASSUME NEW d PROVE Writes(d) \subseteq OpIndex /\ Written(d) \subseteq Writes(d)
  BY DEF Writes, Written, OpIndex

\* Whoever writes none of the registers that are kept keeps them.
LEMMA EffectKeeps ==
    ASSUME NEW d, NEW K, K \subseteq GPR, \A k \in Written(d) : RegName(d.ops[k]) \notin K
    PROVE  \A r \in K : Effect(d)[r] = regs[r]
<1> SUFFICES ASSUME NEW r \in K PROVE Effect(d)[r] = regs[r]
  OBVIOUS
<1>1. {k \in Written(d) : RegName(d.ops[k]) = r} = {}
  OBVIOUS
<1> QED
  BY <1>1 DEF Effect

LEMMA KeptRegisters == Kept \subseteq GPR /\ Kept \ {SP} = Kept \cap {R14, R15}
  BY DEF Kept, GPR, SP, R14, R15

LEMMA OneOutputWrites ==
    ASSUME NEW d, d.type \in OneOutput PROVE Writes(d) = {0} /\ nmod(d) = 1
  BY DEF Writes, nmod, OneOutput, CmpXadds, Branches, CondBranches

\* An instruction with one output, a whole register, writes that register alone.
LEMMA EffectWrites ==
    ASSUME NEW d, d \in Inst, Decoded(d), d.type \in OneOutput,
           d.ops[0].t = "REG", d.ops[0].size \in {4, 8}
    PROVE  /\ d.ops[0].reg \in GPR /\ d.ops[0].rt = "GPL"
           /\ Effect(d)[d.ops[0].reg] = Result(d, 0)
           /\ \A r \in GPR : r # d.ops[0].reg => Effect(d)[r] = regs[r]
<1>1. 0 \in OpIndex
  BY DEF OpIndex
<1>2. d.ops[0].rt = "GPL" /\ d.ops[0].reg \in GPR
  BY <1>1 DEF Decoded, OneOutput
<1>3. Written(d) = {0}
  <2>1. Writes(d) = {0}
    BY OneOutputWrites
  <2> QED
    BY <1>2, <2>1 DEF Written
<1>4. RegName(d.ops[0]) = d.ops[0].reg
  BY <1>2 DEF RegName
<1>5. {k \in Written(d) : RegName(d.ops[k]) = d.ops[0].reg} = {0}
  BY <1>3, <1>4
<1>6. \A r \in GPR : r # d.ops[0].reg => {k \in Written(d) : RegName(d.ops[k]) = r} = {}
  BY <1>3, <1>4
<1>7. (CHOOSE k \in {0} : TRUE) = 0
  OBVIOUS
<1>8. Effect(d)[d.ops[0].reg] = Result(d, 0)
  BY <1>2, <1>5, <1>7 DEF Effect
<1>9. \A r \in GPR : r # d.ops[0].reg => Effect(d)[r] = regs[r]
  BY <1>6 DEF Effect
<1> QED
  BY <1>2, <1>8, <1>9

LEMMA NopWrites == ASSUME regs \in [GPR -> Class], NEW d, d.type = "NOP" PROVE Effect(d) = regs
<1>1. Written(d) = {}
  BY DEF Written, Writes
<1> QED
  BY <1>1 DEF Effect

LEMMA NmodTyped == ASSUME NEW d PROVE nmod(d) \in Int
<1>1. nmod(d) \in {0, 1, 2}
  BY DEF nmod
<1> QED
  BY <1>1

\* An operand in memory that is written is one that nmod() counts.
LEMMA StoresCounted ==
    ASSUME NEW d, Decoded(d), NEW k \in OpIndex, d.ops[k].t = "MEM", k \in Writes(d)
    PROVE  k < nmod(d)
<1>1. d.type \notin {"CMP", "TEST"}
  BY DEF Writes
<1>2. CASE d.type \in {"XCHG", "MULX", "XADD"}
  <2>1. nmod(d) = 2
    BY <1>1, <1>2 DEF nmod
  <2>2. k \in {0, 1}
    BY DEF Writes
  <2> QED
    BY <2>1, <2>2
<1>3. CASE d.type \notin {"XCHG", "MULX", "XADD"}
  <2>1. nmod(d) = 1
    BY <1>1, <1>3 DEF nmod
  <2>2. d.type \in CmpXadds => k # 1
    BY DEF Decoded, OpIndex
  <2>3. k = 0
    BY <1>3, <2>2 DEF Writes
  <2> QED
    BY <2>1, <2>3
<1> QED
  BY <1>2, <1>3

\* Instructions of which nmod() counts what they write keep what chkmod has them keep.
LEMMA CheckedKeeps ==
    ASSUME NEW d, d \in Inst, Decoded(d), chkmod(opts, d),
           \A k \in Written(d) : k >= nmod(d) => RegName(d.ops[k]) \notin Kept
    PROVE  \A r \in Kept : Effect(d)[r] = regs[r]
<1>1. \A k \in Written(d) : k \in OpIndex /\ d.ops[k].t = "REG" /\ d.type # "NOP"
  BY WritesOperands DEF Written, Writes
<1>2. \A k \in Written(d) : k < nmod(d) \/ k >= nmod(d)
  <2>1. nmod(d) \in Int
    BY NmodTyped
  <2> QED
    BY <1>1, <2>1 DEF OpIndex
<1>3. \A k \in Written(d) : ~reserved(opts, d, k)
  BY <1>1 DEF chkmod
<1>4. \A k \in Written(d) : RegName(d.ops[k]) \notin Kept
  BY <1>1, <1>2, <1>3, KeptUnwritten
<1> QED
  BY <1>4, EffectKeeps, KeptRegisters

LEMMA CheckedTypes ==
    ASSUME NEW d, okmnem(d) PROVE ~Escapes(d) /\ d.type \notin {"STOS", "MOVS", "CMPS"}
  BY DEF okmnem, CondBranches, CmpXadds, BitTests, Escapes

\* An instruction that passed the checks stays inside the sandbox.
LEMMA CheckedInside ==
    ASSUME NEW d, d \in Inst, Decoded(d), NEW a, Checks(opts, d, a), ~BitString(d),
           Pinned, regs[SP] \in InBox
    PROVE  ~Escapes(d) /\ AccessesInside(d)
<1>1. okmnem(d) /\ chkmem(opts, d)
  BY DEF Checks
<1>2. ~Escapes(d) /\ d.type \notin {"STOS", "MOVS", "CMPS"}
  BY <1>1, CheckedTypes
<1>3. ASSUME NEW k \in OpIndex, okmem(opts, d, k) PROVE AddressInside(d, d.ops[k])
  <2>1. d.seg \in {"NONE", "FS", "GS"}
    BY DEF Inst
  <2>2. CASE d.seg = "GS"
    BY <1>3, <2>2 DEF okmem, AddressInside
  <2>3. CASE d.seg # "GS"
    <3>1. d.seg = "NONE" /\ d.addrsize = 8 /\ d.ops[k].index = NoReg
      BY <1>3, <2>1, <2>3 DEF okmem
    <3>2. \/ opts.ctxreg /\ d.ops[k].reg = R15
          \/ d.ops[k].reg \in {SP, IP, R14}
      BY <1>3, <2>1, <2>3 DEF okmem
    <3> QED
      BY <3>1, <3>2 DEF AddressInside, IsBase, Pinned
  <2> QED
    BY <2>2, <2>3
<1>4. d.type \notin {"LEA", "NOP"} =>
        \A k \in OpIndex : d.ops[k].t = "MEM" =>
          (opts.box = "STORES" /\ k \notin Writes(d)) \/ AddressInside(d, d.ops[k])
  <2> SUFFICES ASSUME d.type \notin {"LEA", "NOP"}, NEW k \in OpIndex, d.ops[k].t = "MEM"
               PROVE  (opts.box = "STORES" /\ k \notin Writes(d)) \/ AddressInside(d, d.ops[k])
    OBVIOUS
  <2>1. k \in Writes(d) => ~(k >= nmod(d))
    BY StoresCounted DEF nmod, OpIndex
  <2> QED
    BY <1>1, <1>3, <2>1 DEF chkmem
<1>5. AccessesInside(d)
  BY <1>2, <1>4 DEF AccessesInside
<1> QED
  BY <1>2, <1>5


-----------------------------------------------------------------------------
(* The parts of the macro-instructions. *)

Safe(d) == ~Escapes(d) /\ AccessesInside(d)

\* What d does: it gives r the class, and no other register.
Sets(d, r, class) ==
    /\ r \in GPR /\ Effect(d)[r] = class
    /\ \A q \in GPR : q # r => Effect(d)[q] = regs[q]

\* An instruction that touches no memory and is none of those that leave the sandbox.
LEMMA NoMemorySafe ==
    ASSUME NEW d, d.type \in OneOutput \cup {"JMP"}, \A k \in OpIndex : d.ops[k].t # "MEM"
    PROVE  Safe(d)
  BY DEF Safe, Escapes, AccessesInside, OneOutput

\* What only a bit test does, no part of a macro-instruction does.
LEMMA NoBitString ==
    ASSUME NEW d, d.type \in OneOutput \cup {"JMP"} PROVE ~BitString(d)
  BY DEF BitString, BitTests, OneOutput

LEMMA LeaSafe == ASSUME NEW d, d.type = "LEA" PROVE Safe(d)
  BY DEF Safe, Escapes, AccessesInside

\* What fadec promises, by operand.
LEMMA PartOperands ==
    ASSUME NEW d, d \in Inst, Decoded(d), d.type \in OneOutput \cup {"JMP", "CALL"}
    PROVE  /\ d.ops[2].t = "NONE" /\ d.ops[3].t = "NONE"
           /\ d.type \in {"JMP", "CALL"} => d.ops[1].t = "NONE"
           /\ \A k \in OpIndex : k \in {0, 1, 2, 3}
           /\ d.ops[0].t = "REG" => d.ops[0].rt \in {"GPL", "GPH"}
  BY DEF Decoded, OneOutput, OpIndex

LEMMA TruncatesSets ==
    ASSUME NEW d, d \in Inst, Decoded(d), NEW r, Truncates(d, r)
    PROVE  Safe(d) /\ Sets(d, r, "low")
<1>1. /\ d.type = "MOV" /\ d.ops[0].t = "REG" /\ d.ops[0].reg = r /\ d.ops[0].size = 4
      /\ d.ops[1].t = "REG"
  BY DEF Truncates, IsReg
<1>2. d.type \in OneOutput
  BY <1>1 DEF OneOutput
<1>3. \A k \in OpIndex : d.ops[k].t # "MEM"
  BY <1>1, <1>2, PartOperands
<1>4. Result(d, 0) = "low"
  BY <1>1 DEF Result
<1> QED
  BY <1>1, <1>2, <1>3, <1>4, NoMemorySafe, EffectWrites DEF Sets

LEMMA MasksSets ==
    ASSUME NEW d, d \in Inst, Decoded(d), MasksReg(opts, d)
    PROVE  Safe(d) /\ Sets(d, d.ops[0].reg, "masked") /\ d.ops[0].reg \notin Kept
<1>1. /\ d.type = "AND" /\ d.ops[0].t = "REG" /\ d.ops[0].size = 4 /\ ~reserved(opts, d, 0)
      /\ d.ops[1].t = "IMM" /\ d.ops[1].val = BundleMask
  BY DEF MasksReg
<1>2. d.type \in OneOutput
  BY <1>1 DEF OneOutput
<1>3. \A k \in OpIndex : d.ops[k].t # "MEM"
  BY <1>1, <1>2, PartOperands
<1>4. Result(d, 0) = "masked"
  BY <1>1 DEF Result
<1>5. d.ops[0].reg \notin Kept
  <2>1. d.ops[0].rt = "GPL" /\ nmod(d) = 1
    BY <1>1, <1>2, EffectWrites, OneOutputWrites
  <2> QED
    BY <1>1, <2>1 DEF reserved, Kept
<1> QED
  BY <1>1, <1>2, <1>3, <1>4, <1>5, NoMemorySafe, EffectWrites DEF Sets

LEMMA AddsSets ==
    ASSUME NEW d, d \in Inst, Decoded(d), NEW r, AddsBase(d, r), r # R14, Pinned
    PROVE  Safe(d) /\ Sets(d, r, Rebased(regs[r]))
<1>1. /\ d.type \in {"ADD", "OR"} /\ d.ops[0].t = "REG" /\ d.ops[0].reg = r /\ d.ops[0].size = 8
      /\ d.ops[1].t = "REG" /\ d.ops[1].reg = R14 /\ d.ops[1].size = 8
  BY DEF AddsBase, mask_add, IsReg
<1>2. d.type \in OneOutput
  BY <1>1 DEF OneOutput
<1>3. \A k \in OpIndex : d.ops[k].t # "MEM"
  BY <1>1, <1>2, PartOperands
<1>4. Result(d, 0) = Sum(r, R14)
  BY <1>1 DEF Result
<1>5. Sum(r, R14) = Rebased(regs[r])
  BY DEF Sum, IsBase, Pinned
<1> QED
  BY <1>1, <1>2, <1>3, <1>4, <1>5, NoMemorySafe, EffectWrites DEF Sets

\* Of a whole register that a lea loads, as it is written.
LEMMA LeaSets ==
    ASSUME NEW d, d \in Inst, Decoded(d), d.type = "LEA", d.ops[0].t = "REG",
           d.ops[0].size = 8, d.addrsize = 8
    PROVE  Safe(d) /\ Sets(d, d.ops[0].reg, LeaResult(d.ops[1]))
<1>1. d.type \in OneOutput
  BY DEF OneOutput
<1>2. Result(d, 0) = LeaResult(d.ops[1])
  BY DEF Result
<1> QED
  BY <1>1, <1>2, LeaSafe, EffectWrites DEF Sets

LEMMA LeasSets ==
    ASSUME NEW d, d \in Inst, Decoded(d), NEW r, LeasBase(d, r), WrittenOut(d),
           r \in GPR, Pinned
    PROVE  Safe(d) /\ Sets(d, r, Rebased(regs[r]))
<1>1. /\ d.type = "LEA" /\ d.ops[0].t = "REG" /\ d.ops[0].reg = r /\ d.ops[0].size = 8
      /\ d.ops[1].reg = R14 /\ d.ops[1].index = r /\ d.ops[1].val = 0 /\ d.ops[1].scale = 0
      /\ d.ops[1].t = "MEM"
  BY DEF LeasBase, IsReg
<1>2. d.addrsize = 8
  BY <1>1 DEF WrittenOut, HasAddress, IsReg, OpIndex
<1>3. LeaResult(d.ops[1]) = Sum(R14, r)
  BY <1>1 DEF LeaResult, IP, R14, GPR
<1>4. Sum(R14, r) = Rebased(regs[r])
  BY DEF Sum, IsBase, Pinned
<1> QED
  BY <1>1, <1>2, <1>3, <1>4, LeaSets


\* The two parts that move rsp.
LEMMA ModspMoves ==
    ASSUME NEW d, d \in Inst, Decoded(d), IsReg(d, 0, SP, 4), WrittenOut(d),
           d.type \in {"MOV", "ADD", "AND", "SUB", "LEA"}
    PROVE  Safe(d) /\ \E class \in {"low", "masked"} : Sets(d, SP, class)
<1>1. d.ops[0].t = "REG" /\ d.ops[0].reg = SP /\ d.ops[0].size = 4 /\ d.type \in OneOutput
  BY DEF IsReg, OneOutput
<1>2. Result(d, 0) \in {"low", "masked"}
  BY <1>1 DEF Result
<1>3. Sets(d, SP, Result(d, 0))
  BY <1>1, EffectWrites DEF Sets
<1>4. Safe(d)
  <2>1. CASE d.type = "LEA"
    BY <2>1, LeaSafe
  <2>2. CASE d.type # "LEA"
    <3>1. \A k \in OpIndex : d.ops[k].t # "MEM"
      BY <1>1, <2>2 DEF WrittenOut, HasAddress, IsReg, OneOutput
    <3> QED
      BY <1>1, <3>1, NoMemorySafe
  <2> QED
    BY <2>1, <2>2
<1> QED
  BY <1>2, <1>3, <1>4

LEMMA ModspRebases ==
    ASSUME NEW d, d \in Inst, Decoded(d), IsReg(d, 0, SP, 8), WrittenOut(d), d.type = "LEA",
           d.ops[1].t = "MEM", d.ops[1].reg = SP, d.ops[1].index = R14, d.ops[1].val = 0, d.ops[1].scale = 0, Pinned
    PROVE  Safe(d) /\ Sets(d, SP, Rebased(regs[SP]))
<1>1. d.ops[0].t = "REG" /\ d.ops[0].reg = SP /\ d.ops[0].size = 8
  BY DEF IsReg
<1>2. d.addrsize = 8
  BY <1>1 DEF WrittenOut, HasAddress, IsReg, OpIndex
<1>3. LeaResult(d.ops[1]) = Sum(SP, R14)
  BY DEF LeaResult, IP, SP, R14, GPR
<1>4. Sum(SP, R14) = Rebased(regs[SP])
  BY DEF Sum, IsBase, Pinned, SP, R14
<1> QED
  BY <1>1, <1>2, <1>3, <1>4, LeaSets

\* An instruction with one output, none that must be kept but perhaps rsp.
LEMMA OneOutputKeeps ==
    ASSUME NEW d, d \in Inst, Decoded(d), d.type \in OneOutput, d.ops[0].t = "REG",
           d.ops[0].reg \notin Kept \ {SP}
    PROVE  \A r \in Kept \ {SP} : Effect(d)[r] = regs[r]
<1>1. \A k \in Written(d) : k = 0
  BY OneOutputWrites, WritesOperands
<1>2. 0 \in OpIndex
  BY DEF OpIndex
<1>3. d.ops[0].rt = "GPH" => d.ops[0].reg \in 4..7
  BY <1>2 DEF Decoded
<1>4. RegName(d.ops[0]) \notin Kept \ {SP}
  <2>1. CASE d.ops[0].rt = "GPH"
    <3>1. RegName(d.ops[0]) \in 0..3
      BY <1>3, <2>1 DEF RegName
    <3> QED
      BY <3>1, KeptRegisters DEF R14, R15
  <2>2. CASE d.ops[0].rt # "GPH"
    BY <2>2 DEF RegName
  <2> QED
    BY <2>1, <2>2
<1>5. \A k \in Written(d) : RegName(d.ops[k]) \notin Kept \ {SP}
  BY <1>1, <1>4
<1> QED
  BY <1>5, EffectKeeps, KeptRegisters

LEMMA UnreservedKeeps ==
    ASSUME NEW d, d \in Inst, Decoded(d), d.type \in OneOutput, ~reserved(opts, d, 0)
    PROVE  \A r \in Kept : Effect(d)[r] = regs[r]
<1>1. \A k \in Written(d) : k = 0
  BY OneOutputWrites, WritesOperands
<1>2. 0 \in OpIndex /\ 0 < nmod(d)
  BY OneOutputWrites DEF OpIndex
<1>3. \A k \in Written(d) : RegName(d.ops[k]) \notin Kept
  BY <1>1, <1>2, KeptUnwritten
<1> QED
  BY <1>3, EffectKeeps, KeptRegisters

\* The load through a register that has been truncated.
LEMMA LoadInside ==
    ASSUME NEW d, d \in Inst, Decoded(d), d.type = "MOV", d.ops[0].t = "REG",
           ~reserved(opts, d, 0), d.ops[1].t = "MEM", d.ops[1].reg = R14, d.ops[1].scale = 0,
           d.ops[1].index \in GPR, regs[d.ops[1].index] = "low", WrittenOut(d), Pinned
    PROVE  Safe(d) /\ \A r \in Kept : Effect(d)[r] = regs[r]
<1>1. d.ops[0].rt \in {"GPL", "GPH"} /\ d.ops[2].t = "NONE" /\ d.ops[3].t = "NONE"
      /\ \A k \in OpIndex : k \in {0, 1, 2, 3}
  BY PartOperands DEF OneOutput
<1>2. nmod(d) = 1
  BY DEF nmod
<1>3. d.ops[0].reg # SP
  BY <1>1, <1>2 DEF reserved
<1>4. d.seg = "NONE" /\ d.addrsize = 8
  BY <1>3 DEF WrittenOut, HasAddress, IsReg, OpIndex
<1>5. AddressInside(d, d.ops[1])
  BY <1>4 DEF AddressInside, IsBase, Pinned
<1>6. \A k \in OpIndex : d.ops[k].t = "MEM" => k = 1
  BY <1>1
<1>7. Safe(d)
  BY <1>5, <1>6, NoBitString DEF Safe, Escapes, AccessesInside, OneOutput
<1>8. \A r \in Kept : Effect(d)[r] = regs[r]
  BY UnreservedKeeps DEF OneOutput
<1> QED
  BY <1>7, <1>8

\* The lea of a return address.
LEMMA ReturnAddressSets ==
    ASSUME NEW d, d \in Inst, Decoded(d), d.type = "LEA", d.ops[0].t = "REG",
           d.ops[0].reg = R11, d.ops[1].t = "MEM", d.ops[1].reg = IP, WrittenOut(d)
    PROVE  Safe(d) /\ Sets(d, R11, "link")
<1>1. d.seg = "NONE" /\ d.addrsize = 8 /\ d.ops[0].size = 8
  BY DEF WrittenOut, HasAddress, IsReg, OpIndex, R11, SP
<1>2. LeaResult(d.ops[1]) = "link"
  BY DEF LeaResult
<1> QED
  BY <1>1, <1>2, LeaSets

\* The jump to the runtime.
LEMMA RuntimeJumpSafe ==
    ASSUME NEW d, d \in Inst, Decoded(d), d.type = "JMP", d.ops[0].t = "MEM",
           d.ops[0].reg = R14, d.ops[0].index = NoReg, WrittenOut(d), Pinned
    PROVE  Safe(d)
<1>1. d.ops[1].t = "NONE" /\ d.ops[2].t = "NONE" /\ d.ops[3].t = "NONE"
      /\ \A k \in OpIndex : k \in {0, 1, 2, 3}
  BY PartOperands
<1>2. d.seg = "NONE" /\ d.addrsize = 8
  BY DEF WrittenOut, HasAddress, IsReg, OpIndex
<1>3. AddressInside(d, d.ops[0])
  BY <1>2 DEF AddressInside, IsBase, Pinned
<1>4. \A k \in OpIndex : d.ops[k].t = "MEM" => k = 0
  BY <1>1
<1> QED
  BY <1>3, <1>4, NoBitString DEF Safe, Escapes, AccessesInside

LEMMA JumpSafe ==
    ASSUME NEW d, d \in Inst, Decoded(d), d.type \in {"JMP", "CALL"}, d.ops[0].t = "REG",
           regs[SP] \in InBox
    PROVE  Safe(d)
<1>1. \A k \in OpIndex : d.ops[k].t # "MEM"
  BY PartOperands
<1> QED
  BY <1>1 DEF Safe, Escapes, AccessesInside

\* The string instruction, which the model takes to leave the classes as they are.
LEMMA StringSafe ==
    ASSUME NEW d, d \in Inst, Decoded(d), d.type \in {"STOS", "MOVS", "CMPS"}, WrittenOut(d),
           regs \in [GPR -> Class],
           regs[DI] \in InBox, d.type # "STOS" => regs[SI] \in InBox
    PROVE  Safe(d) /\ Effect(d) = regs
<1>1. \A k \in OpIndex : d.ops[k].t = "NONE"
  BY DEF Decoded
<1>2. d.seg = "NONE" /\ d.addrsize = 8
  BY <1>1 DEF WrittenOut, HasAddress, IsReg, OpIndex
<1>3. Written(d) = {}
  BY <1>1, WritesOperands DEF Written
<1>4. Effect(d) = regs
  BY <1>3 DEF Effect
<1> QED
  BY <1>1, <1>2, <1>4 DEF Safe, Escapes, AccessesInside

LEMMA NopSafe == ASSUME NEW d, d.type = "NOP" PROVE Safe(d)
  BY DEF Safe, Escapes, AccessesInside


-----------------------------------------------------------------------------
(* Accepted code. *)

\* What the pass has established by the time code executes.
Ready == ExecTyped /\ VerdictInv /\ Apart /\ pc = "pass"

LEMMA UnitFacts ==
    ASSUME Ready, NEW p \in starts
    PROVE  /\ p \in Offset /\ p \in Nat /\ p < code.n /\ base + p \in Nat /\ Advances(code)
           /\ UnitOK(opts, code, p, base + p) /\ NextUnit(p) \in Nat /\ NextUnit(p) > p
           /\ NextUnit(p) \in Offset => NextUnit(p) \in starts
<1>1. IsCode(code) /\ base \in Nat /\ code.n \in Nat
  BY InputsTyped DEF Ready, ExecTyped
<1>2. starts \subseteq GoodUnits(opts, code, base) /\ TakesApart(opts, code, base, starts)
  BY DEF Ready, VerdictInv
<1>3. p \in 0..(code.n - 1) /\ UnitOK(opts, code, p, base + p)
  BY <1>2 DEF GoodUnits
<1>4. p \in Nat /\ p < code.n /\ base + p \in Nat
  BY <1>1, <1>3
<1>5. Unit(opts, code, p, base + p).size \in Nat \ {0}
  BY <1>1, <1>3, <1>4, UnitTyped
<1>6. NextUnit(p) \in Nat /\ NextUnit(p) > p
  BY <1>4, <1>5 DEF NextUnit
<1>7. NextUnit(p) \in Offset => NextUnit(p) \in starts
  <2>1. NextUnit(p) \in Offset => NextUnit(p) < code.n
    BY <1>1 DEF Offset
  <2> QED
    BY <1>2, <2>1 DEF TakesApart, NextUnit
<1> QED
  BY <1>1, <1>3, <1>4, <1>6, <1>7, CodeAdvances DEF Offset

\* Control may go to any bundle start.
LEMMA BundlesOpen ==
    ASSUME Ready, NEW q, (base + q) % BundleSize = 0
    PROVE  MayGoTo(q)
<1>1. base \in Nat /\ code.n \in Nat
  BY InputsTyped DEF Ready, ExecTyped
<1>2. TakesApart(opts, code, base, starts)
  BY DEF Ready, VerdictInv
<1>3. base % BundleSize = 0
  BY LoadAssumption DEF Ready, ExecTyped, TypeOK
<1>4. CASE q \in Offset
  <2>1. q \in 0..(code.n - 1) /\ q \in Nat
    BY <1>1, <1>4 DEF Offset
  <2>2. q % BundleSize = 0
    BY <1>1, <1>3, <2>1, SameBundles
  <2> QED
    BY <1>2, <1>4, <2>1, <2>2 DEF TakesApart, MayGoTo
<1>5. CASE q \notin Offset
  BY <1>5 DEF MayGoTo
<1> QED
  BY <1>4, <1>5

LEMMA BundleStartsAreUnits == ASSUME Ready PROVE BundleStarts \subseteq starts
<1> SUFFICES ASSUME NEW q \in BundleStarts PROVE q \in starts
  OBVIOUS
<1>1. q \in Offset /\ (base + q) % BundleSize = 0
  BY DEF BundleStarts
<1> QED
  BY <1>1, BundlesOpen DEF MayGoTo

\* An instruction that can be decoded ends within the code.
LEMMA KnownWithin ==
    ASSUME Ready, NEW q \in Nat, fd_decode(code, q).type # "INVALID"
    PROVE  q \in Offset /\ Second(code, q) \in Nat /\ Second(code, q) <= code.n
<1>1. IsCode(code) /\ code.n \in Nat
  BY InputsTyped DEF Ready, ExecTyped
<1>2. q < code.n
  BY DEF fd_decode, Undecodable
<1>3. q \in 0..(code.n - 1)
  BY <1>1, <1>2
<1>4. code.fd[q] \in Inst /\ q + code.fd[q].size <= code.n
  BY <1>1, <1>3 DEF IsCode
<1>5. Second(code, q) = q + code.fd[q].size
  BY <1>2 DEF Second, fd_decode
<1>6. code.fd[q].size \in Nat
  BY <1>4 DEF Inst
<1> QED
  BY <1>3, <1>4, <1>5, <1>6 DEF Offset

LEMMA EndOpen ==
    ASSUME Ready, NEW p \in starts, NextUnit(p) <= code.n
    PROVE  MayGoTo(NextUnit(p))
<1>1. code.n \in Nat
  BY InputsTyped DEF Ready, ExecTyped
<1>2. NextUnit(p) \in Nat /\ (NextUnit(p) \in Offset => NextUnit(p) \in starts)
  BY UnitFacts
<1>3. CASE NextUnit(p) \in Offset
  BY <1>2, <1>3 DEF MayGoTo
<1>4. CASE NextUnit(p) \notin Offset
  <2>1. NextUnit(p) = code.n
    BY <1>1, <1>2, <1>4 DEF Offset
  <2> QED
    BY <1>4, <2>1 DEF MayGoTo
<1> QED
  BY <1>3, <1>4

\* The group at p is its unit; its parts are in the code, and control may go on behind it.
LEMMA GroupFacts ==
    ASSUME Ready, NEW k \in 1..8, NEW p, GroupAt(k, p)
    PROVE  /\ NextUnit(p) = p + Group(k, code, p).size
           /\ IsMacro(opts, code, p, base + p)
           /\ PartsOf(k, code, p) \subseteq Offset
           /\ MayGoTo(NextUnit(p))
<1>1. /\ p \in starts /\ Shape(k, opts, code, p, base + p)
      /\ macroinst(opts, code, p, base + p) = Group(k, code, p)
  BY DEF GroupAt
<1>2. p \in Nat /\ base + p \in Nat /\ Advances(code)
  BY <1>1, UnitFacts
<1>3. Group(k, code, p).size \in Nat \ {0}
  BY <1>2, GroupTyped
<1>4. IsMacro(opts, code, p, base + p) /\ NextUnit(p) = p + Group(k, code, p).size
  BY <1>1, <1>3 DEF IsMacro, NextUnit, Unit
<1>5. \A q \in PartsOf(k, code, p) : q \in Nat
  BY <1>2, PartsWithin
<1>6. \A q \in PartsOf(k, code, p) : fd_decode(code, q).type # "INVALID"
  BY <1>1, PartsKnown
<1>7. \A q \in PartsOf(k, code, p) : q \in Offset /\ Second(code, q) <= code.n
  BY <1>5, <1>6, KnownWithin
<1>8. MayGoTo(NextUnit(p))
  <2>1. CASE k = 3
    <3>1. (base + p + Group(k, code, p).size) % BundleSize = 0
      BY <1>1, <2>1 DEF Shape, CallAt, Group
    <3>2. base + p + Group(k, code, p).size = base + NextUnit(p)
      <4>1. base \in Nat
        BY InputsTyped DEF Ready, ExecTyped
      <4> QED
        BY <1>2, <1>3, <1>4, <4>1
    <3> QED
      BY <3>1, <3>2, BundlesOpen
  <2>2. CASE k # 3
    <3>1. /\ Second(code, p) \in Nat /\ Third(code, p) \in Nat /\ Fourth(code, p) \in Nat
          /\ Second(code, Fifth(code, p)) \in Nat
      BY <1>2, PartsInOrder
    <3>2. CASE k \in {1, 4, 8}
      <4>1. p + Group(k, code, p).size = Second(code, Second(code, p))
        BY <1>2, <3>1, <3>2 DEF Group, Third
      <4>2. Second(code, p) \in PartsOf(k, code, p)
        BY <3>2 DEF PartsOf
      <4> QED
        BY <1>1, <1>4, <1>7, <4>1, <4>2, EndOpen
    <3>3. CASE k \in {2, 5}
      <4>1. p + Group(k, code, p).size = Second(code, Third(code, p))
        BY <1>2, <3>1, <3>3 DEF Group, Fourth
      <4>2. Third(code, p) \in PartsOf(k, code, p)
        BY <3>3 DEF PartsOf
      <4> QED
        BY <1>1, <1>4, <1>7, <4>1, <4>2, EndOpen
    <3>4. CASE k \in {6, 7}
      <4>1. p + Group(k, code, p).size = Second(code, Fifth(code, p))
        BY <1>2, <3>1, <3>4 DEF Group
      <4>2. Fifth(code, p) \in PartsOf(k, code, p)
        BY <3>4 DEF PartsOf
      <4> QED
        BY <1>1, <1>4, <1>7, <4>1, <4>2, EndOpen
    <3> QED
      BY <2>2, <3>2, <3>3, <3>4
  <2> QED
    BY <2>1, <2>2
<1> QED
  BY <1>4, <1>7, <1>8

\* The parts are as they are written.
LEMMA GroupWritten ==
    ASSUME Ready, AsWritten, NEW k \in 1..8, k # 3, NEW p, GroupAt(k, p)
    PROVE  \A q \in PartsOf(k, code, p) : WrittenOut(fd_decode(code, q))
<1>1. p \in starts /\ p \in Nat /\ Advances(code)
  BY UnitFacts DEF GroupAt
<1>2. IsMacro(opts, code, p, base + p) /\ NextUnit(p) = p + Group(k, code, p).size
  BY GroupFacts
<1>3. \A q \in InstStarts(code, p, NextUnit(p)) : WrittenOut(fd_decode(code, q))
  BY <1>1, <1>2 DEF AsWritten, NextUnit
<1>4. InstStarts(code, p, p + Group(k, code, p).size) = PartsOf(k, code, p)
  BY <1>1, GroupParts
<1> QED
  BY <1>2, <1>3, <1>4


-----------------------------------------------------------------------------
(* One step of the execution. *)

ExecStep == ExecPlain \/ ExecDirect \/ ExecNotTaken \/ ExecIndirect

LEMMA PlainStep ==
    ASSUME ExecTyped, where = "box", inst.type \notin Branches, ExecStep
    PROVE  /\ UNCHANGED vars /\ regs' = Effect(inst) /\ GoTo(Second(code, at))
           /\ link' = IF inst.type = "LEA" /\ inst.ops[1].reg = IP
                      THEN at + inst.size + inst.ops[1].val ELSE link
<1>1. ExecPlain
  BY DEF ExecStep, ExecDirect, ExecNotTaken, ExecIndirect, Direct, Branches
<1> QED
  BY <1>1, InstTyped DEF ExecPlain, Runs, Executes, Falls

\* A jump through a pointer that has been masked and rebased.
LEMMA MaskedStep ==
    ASSUME ExecTyped, where = "box", inst.type \in {"JMP", "CALL"}, inst.ops[0].t = "REG",
           regs[inst.ops[0].reg] = "target", ExecStep
    PROVE  UNCHANGED <<vars, regs, link>> /\ GoAnywhereMasked
<1>1. ExecIndirect
  BY DEF ExecStep, ExecPlain, ExecDirect, ExecNotTaken, Direct, Branches, CondBranches
<1> QED
  BY <1>1 DEF ExecIndirect, Runs, Executes

\* Control arrives at a unit, or leaves for other code.
LEMMA Arrives ==
    ASSUME Ready, UNCHANGED vars, NEW q, MayGoTo(q), GoTo(q), Pinned', (regs[SP] \in InBox)'
    PROVE  Inside'
<1>1. starts' = starts
  BY DEF vars
<1>2. CASE q \in Offset
  <2>1. where' = "box" /\ at' \in starts
    BY <1>2 DEF GoTo, MayGoTo
  <2>2. AtUnit'
    BY <1>1, <2>1 DEF AtUnit
  <2> QED
    BY <2>1, <2>2 DEF Inside
<1>3. CASE q \notin Offset
  <2>1. where' = "away"
    BY <1>3 DEF GoTo, MayGoTo
  <2> QED
    BY <2>1 DEF Inside
<1> QED
  BY <1>2, <1>3

LEMMA ArrivesMasked ==
    ASSUME Ready, UNCHANGED vars, GoAnywhereMasked, Pinned', (regs[SP] \in InBox)'
    PROVE  Inside'
<1>1. starts' = starts
  BY DEF vars
<1>2. CASE where' = "box" /\ at' \in BundleStarts
  <2>1. AtUnit'
    BY <1>1, <1>2, BundleStartsAreUnits DEF AtUnit
  <2> QED
    BY <1>2, <2>1 DEF Inside
<1>3. CASE where' = "away"
  BY <1>3 DEF Inside
<1> QED
  BY <1>2, <1>3 DEF GoAnywhereMasked

\* Control goes on to the next part of a group.
LEMMA GoesToPart ==
    ASSUME Ready, UNCHANGED vars, NEW k \in 1..8, NEW p, GroupAt(k, p),
           NEW q \in Offset, GoTo(q), Pinned',
           at' = q => Between(k, p)', k # 4 => (regs[SP] \in InBox)'
    PROVE  Inside'
<1>1. where' = "box" /\ at' = q
  BY DEF GoTo
<1>2. GroupAt(k, p)'
  BY DEF vars, GroupAt
<1>3. p \in starts'
  BY DEF vars, GroupAt
<1>4. Within(k, p)'
  BY <1>1, <1>2 DEF Within
<1> QED
  BY <1>1, <1>3, <1>4 DEF Inside

\* What is kept of the registers that must be.
LEMMA PinnedKept ==
    ASSUME Pinned, UNCHANGED vars, \A r \in Kept \ {SP} : regs'[r] = regs[r]
    PROVE  Pinned'
<1>1. opts' = opts
  BY DEF vars
<1>2. regs'[R14] = regs[R14]
  BY DEF Kept, SP, R14
<1>3. opts.ctxreg => regs'[R15] = regs[R15]
  BY DEF Kept, SP, R15
<1> QED
  BY <1>1, <1>2, <1>3 DEF Pinned

\* An instruction that sets one register, none of the reserved but perhaps rsp, and goes on.
LEMMA SetsStep ==
    ASSUME Ready, where = "box", Pinned, ExecStep, inst.type \notin Branches,
           NEW r, NEW class, Sets(inst, r, class), r \notin Kept \ {SP}
    PROVE  /\ UNCHANGED vars /\ GoTo(Second(code, at)) /\ Pinned'
           /\ regs'[r] = class /\ \A q \in GPR : q # r => regs'[q] = regs[q]
<1>1. UNCHANGED vars /\ regs' = Effect(inst) /\ GoTo(Second(code, at))
  BY PlainStep DEF Ready
<1>2. regs'[r] = class /\ \A q \in GPR : q # r => regs'[q] = regs[q]
  BY <1>1 DEF Sets
<1>3. Kept \subseteq GPR
  BY DEF Kept, GPR, SP, R14, R15
<1>4. Pinned'
  BY <1>1, <1>2, <1>3, PinnedKept
<1> QED
  BY <1>1, <1>2, <1>4

\* An instruction that leaves the classes as they are, and goes on.
LEMMA IdleStep ==
    ASSUME Ready, where = "box", Pinned, ExecStep, inst.type \notin Branches,
           Effect(inst) = regs
    PROVE  UNCHANGED <<vars, regs>> /\ GoTo(Second(code, at)) /\ Pinned'
<1>1. UNCHANGED <<vars, regs>> /\ GoTo(Second(code, at))
  BY PlainStep DEF Ready
<1> QED
  BY <1>1 DEF Pinned, vars


-----------------------------------------------------------------------------
(* A unit that is one instruction. *)

\* An instruction is fine if it reaches nothing outside and leads to where the invariant holds
\* again.
Fine == (NoBitStrings => Safe(inst)) /\ (ExecStep => Inside')

\* Where it leads, and what it keeps, whatever it reads and writes of memory.
LEMMA PlainUnitStep ==
    ASSUME Ready, at \in starts, ~IsMacro(opts, code, at, base + at), ExecStep
    PROVE  /\ UNCHANGED vars /\ \E q : MayGoTo(q) /\ GoTo(q)
           /\ WritesCounted => \A r \in Kept : regs'[r] = regs[r]
<1>1. UNCHANGED vars /\ where = "box"
  BY DEF ExecStep, ExecPlain, ExecDirect, ExecNotTaken, ExecIndirect, Runs, Executes
<1>2. at \in Nat /\ UnitOK(opts, code, at, base + at) /\ base + at \in Nat
  BY UnitFacts
<1>3. inst \in Inst /\ Decoded(inst) /\ at + inst.size = Second(code, at)
        /\ at + inst.size \in 0..code.n
  BY <1>1, InstTyped DEF Ready
<1>4. Checks(opts, inst, base + at)
  BY <1>2 DEF UnitOK, inst
<1>5. MayGoTo(at + inst.size)
  <2>1. NextUnit(at) = at + inst.size
    BY DEF NextUnit, Unit, IsMacro, inst
  <2>2. code.n \in Nat
    BY InputsTyped DEF Ready, ExecTyped
  <2>3. NextUnit(at) <= code.n
    BY <1>3, <2>1, <2>2
  <2> QED
    BY <2>1, <2>3, EndOpen
<1>6. CASE ExecPlain
  <2>1. regs' = Effect(inst) /\ GoTo(at + inst.size)
    BY <1>6 DEF ExecPlain, Falls
  <2>2. inst = fd_decode(code, at)
    BY <1>1, InstTyped DEF Ready
  <2>3. WritesCounted => \A r \in Kept : Effect(inst)[r] = regs[r]
    BY <1>3, <1>4, <2>2, CheckedKeeps DEF Checks, WritesCounted
  <2> QED
    BY <1>1, <1>5, <2>1, <2>3
<1>7. CASE ExecDirect
  <2>1. GoTo(Target(inst, base + at) - base) /\ UNCHANGED regs /\ Direct(inst)
    BY <1>7 DEF ExecDirect
  <2>2. Target(inst, base + at) % BundleSize = 0
    BY <1>4, <2>1 DEF Checks, chkbranch, Direct
  <2> DEFINE q == Target(inst, base + at) - base
  <2>3. base + q = Target(inst, base + at)
    <3>1. inst.ops[0] \in Op /\ inst.size \in Int
      BY <1>3 DEF Inst, OpIndex
    <3>2. inst.ops[0].val \in Int
      BY <3>1 DEF Op
    <3>3. base \in Nat
      BY InputsTyped DEF Ready, ExecTyped
    <3> QED
      BY <1>2, <3>1, <3>2, <3>3 DEF Target
  <2>4. (base + q) % BundleSize = 0
    BY <2>2, <2>3
  <2>5. MayGoTo(q)
    BY <2>4, BundlesOpen
  <2> QED
    BY <1>1, <2>1, <2>5
<1>8. CASE ExecNotTaken
  BY <1>1, <1>5, <1>8 DEF ExecNotTaken, Falls
<1>9. CASE ExecIndirect
  BY <1>4, <1>9 DEF ExecIndirect, Checks, chkbranch, Branches
<1> QED
  BY <1>6, <1>7, <1>8, <1>9 DEF ExecStep

LEMMA PlainUnitFine ==
    ASSUME Ready, WritesCounted, where = "box", Pinned, AtUnit,
           ~IsMacro(opts, code, at, base + at)
    PROVE  Fine
<1>1. /\ at \in starts /\ regs[SP] \in InBox /\ UnitOK(opts, code, at, base + at)
  BY UnitFacts DEF AtUnit
<1>2. inst \in Inst /\ Decoded(inst)
  BY InstTyped DEF Ready
<1>3. Checks(opts, inst, base + at)
  BY <1>1 DEF UnitOK, inst
<1>4. NoBitStrings => Safe(inst)
  <2>1. inst = fd_decode(code, at)
    BY InstTyped DEF Ready
  <2> QED
    BY <1>1, <1>2, <1>3, <2>1, CheckedInside DEF Safe, NoBitStrings
<1>5. ASSUME ExecStep PROVE Inside'
  <2>1. UNCHANGED vars /\ \A r \in Kept : regs'[r] = regs[r]
    BY <1>1, <1>5, PlainUnitStep
  <2>2. PICK q : MayGoTo(q) /\ GoTo(q)
    BY <1>1, <1>5, PlainUnitStep
  <2>3. Pinned'
    BY <2>1, PinnedKept
  <2>4. (regs[SP] \in InBox)'
    BY <1>1, <2>1 DEF Kept, InBox
  <2> QED
    BY <2>1, <2>2, <2>3, <2>4, Arrives
<1> QED
  BY <1>4, <1>5 DEF Fine

-----------------------------------------------------------------------------
(* The parts of a group. *)

\* Control is at the start of the group at p, or between its parts.
On(k, p) == (at = p /\ regs[SP] \in InBox) \/ Within(k, p)

LEMMA PartsInst ==
    ASSUME Ready, where = "box", NEW q, at = q
    PROVE  inst = fd_decode(code, q) /\ inst \in Inst /\ Decoded(inst)
  BY InstTyped DEF Ready

LEMMA PartTyped ==
    ASSUME Ready, NEW q \in Offset
    PROVE  fd_decode(code, q) \in Inst /\ Decoded(fd_decode(code, q))
<1>1. PICK c \in Calls : code = c.code
  BY DEF Ready, ExecTyped, TypeOK
<1>2. IsCode(code) /\ code.n \in Nat
  BY InputsTyped DEF Ready, ExecTyped
<1>3. q \in 0..(code.n - 1)
  BY DEF Offset
<1>4. fd_decode(code, q) = code.fd[q]
  BY <1>2, <1>3 DEF fd_decode
<1>5. code.fd[q] \in Inst
  BY <1>2, <1>3 DEF IsCode
<1>6. Decoded(code.fd[q])
  BY <1>1, <1>3, DecoderAssumption
<1> QED
  BY <1>4, <1>5, <1>6

\* Where a group ends.
LEMMA GroupEnds ==
    ASSUME Ready, NEW k \in 1..8, NEW p, GroupAt(k, p)
    PROVE  /\ k \in {1, 4, 8} => MayGoTo(Second(code, Second(code, p)))
           /\ k \in {2, 5} => MayGoTo(Second(code, Third(code, p)))
           /\ k \in {6, 7} => MayGoTo(Second(code, Fifth(code, p)))
           /\ k = 3 => MayGoTo(p + Loop(code, p).count)
<1>1. MayGoTo(p + Group(k, code, p).size)
  <2>1. NextUnit(p) = p + Group(k, code, p).size /\ MayGoTo(NextUnit(p))
    BY GroupFacts
  <2> QED
    BY <2>1
<1>2. /\ p \in Nat /\ Third(code, p) \in Nat /\ Fourth(code, p) \in Nat
      /\ Second(code, Fifth(code, p)) \in Nat
  <2>1. p \in Nat /\ Advances(code)
    BY UnitFacts DEF GroupAt
  <2> QED
    BY <2>1, PartsInOrder
<1>3. CASE k \in {1, 4, 8}
  <2>1. p + Group(k, code, p).size = Third(code, p)
    BY <1>2, <1>3 DEF Group
  <2> QED
    BY <1>1, <1>3, <2>1 DEF Third
<1>4. CASE k \in {2, 5}
  <2>1. p + Group(k, code, p).size = Fourth(code, p)
    BY <1>2, <1>4 DEF Group
  <2> QED
    BY <1>1, <1>4, <2>1 DEF Fourth
<1>5. CASE k \in {6, 7}
  <2>1. p + Group(k, code, p).size = Second(code, Fifth(code, p))
    BY <1>2, <1>5 DEF Group
  <2> QED
    BY <1>1, <1>5, <2>1
<1>6. CASE k = 3
  <2>1. Group(k, code, p).size = Loop(code, p).count
    BY <1>6 DEF Group
  <2> QED
    BY <1>1, <1>6, <2>1
<1> QED
  BY <1>3, <1>4, <1>5, <1>6

LEMMA LoadFine ==
    ASSUME Ready, AsWritten, where = "box", Pinned, NEW p, GroupAt(1, p), On(1, p)
    PROVE  Fine
<1> DEFINE p2 == Second(code, p)  r == FirstReg(p)
<1>1. 1 \in 1..8 /\ p \in starts /\ p \in Nat /\ Advances(code)
  BY UnitFacts DEF GroupAt
<1>2. LoadAt(opts, code, p)
  BY DEF GroupAt, Shape
<1>3. p2 \in Offset /\ WrittenOut(fd_decode(code, p2))
  BY <1>1, GroupFacts, GroupWritten DEF PartsOf
<1>4. MayGoTo(Second(code, p2))
  BY <1>1, GroupEnds
<1>5. CASE at = p /\ regs[SP] \in InBox
  <2>1. inst = fd_decode(code, p) /\ inst \in Inst /\ Decoded(inst)
    BY <1>5, PartsInst
  <2>2. Truncates(inst, r) /\ ~reserved(opts, inst, 0) /\ inst.type = "MOV"
    BY <1>2, <2>1 DEF LoadAt, FirstReg, Truncates
  <2>3. Safe(inst) /\ Sets(inst, r, "low")
    BY <2>1, <2>2, TruncatesSets
  <2>4. r \notin Kept
    <3>1. inst.ops[0].rt = "GPL" /\ nmod(inst) = 1 /\ inst.ops[0].reg = r
      BY <2>1, <2>2, EffectWrites, OneOutputWrites DEF Truncates, IsReg, OneOutput
    <3> QED
      BY <2>2, <3>1 DEF reserved, Kept
  <2>5. ASSUME ExecStep PROVE Inside'
    <3>1. inst.type \notin Branches
      BY <2>2 DEF Branches, CondBranches
    <3>2. /\ UNCHANGED vars /\ GoTo(p2) /\ Pinned' /\ regs'[r] = "low"
          /\ \A q \in GPR : q # r => regs'[q] = regs[q]
      BY <1>5, <2>3, <2>4, <2>5, <3>1, SetsStep
    <3>3. regs'[SP] = regs[SP]
      BY <2>4, <3>2 DEF Kept, GPR, SP
    <3>4. at' = p2
      BY <1>3, <3>2 DEF GoTo
    <3>5. Between(1, p)'
      BY <3>2, <3>4 DEF Between, FirstReg, vars
    <3> QED
      BY <1>1, <1>3, <1>5, <3>2, <3>3, <3>5, GoesToPart
  <2> QED
    BY <2>3, <2>5 DEF Fine
<1>6. CASE Within(1, p)
  <2>1. at = p2 /\ regs[r] = "low" /\ regs[SP] \in InBox
    BY <1>6 DEF Within, Between
  <2>2. inst = fd_decode(code, p2) /\ inst \in Inst /\ Decoded(inst)
    BY <2>1, PartsInst
  <2>3. r \in GPR
    <3>1. p \in Offset
      BY <1>1, GroupFacts DEF PartsOf
    <3>2. Decoded(fd_decode(code, p)) /\ fd_decode(code, p) \in Inst
      BY <3>1, PartTyped
    <3>3. Truncates(fd_decode(code, p), r)
      BY <1>2 DEF LoadAt, FirstReg
    <3> QED
      BY <3>2, <3>3, TruncatesSets DEF Sets
  <2>4. Safe(inst) /\ \A q \in Kept : Effect(inst)[q] = regs[q]
    BY <1>2, <1>3, <2>1, <2>2, <2>3, LoadInside DEF LoadAt, FirstReg
  <2>5. ASSUME ExecStep PROVE Inside'
    <3>1. inst.type \notin Branches
      BY <1>2, <2>2 DEF LoadAt, Branches, CondBranches
    <3>2. UNCHANGED vars /\ regs' = Effect(inst) /\ GoTo(Second(code, p2))
      BY <2>1, <2>5, <3>1, PlainStep DEF Ready
    <3>3. Pinned'
      BY <2>4, <3>2, PinnedKept
    <3>4. regs'[SP] = regs[SP]
      BY <2>4, <3>2 DEF Kept
    <3> QED
      BY <1>4, <2>1, <3>2, <3>3, <3>4, Arrives
  <2> QED
    BY <2>4, <2>5 DEF Fine
<1> QED
  BY <1>5, <1>6 DEF On


\* The loop has stopped at a call: before it there are nops only.
LEMMA AmongNops ==
    ASSUME Ready, NEW p, GroupAt(3, p), NEW j \in Nat,
           PastNops(code, p, j).count = Loop(code, p).count,
           PastNops(code, p, j).last = Loop(code, p).last
    PROVE  LET d == fd_decode(code, p + j) IN
           /\ p + j \in Offset /\ d.size \in Nat
           /\ \/ /\ d.type = "NOP"
                 /\ PastNops(code, p, j + d.size).count = Loop(code, p).count
                 /\ PastNops(code, p, j + d.size).last = Loop(code, p).last
              \/ /\ d.type = "CALL" /\ d.ops[0].t = "REG" /\ d.ops[0].reg = FirstReg(p)
                 /\ j + d.size = Loop(code, p).count
<1> DEFINE d == fd_decode(code, p + j)
<1>1. p \in Nat /\ Advances(code) /\ p + j \in Nat
  BY UnitFacts DEF GroupAt
<1>2. /\ Loop(code, p).last.type = "CALL" /\ Loop(code, p).last.ops[0].t = "REG"
      /\ Loop(code, p).last.ops[0].reg = FirstReg(p)
  BY DEF GroupAt, Shape, CallAt, Through, FirstReg
<1>3. d.size \in Nat
  BY <1>1 DEF Advances
<1>4. j < BundleSize /\ d.type # "INVALID"
  <2>1. ~(j >= BundleSize \/ d.type = "INVALID")
    BY <1>1, <1>2, PastNopsStops DEF Undecodable
  <2> QED
    BY <2>1, BundleAssumption
<1>5. p + j \in Offset
  BY <1>1, <1>4, KnownWithin
<1>6. CASE d.type = "NOP"
  BY <1>1, <1>3, <1>4, <1>5, <1>6, PastNopsGoesOn
<1>7. CASE d.type # "NOP"
  BY <1>1, <1>2, <1>3, <1>4, <1>5, <1>7, PastNopsEnds
<1> QED
  BY <1>6, <1>7

\* The mask and the add of a jump or a call.
LEMMA MaskFine ==
    ASSUME Ready, where = "box", Pinned, NEW k \in {2, 3}, NEW p, GroupAt(k, p),
           at = p, regs[SP] \in InBox
    PROVE  Fine
<1> DEFINE p2 == Second(code, p)  r == FirstReg(p)
<1>1. k \in 1..8 /\ MaskedAt(opts, code, p)
  BY DEF GroupAt, Shape, JmpAt, CallAt
<1>2. p2 \in Offset
  BY <1>1, GroupFacts DEF PartsOf
<1>3. inst = fd_decode(code, p) /\ inst \in Inst /\ Decoded(inst)
  BY PartsInst
<1>4. MasksReg(opts, inst) /\ inst.ops[0].reg = r
  BY <1>1, <1>3 DEF MaskedAt, FirstReg
<1>5. Safe(inst) /\ Sets(inst, r, "masked") /\ r \notin Kept
  BY <1>3, <1>4, MasksSets
<1>6. ASSUME ExecStep PROVE Inside'
  <2>1. inst.type \notin Branches
    BY <1>4 DEF MasksReg, Branches, CondBranches
  <2>2. /\ UNCHANGED vars /\ GoTo(p2) /\ Pinned' /\ regs'[r] = "masked"
        /\ \A q \in GPR : q # r => regs'[q] = regs[q]
    BY <1>5, <1>6, <2>1, SetsStep
  <2>3. regs'[SP] = regs[SP]
    BY <1>5, <2>2 DEF Kept, GPR, SP
  <2>4. at' = p2
    BY <1>2, <2>2 DEF GoTo
  <2>5. Between(k, p)'
    BY <2>2, <2>4 DEF Between, FirstReg, vars
  <2> QED
    BY <1>1, <1>2, <2>2, <2>3, <2>5, GoesToPart
<1> QED
  BY <1>5, <1>6 DEF Fine

\* The register a jump or a call goes through is none that must be kept.
LEMMA MaskedReg ==
    ASSUME Ready, NEW k \in {2, 3}, NEW p, GroupAt(k, p)
    PROVE  FirstReg(p) \in GPR /\ FirstReg(p) \notin Kept /\ FirstReg(p) # R14
<1>1. k \in 1..8 /\ MaskedAt(opts, code, p)
  BY DEF GroupAt, Shape, JmpAt, CallAt
<1>2. p \in Offset
  BY <1>1, GroupFacts DEF PartsOf
<1>3. fd_decode(code, p) \in Inst /\ Decoded(fd_decode(code, p))
  BY <1>2, PartTyped
<1>4. MasksReg(opts, fd_decode(code, p))
  BY <1>1 DEF MaskedAt
<1> QED
  BY <1>3, <1>4, MasksSets DEF Sets, FirstReg, Kept

LEMMA MaskedAddFine ==
    ASSUME Ready, where = "box", Pinned, NEW k \in {2, 3}, NEW p, GroupAt(k, p),
           at = Second(code, p), regs[FirstReg(p)] = "masked", regs[SP] \in InBox
    PROVE  Fine
<1> DEFINE p2 == Second(code, p)  p3 == Third(code, p)  r == FirstReg(p)
<1>1. k \in 1..8 /\ MaskedAt(opts, code, p) /\ p \in Nat /\ Advances(code)
  BY UnitFacts DEF GroupAt, Shape, JmpAt, CallAt
<1>2. r \in GPR /\ r \notin Kept /\ r # R14
  BY MaskedReg
<1>3. inst = fd_decode(code, p2) /\ inst \in Inst /\ Decoded(inst)
  BY PartsInst
<1>4. AddsBase(inst, r)
  BY <1>1, <1>3 DEF MaskedAt, FirstReg
<1>5. Safe(inst) /\ Sets(inst, r, "target")
  <2>1. Rebased("masked") = "target"
    BY DEF Rebased
  <2> QED
    BY <1>2, <1>3, <1>4, <2>1, AddsSets
<1>6. ASSUME ExecStep PROVE Inside'
  <2>1. inst.type \notin Branches
    BY <1>4 DEF AddsBase, mask_add, Branches, CondBranches
  <2>2. /\ UNCHANGED vars /\ GoTo(p3) /\ Pinned' /\ regs'[r] = "target"
        /\ \A q \in GPR : q # r => regs'[q] = regs[q]
    BY <1>2, <1>5, <1>6, <2>1, SetsStep DEF Third
  <2>3. regs'[SP] = regs[SP]
    BY <1>2, <2>2 DEF Kept, GPR, SP
  <2>4. CASE k = 2
    <3>1. p3 \in Offset
      BY <1>1, <2>4, GroupFacts DEF PartsOf
    <3>2. at' = p3
      BY <2>2, <3>1 DEF GoTo
    <3>3. Between(2, p)'
      BY <2>2, <3>2 DEF Between, FirstReg, vars
    <3> QED
      BY <1>1, <2>2, <2>3, <2>4, <3>1, <3>3, GoesToPart
  <2>5. CASE k = 3
    <3> DEFINE j == p3 - p
    <3>1. j \in Nat /\ p3 = p + j
      <4>1. p3 \in Nat /\ p3 > p2 /\ p2 > p /\ p2 \in Nat
        BY <1>1, PartsInOrder
      <4> QED
        BY <1>1, <4>1
    <3>2. PastNops(code, p, j) = Loop(code, p)
      BY DEF Loop
    <3> HIDE DEF j
    <3>3. p3 \in Offset
      BY <2>5, <3>1, <3>2, AmongNops
    <3>4. at' = p3 /\ code' = code
      BY <2>2, <3>3 DEF GoTo, vars
    <3>5. NearCall(p)'
      BY <3>1, <3>2, <3>4 DEF NearCall
    <3>6. Between(3, p)'
      BY <2>2, <3>5 DEF Between, FirstReg, vars
    <3> QED
      BY <1>1, <2>2, <2>3, <2>5, <3>3, <3>6, GoesToPart
  <2> QED
    BY <2>4, <2>5
<1> QED
  BY <1>5, <1>6 DEF Fine

\* A jump or call through a pointer that has been masked and rebased.
LEMMA ThroughFine ==
    ASSUME Ready, where = "box", Pinned, regs[SP] \in InBox, inst.type \in {"JMP", "CALL"},
           inst.ops[0].t = "REG", regs[inst.ops[0].reg] = "target"
    PROVE  Fine
<1>1. inst \in Inst /\ Decoded(inst)
  BY InstTyped DEF Ready
<1>2. Safe(inst)
  BY <1>1, JumpSafe
<1>3. ASSUME ExecStep PROVE Inside'
  <2>1. UNCHANGED <<vars, regs, link>> /\ GoAnywhereMasked
    BY <1>3, MaskedStep DEF Ready
  <2>2. Pinned'
    BY <2>1, PinnedKept
  <2> QED
    BY <2>1, <2>2, ArrivesMasked
<1> QED
  BY <1>2, <1>3 DEF Fine

LEMMA JmpFine ==
    ASSUME Ready, where = "box", Pinned, NEW p, GroupAt(2, p), On(2, p)
    PROVE  Fine
<1>1. CASE at = p /\ regs[SP] \in InBox
  BY <1>1, MaskFine
<1>2. CASE at = Second(code, p) /\ regs[FirstReg(p)] = "masked" /\ regs[SP] \in InBox
  BY <1>2, MaskedAddFine
<1>3. CASE at = Third(code, p) /\ regs[FirstReg(p)] = "target" /\ regs[SP] \in InBox
  <2>1. inst = fd_decode(code, Third(code, p))
    BY <1>3, PartsInst
  <2>2. inst.type = "JMP" /\ inst.ops[0].t = "REG" /\ inst.ops[0].reg = FirstReg(p)
    BY <2>1 DEF GroupAt, Shape, JmpAt, Through, FirstReg
  <2> QED
    BY <1>3, <2>2, ThroughFine
<1> QED
  BY <1>1, <1>2, <1>3 DEF On, Within, Between

LEMMA CallFine ==
    ASSUME Ready, where = "box", Pinned, NEW p, GroupAt(3, p), On(3, p)
    PROVE  Fine
<1>1. CASE at = p /\ regs[SP] \in InBox
  BY <1>1, MaskFine
<1>2. CASE at = Second(code, p) /\ regs[FirstReg(p)] = "masked" /\ regs[SP] \in InBox
  BY <1>2, MaskedAddFine
<1>3. CASE NearCall(p) /\ regs[FirstReg(p)] = "target" /\ regs[SP] \in InBox
  <2>1. PICK j \in Nat : /\ at = p + j
                         /\ PastNops(code, p, j).count = Loop(code, p).count
                         /\ PastNops(code, p, j).last = Loop(code, p).last
    BY <1>3 DEF NearCall
  <2>2. inst = fd_decode(code, p + j)
    BY <2>1, PartsInst
  <2>3. /\ inst.size \in Nat
        /\ \/ /\ inst.type = "NOP"
              /\ PastNops(code, p, j + inst.size).count = Loop(code, p).count
              /\ PastNops(code, p, j + inst.size).last = Loop(code, p).last
           \/ inst.type = "CALL" /\ inst.ops[0].t = "REG" /\ inst.ops[0].reg = FirstReg(p)
    BY <2>1, <2>2, AmongNops
  <2>4. CASE inst.type = "CALL"
    BY <1>3, <2>3, <2>4, ThroughFine
  <2>5. CASE inst.type = "NOP"
    <3> DEFINE i == j + inst.size
    <3>1. i \in Nat /\ PastNops(code, p, i).count = Loop(code, p).count
            /\ PastNops(code, p, i).last = Loop(code, p).last
      BY <2>3, <2>5
    <3>2. at + inst.size = p + i /\ Second(code, at) = p + i
      <4>1. p \in Nat /\ at + inst.size = Second(code, at)
        BY UnitFacts, InstTyped DEF GroupAt, Ready
      <4> QED
        BY <2>1, <2>3, <4>1
    <3> HIDE DEF i
    <3>3. p + i \in Offset
      BY <3>1, AmongNops
    <3>4. Effect(inst) = regs
      BY <2>5, NopWrites DEF Ready, ExecTyped, ExecTypeOK
    <3>5. ASSUME ExecStep PROVE Inside'
      <4>1. inst.type \notin Branches
        BY <2>5 DEF Branches, CondBranches
      <4>2. UNCHANGED <<vars, regs>> /\ GoTo(p + i) /\ Pinned'
        BY <3>2, <3>4, <3>5, <4>1, IdleStep
      <4>3. at' = p + i /\ code' = code
        BY <3>3, <4>2 DEF GoTo, vars
      <4>4. NearCall(p)'
        BY <3>1, <4>3 DEF NearCall
      <4>5. Between(3, p)'
        BY <1>3, <4>2, <4>3, <4>4 DEF Between, FirstReg
      <4>6. 3 \in 1..8
        OBVIOUS
      <4> QED
        BY <1>3, <3>3, <4>2, <4>5, <4>6, GoesToPart
    <3> QED
      BY <2>5, <3>5, NopSafe DEF Fine
  <2> QED
    BY <2>3, <2>4, <2>5
<1> QED
  BY <1>1, <1>2, <1>3 DEF On, Within, Between


LEMMA ModspFine ==
    ASSUME Ready, AsWritten, where = "box", Pinned, NEW p, GroupAt(4, p), On(4, p)
    PROVE  Fine
<1> DEFINE p2 == Second(code, p)
<1>1. 4 \in 1..8 /\ ModspAt(code, p)
  BY DEF GroupAt, Shape
<1>2. p2 \in Offset /\ WrittenOut(fd_decode(code, p)) /\ WrittenOut(fd_decode(code, p2))
  BY <1>1, GroupFacts, GroupWritten DEF PartsOf
<1>3. SP \notin Kept \ {SP} /\ SP \in GPR
  BY DEF SP, GPR
<1>4. CASE at = p /\ regs[SP] \in InBox
  <2>1. inst = fd_decode(code, p) /\ inst \in Inst /\ Decoded(inst)
    BY <1>4, PartsInst
  <2>2. inst.type \in {"MOV", "ADD", "AND", "SUB", "LEA"} /\ IsReg(inst, 0, SP, 4)
    BY <1>1, <2>1 DEF ModspAt
  <2>3. Safe(inst)
    BY <1>2, <2>1, <2>2, ModspMoves
  <2>4. PICK class \in {"low", "masked"} : Sets(inst, SP, class)
    BY <1>2, <2>1, <2>2, ModspMoves
  <2>5. ASSUME ExecStep PROVE Inside'
    <3>1. inst.type \notin Branches
      BY <2>2 DEF Branches, CondBranches
    <3>2. UNCHANGED vars /\ GoTo(p2) /\ Pinned' /\ regs'[SP] = class
      BY <1>3, <1>4, <2>4, <2>5, <3>1, SetsStep
    <3>3. at' = p2
      BY <1>2, <3>2 DEF GoTo
    <3>4. Between(4, p)'
      BY <2>4, <3>2, <3>3 DEF Between, vars
    <3> QED
      BY <1>1, <1>2, <3>2, <3>4, GoesToPart
  <2> QED
    BY <2>3, <2>5 DEF Fine
<1>5. CASE at = p2 /\ regs[SP] \in {"low", "masked"}
  <2>1. inst = fd_decode(code, p2) /\ inst \in Inst /\ Decoded(inst)
    BY <1>5, PartsInst
  <2>2. \/ AddsBase(inst, SP)
        \/ /\ inst.type = "LEA" /\ IsReg(inst, 0, SP, 8) /\ inst.ops[1].reg = SP
           /\ inst.ops[1].t = "MEM"
           /\ inst.ops[1].index = R14 /\ inst.ops[1].val = 0 /\ inst.ops[1].scale = 0
    BY <1>1, <2>1 DEF ModspAt
  <2>3. SP # R14
    BY DEF SP, R14
  <2>4. Safe(inst) /\ Sets(inst, SP, Rebased(regs[SP]))
    BY <1>2, <2>1, <2>2, <2>3, AddsSets, ModspRebases
  <2>5. Rebased(regs[SP]) \in InBox
    BY <1>5 DEF Rebased, InBox
  <2>6. ASSUME ExecStep PROVE Inside'
    <3>1. inst.type \notin Branches
      BY <2>2 DEF AddsBase, mask_add, Branches, CondBranches
    <3>2. UNCHANGED vars /\ GoTo(Second(code, p2)) /\ Pinned' /\ regs'[SP] = Rebased(regs[SP])
      BY <1>3, <1>5, <2>4, <2>6, <3>1, SetsStep
    <3>3. MayGoTo(Second(code, p2))
      BY <1>1, GroupEnds
    <3> QED
      BY <2>5, <3>2, <3>3, Arrives
  <2> QED
    BY <2>4, <2>6 DEF Fine
<1> QED
  BY <1>4, <1>5 DEF On, Within, Between

\* A truncation of r, at q, that goes on to the next part.
LEMMA TruncatesFine ==
    ASSUME Ready, where = "box", Pinned, NEW k \in 5..7, NEW p, GroupAt(k, p),
           NEW q, at = q, NEW r \in {DI, SI}, Truncates(fd_decode(code, q), r),
           Second(code, q) \in Offset, regs[SP] \in InBox,
           ASSUME UNCHANGED vars, at' = Second(code, q), regs'[r] = "low",
                  \A s \in GPR : s # r => regs'[s] = regs[s]
           PROVE  Between(k, p)'
    PROVE  Fine
<1>1. inst = fd_decode(code, q) /\ inst \in Inst /\ Decoded(inst) /\ Truncates(inst, r)
  BY PartsInst
<1>2. Safe(inst) /\ Sets(inst, r, "low")
  BY <1>1, TruncatesSets
<1>3. r \notin Kept \ {SP} /\ r # SP /\ SP \in GPR /\ k \in 1..8 /\ k # 4
  BY DEF Kept, DI, SI, SP, R14, R15, GPR
<1>4. ASSUME ExecStep PROVE Inside'
  <2>1. inst.type \notin Branches
    BY <1>1 DEF Truncates, Branches, CondBranches
  <2>2. /\ UNCHANGED vars /\ GoTo(Second(code, q)) /\ Pinned' /\ regs'[r] = "low"
        /\ \A s \in GPR : s # r => regs'[s] = regs[s]
    BY <1>2, <1>3, <1>4, <2>1, SetsStep
  <2>3. at' = Second(code, q)
    BY <2>2 DEF GoTo
  <2>4. Between(k, p)'
    BY <2>2, <2>3
  <2>5. regs'[SP] \in InBox
    BY <1>3, <2>2
  <2> QED
    BY <1>3, <2>2, <2>4, <2>5, GoesToPart
<1> QED
  BY <1>2, <1>4 DEF Fine

\* A lea that rebases r, at q.
LEMMA LeasFine ==
    ASSUME Ready, where = "box", Pinned, NEW k \in 5..7, NEW p, GroupAt(k, p),
           NEW q, at = q, NEW r \in {DI, SI}, LeasBase(fd_decode(code, q), r),
           WrittenOut(fd_decode(code, q)), regs[r] = "low",
           Second(code, q) \in Offset, regs[SP] \in InBox,
           ASSUME UNCHANGED vars, at' = Second(code, q), regs'[r] \in InBox,
                  \A s \in GPR : s # r => regs'[s] = regs[s]
           PROVE  Between(k, p)'
    PROVE  Fine
<1>1. inst = fd_decode(code, q) /\ inst \in Inst /\ Decoded(inst) /\ LeasBase(inst, r)
        /\ WrittenOut(inst)
  BY PartsInst
<1>2. r \notin Kept \ {SP} /\ r # SP /\ SP \in GPR /\ r \in GPR /\ k \in 1..8 /\ k # 4
  BY DEF Kept, DI, SI, SP, R14, R15, GPR
<1>3. Safe(inst) /\ Sets(inst, r, Rebased(regs[r]))
  BY <1>1, <1>2, LeasSets
<1>4. Rebased(regs[r]) \in InBox
  BY DEF Rebased, InBox
<1>5. ASSUME ExecStep PROVE Inside'
  <2>1. inst.type \notin Branches
    BY <1>1 DEF LeasBase, Branches, CondBranches
  <2>2. /\ UNCHANGED vars /\ GoTo(Second(code, q)) /\ Pinned' /\ regs'[r] = Rebased(regs[r])
        /\ \A s \in GPR : s # r => regs'[s] = regs[s]
    BY <1>2, <1>3, <1>5, <2>1, SetsStep
  <2>3. at' = Second(code, q)
    BY <2>2 DEF GoTo
  <2>4. Between(k, p)'
    BY <1>4, <2>2, <2>3
  <2>5. regs'[SP] \in InBox
    BY <1>2, <2>2
  <2> QED
    BY <1>2, <2>2, <2>4, <2>5, GoesToPart
<1> QED
  BY <1>3, <1>5 DEF Fine

\* The string instruction at the end of a group.
LEMMA StringFine ==
    ASSUME Ready, where = "box", Pinned, NEW q, at = q,
           fd_decode(code, q).type \in {"STOS", "MOVS", "CMPS"},
           WrittenOut(fd_decode(code, q)), regs[SP] \in InBox, regs[DI] \in InBox,
           fd_decode(code, q).type # "STOS" => regs[SI] \in InBox,
           MayGoTo(Second(code, q))
    PROVE  Fine
<1>1. inst = fd_decode(code, q) /\ inst \in Inst /\ Decoded(inst)
  BY PartsInst
<1>2. regs \in [GPR -> Class]
  BY DEF Ready, ExecTyped, ExecTypeOK
<1>3. Safe(inst) /\ Effect(inst) = regs
  BY <1>1, <1>2, StringSafe
<1>4. ASSUME ExecStep PROVE Inside'
  <2>1. inst.type \notin Branches
    BY <1>1 DEF Branches, CondBranches
  <2>2. UNCHANGED <<vars, regs>> /\ GoTo(Second(code, q)) /\ Pinned'
    BY <1>3, <1>4, <2>1, IdleStep
  <2> QED
    BY <2>2, Arrives
<1> QED
  BY <1>3, <1>4 DEF Fine


\* What the three groups around a string instruction have in common.
LEMMA StringGroup ==
    ASSUME Ready, AsWritten, NEW k \in 5..7, NEW p, GroupAt(k, p)
    PROVE  /\ Rebases(code, p, DI) /\ k \in 1..8 /\ k # 4
           /\ Second(code, p) \in Offset /\ Third(code, p) \in Offset
           /\ WrittenOut(fd_decode(code, Second(code, p)))
           /\ k = 5 => /\ fd_decode(code, Third(code, p)).type = "STOS"
                       /\ WrittenOut(fd_decode(code, Third(code, p)))
                       /\ MayGoTo(Second(code, Third(code, p)))
           /\ k \in {6, 7} =>
                /\ Rebases(code, Third(code, p), SI)
                /\ fd_decode(code, Fifth(code, p)).type \in {"MOVS", "CMPS"}
                /\ Fourth(code, p) \in Offset /\ Fifth(code, p) \in Offset
                /\ WrittenOut(fd_decode(code, Fourth(code, p)))
                /\ WrittenOut(fd_decode(code, Fifth(code, p)))
                /\ MayGoTo(Second(code, Fifth(code, p)))
<1>1. k \in 1..8 /\ k # 3 /\ k # 4
  OBVIOUS
<1>2. \A q \in PartsOf(k, code, p) : q \in Offset /\ WrittenOut(fd_decode(code, q))
  BY <1>1, GroupFacts, GroupWritten
<1>3. /\ k \in {2, 5} => MayGoTo(Second(code, Third(code, p)))
      /\ k \in {6, 7} => MayGoTo(Second(code, Fifth(code, p)))
  BY <1>1, GroupEnds
<1>4. CASE k = 5
  <2>1. StosAt(code, p)
    BY <1>4 DEF GroupAt, Shape
  <2> QED
    BY <1>2, <1>3, <1>4, <2>1 DEF StosAt, PartsOf
<1>5. CASE k \in {6, 7}
  <2>1. PointersAt(code, p, "MOVS") \/ PointersAt(code, p, "CMPS")
    BY <1>5 DEF GroupAt, Shape
  <2>2. \A q \in {p, Second(code, p), Third(code, p), Fourth(code, p), Fifth(code, p)} :
          q \in Offset /\ WrittenOut(fd_decode(code, q))
    BY <1>2, <1>5 DEF PartsOf
  <2> QED
    BY <1>3, <1>5, <2>1, <2>2 DEF PointersAt
<1> QED
  BY <1>4, <1>5

LEMMA StringGroupFine ==
    ASSUME Ready, AsWritten, where = "box", Pinned, NEW k \in 5..7, NEW p, GroupAt(k, p),
           On(k, p)
    PROVE  Fine
<1> DEFINE p2 == Second(code, p)  p3 == Third(code, p)  p4 == Fourth(code, p)
           p5 == Fifth(code, p)
<1>1. /\ k \in 1..8 /\ k # 4 /\ p2 \in Offset /\ p3 \in Offset
      /\ Truncates(fd_decode(code, p), DI) /\ LeasBase(fd_decode(code, p2), DI)
      /\ WrittenOut(fd_decode(code, p2)) /\ Second(code, p2) = p3
  BY StringGroup DEF Rebases, Third
<1>2. k \in {6, 7} =>
        /\ p4 \in Offset /\ p5 \in Offset
        /\ Truncates(fd_decode(code, p3), SI) /\ LeasBase(fd_decode(code, p4), SI)
        /\ WrittenOut(fd_decode(code, p4))
        /\ Second(code, p3) = p4 /\ Second(code, p4) = p5
  BY StringGroup DEF Rebases, Fourth, Fifth
<1>3. regs[SP] \in InBox
  BY <1>1 DEF On, Within
<1>4. DI # SI /\ DI \in GPR /\ SI \in GPR
  BY DEF DI, SI, GPR
<1>5. UNCHANGED vars => code' = code
  BY DEF vars
<1>6. CASE at = p
  <2>1. UNCHANGED vars /\ at' = p2 /\ regs'[DI] = "low" => Between(k, p)'
    BY <1>5 DEF Between
  <2> QED
    BY <1>1, <1>3, <1>6, <2>1, TruncatesFine
<1>7. CASE at = p2 /\ regs[DI] = "low"
  <2>1. UNCHANGED vars /\ at' = p3 /\ regs'[DI] \in InBox => Between(k, p)'
    BY <1>5 DEF Between
  <2> QED
    BY <1>1, <1>3, <1>7, <2>1, LeasFine
<1>8. CASE k = 5 /\ at = p3 /\ regs[DI] \in InBox
  BY <1>3, <1>8, StringGroup, StringFine
<1>9. CASE k \in {6, 7} /\ at = p3 /\ regs[DI] \in InBox
  <2>1. UNCHANGED vars /\ at' = p4 /\ regs'[SI] = "low" /\ regs'[DI] = regs[DI] => Between(k, p)'
    BY <1>5, <1>9 DEF Between
  <2> QED
    BY <1>2, <1>3, <1>4, <1>9, <2>1, TruncatesFine
<1>10. CASE k \in {6, 7} /\ at = p4 /\ regs[DI] \in InBox /\ regs[SI] = "low"
  <2>1. UNCHANGED vars /\ at' = p5 /\ regs'[SI] \in InBox /\ regs'[DI] = regs[DI] => Between(k, p)'
    BY <1>5, <1>10 DEF Between
  <2> QED
    BY <1>2, <1>3, <1>4, <1>10, <2>1, LeasFine
<1>11. CASE k \in {6, 7} /\ at = p5 /\ regs[DI] \in InBox /\ regs[SI] \in InBox
  BY <1>3, <1>11, StringGroup, StringFine
<1> QED
  BY <1>6, <1>7, <1>8, <1>9, <1>10, <1>11 DEF On, Within, Between

\* The runtime returns to where control may go: behind the jump, or to a bundle start.
LEMMA LinkOpen ==
    ASSUME Ready, NEW p, GroupAt(8, p), link = Second(code, p) + fd_decode(code, p).ops[1].val
    PROVE  MayGoTo(link)
<1> DEFINE p2 == Second(code, p)  lea == fd_decode(code, p)  jmp == fd_decode(code, p2)
<1>1. 8 \in 1..8 /\ RtcallAt(code, p, base + p) /\ p \in Nat
  BY UnitFacts DEF GroupAt, Shape
<1>2. CASE lea.ops[1].val = jmp.size
  <2>1. link = Second(code, p2)
    BY <1>2 DEF Second
  <2> QED
    BY <1>1, <2>1, GroupEnds
<1>3. CASE (base + p + lea.size + lea.ops[1].val) % BundleSize = 0
  <2>1. p \in Offset
    BY <1>1, GroupFacts DEF PartsOf
  <2>2. lea \in Inst
    BY <2>1, PartTyped
  <2>3. lea.ops[1] \in Op /\ lea.size \in Int
    BY <2>2 DEF Inst, OpIndex
  <2>4. lea.ops[1].val \in Int
    BY <2>3 DEF Op
  <2>5. base \in Nat
    BY InputsTyped DEF Ready, ExecTyped
  <2>6. link = p2 + lea.ops[1].val /\ p2 = p + lea.size
    BY DEF Second
  <2> HIDE DEF lea, p2
  <2>7. base + p + lea.size + lea.ops[1].val = base + link
    BY <1>1, <2>3, <2>4, <2>5, <2>6
  <2> QED
    BY <1>3, <2>7, BundlesOpen
<1> QED
  BY <1>1, <1>2, <1>3 DEF RtcallAt

\* The offsets okrtcalldisp accepts are those of the runtime's entries.
LEMMA RtcallDisp == ASSUME NEW disp, okrtcalldisp(disp) PROVE disp \in {8 * n : n \in (-4)..3}
<1>1. \A v \in {0, 8, 16, 24, -8, -16, -24, -32} : \E n \in (-4)..3 : v = 8 * n
  <2>1. \A n \in {0, 1, 2, 3, -1, -2, -3, -4} : n \in (-4)..3
    OBVIOUS
  <2>2. /\ 0 = 8 * 0 /\ 8 = 8 * 1 /\ 16 = 8 * 2 /\ 24 = 8 * 3
        /\ -8 = 8 * (-1) /\ -16 = 8 * (-2) /\ -24 = 8 * (-3) /\ -32 = 8 * (-4)
    OBVIOUS
  <2> QED
    BY <2>1, <2>2
<1> QED
  BY <1>1 DEF okrtcalldisp

LEMMA RtcallFine ==
    ASSUME Ready, AsWritten, where = "box", Pinned, NEW p, GroupAt(8, p), On(8, p)
    PROVE  Fine
<1> DEFINE p2 == Second(code, p)  lea == fd_decode(code, p)  jmp == fd_decode(code, p2)
<1>1. 8 \in 1..8 /\ RtcallAt(code, p, base + p) /\ p \in Nat
  BY UnitFacts DEF GroupAt, Shape
<1>2. p2 \in Offset /\ WrittenOut(lea) /\ WrittenOut(jmp)
  BY <1>1, GroupFacts, GroupWritten DEF PartsOf
<1>3. regs[SP] \in InBox
  BY DEF On, Within
<1>4. /\ lea.type = "LEA" /\ lea.ops[0].t = "REG" /\ lea.ops[0].reg = R11
      /\ lea.ops[1].t = "MEM" /\ lea.ops[1].reg = IP
      /\ jmp.type = "JMP" /\ jmp.ops[0].t = "MEM" /\ jmp.ops[0].reg = R14
      /\ jmp.ops[0].index = NoReg /\ okrtcalldisp(jmp.ops[0].val)
      /\ \/ lea.ops[1].val = jmp.size
         \/ (base + p + lea.size + lea.ops[1].val) % BundleSize = 0
  BY <1>1 DEF RtcallAt
<1>5. CASE at = p
  <2>1. inst = lea /\ inst \in Inst /\ Decoded(inst) /\ at + inst.size = p2
    BY <1>5, InstTyped DEF Ready
  <2>2. Safe(inst) /\ Sets(inst, R11, "link")
    BY <1>2, <1>4, <2>1, ReturnAddressSets
  <2>3. R11 \notin Kept \ {SP} /\ R11 # SP /\ SP \in GPR
    BY DEF Kept, R11, SP, R14, R15, GPR
  <2>4. ASSUME ExecStep PROVE Inside'
    <3>1. inst.type \notin Branches
      BY <1>4, <2>1 DEF Branches, CondBranches
    <3>2. /\ UNCHANGED vars /\ GoTo(p2) /\ Pinned' /\ regs'[R11] = "link"
          /\ \A q \in GPR : q # R11 => regs'[q] = regs[q]
      BY <1>5, <2>2, <2>3, <2>4, <3>1, SetsStep
    <3>3. regs'[SP] \in InBox
      BY <1>3, <2>3, <3>2
    <3>4. at' = p2
      BY <1>2, <3>2 DEF GoTo
    <3>5. link' = p2 + lea.ops[1].val
      BY <1>4, <2>1, <2>4, <3>1, PlainStep DEF Ready
    <3>6. Between(8, p)'
      BY <3>2, <3>4, <3>5 DEF Between, vars
    <3> QED
      BY <1>1, <1>2, <3>2, <3>3, <3>6, GoesToPart
  <2> QED
    BY <2>2, <2>4 DEF Fine
<1>6. CASE at = p2 /\ regs[R11] = "link" /\ link = p2 + lea.ops[1].val
  <2>1. inst = jmp /\ inst \in Inst /\ Decoded(inst)
    BY <1>6, PartsInst
  <2>2. Safe(inst)
    BY <1>2, <1>4, <2>1, RuntimeJumpSafe
  <2>3. MayGoTo(link)
    BY <1>6, LinkOpen
  <2>4. ASSUME ExecStep PROVE Inside'
    <3>1. ExecIndirect
      BY <1>4, <2>1, <2>4
        DEF ExecStep, ExecPlain, ExecDirect, ExecNotTaken, Direct, Branches, CondBranches
    <3>2. jmp.ops[0].val \in {8 * n : n \in (-4)..3}
      BY <1>4, RtcallDisp
    <3>3. jmp.seg = "NONE" /\ jmp.addrsize = 8
      BY <1>2, <1>4 DEF WrittenOut, HasAddress, IsReg, OpIndex
    <3>4. UNCHANGED <<vars, regs, link>> /\ where' = "runtime"
      BY <1>4, <2>1, <3>1, <3>2, <3>3 DEF ExecIndirect, Runs, Executes, Leave, IsBase, Pinned
    <3>5. MayGoTo(link)'
      BY <2>3, <3>4 DEF MayGoTo, vars, Offset
    <3> QED
      BY <1>6, <3>4, <3>5 DEF Inside
  <2> QED
    BY <2>2, <2>4 DEF Fine
<1> QED
  BY <1>5, <1>6 DEF On, Within, Between


-----------------------------------------------------------------------------
(* The instructions of a unit. *)

LEMMA UnitInsts ==
    ASSUME Ready, NEW p \in starts
    PROVE  /\ p \in Insts(p)
           /\ \A q \in Insts(p) :
                /\ q \in Nat /\ p <= q /\ q < NextUnit(p) /\ Second(code, q) \in Nat
                /\ Second(code, q) < NextUnit(p) => Second(code, q) \in Insts(p)
           /\ ~IsMacro(opts, code, p, base + p) => Insts(p) = {p}
<1>1. p \in Nat /\ Advances(code) /\ NextUnit(p) \in Nat /\ NextUnit(p) > p /\ p < code.n
  BY UnitFacts
<1>2. /\ p \in Insts(p)
      /\ \A q \in Insts(p) :
           /\ q \in Nat /\ p <= q /\ q < NextUnit(p)
           /\ Second(code, q) < NextUnit(p) => Second(code, q) \in Insts(p)
  BY <1>1, InstStartsClosed DEF Insts
<1>3. \A q \in Insts(p) : Second(code, q) \in Nat
  BY <1>1, <1>2, PartsInOrder
<1>4. ASSUME ~IsMacro(opts, code, p, base + p) PROVE Insts(p) = {p}
  <2>1. NextUnit(p) = Second(code, p)
    BY <1>1, <1>4 DEF NextUnit, Unit, IsMacro, Second, fd_decode
  <2>2. Insts(p) = {p} \cup InstStarts(code, NextUnit(p), NextUnit(p))
    BY <1>1, <2>1, InstStartsStep DEF Insts
  <2>3. InstStarts(code, NextUnit(p), NextUnit(p)) = {}
    BY <1>1, InstStartsStep
  <2> QED
    BY <2>2, <2>3
<1> QED
  BY <1>2, <1>3, <1>4

LEMMA GroupInsts ==
    ASSUME Ready, NEW k \in 1..8, k # 3, NEW p, GroupAt(k, p)
    PROVE  Insts(p) = PartsOf(k, code, p)
<1>1. p \in Nat /\ Advances(code)
  BY UnitFacts DEF GroupAt
<1>2. NextUnit(p) = p + Group(k, code, p).size
  BY GroupFacts
<1> QED
  BY <1>1, <1>2, GroupParts DEF Insts

\* A group is of one kind.
LEMMA OneGroup ==
    ASSUME NEW p, GroupAt(3, p), GroupAt(8, p)
    PROVE  FALSE
<1>1. fd_decode(code, p).type = "AND"
  BY DEF GroupAt, Shape, CallAt, MaskedAt, MasksReg
<1>2. fd_decode(code, p).type = "LEA"
  BY DEF GroupAt, Shape, RtcallAt
<1> QED
  BY <1>1, <1>2

-----------------------------------------------------------------------------
(* Control stays on the instructions of the units. *)

\* What is kept of the registers that must be, where nmod() counts what is written.
LEMMA HeldKept ==
    ASSUME Held, UNCHANGED vars, WritesCounted => \A r \in Kept \ {SP} : regs'[r] = regs[r]
    PROVE  Held'
<1>1. WritesCounted' = WritesCounted
  BY DEF vars, WritesCounted, Kept
<1> QED
  BY <1>1, PinnedKept DEF Held

\* Control arrives at a unit, or leaves for other code.
LEMMA StartTracks ==
    ASSUME Ready, UNCHANGED vars, where' = "box", at' \in starts, Held'
    PROVE  OnTrack'
<1>1. PICK q \in starts : at' = q
  OBVIOUS
<1>2. q \in Insts(q) /\ starts' = starts /\ Insts(q)' = Insts(q)
  BY UnitInsts DEF vars, Insts, NextUnit
<1>3. Tracks(q)'
  BY <1>1, <1>2 DEF Tracks
<1> QED
  BY <1>2, <1>3 DEF OnTrack

LEMMA ArrivesOnTrack ==
    ASSUME Ready, UNCHANGED vars, NEW q, MayGoTo(q), GoTo(q), Held'
    PROVE  OnTrack'
<1>1. CASE q \in Offset
  BY <1>1, StartTracks DEF GoTo, MayGoTo
<1>2. CASE q \notin Offset
  BY <1>2 DEF GoTo, OnTrack
<1> QED
  BY <1>1, <1>2

LEMMA ArrivesMaskedOnTrack ==
    ASSUME Ready, UNCHANGED vars, GoAnywhereMasked, Held'
    PROVE  OnTrack'
<1>1. CASE where' = "box" /\ at' \in BundleStarts
  BY <1>1, BundleStartsAreUnits, StartTracks
<1>2. CASE where' = "away"
  BY <1>2 DEF OnTrack
<1> QED
  BY <1>1, <1>2 DEF GoAnywhereMasked

\* Control goes on to the next instruction of a unit, or to what follows it.
LEMMA GoesAlong ==
    ASSUME Ready, UNCHANGED vars, NEW p \in starts, at \in Insts(p),
           Second(code, at) <= NextUnit(p), GoTo(Second(code, at)), Held',
           GroupAt(3, p) /\ at' = Second(code, at) => at' = Second(code, p) \/ NearCall(p)',
           GroupAt(8, p) => link' = Second(code, p) + fd_decode(code, p).ops[1].val
    PROVE  OnTrack'
<1> DEFINE q == Second(code, at)
<1>1. /\ starts' = starts /\ Insts(p)' = Insts(p) /\ code' = code
      /\ GroupAt(3, p)' <=> GroupAt(3, p)
      /\ GroupAt(8, p)' <=> GroupAt(8, p)
  BY DEF vars, Insts, NextUnit, GroupAt
<1>2. q \in Nat /\ (q < NextUnit(p) => q \in Insts(p))
  BY UnitInsts
<1>3. NextUnit(p) \in Nat /\ (NextUnit(p) \in Offset => NextUnit(p) \in starts)
  BY UnitFacts
<1>4. CASE q \in Offset /\ q < NextUnit(p)
  <2>1. where' = "box" /\ at' = q
    BY <1>4 DEF GoTo
  <2>2. Tracks(p)'
    BY <1>1, <1>2, <1>4, <2>1 DEF Tracks
  <2> QED
    BY <1>1, <2>1, <2>2 DEF OnTrack
<1>5. CASE q \in Offset /\ q = NextUnit(p)
  BY <1>3, <1>5, StartTracks DEF GoTo
<1>6. CASE q \notin Offset
  BY <1>6 DEF GoTo, OnTrack
<1> QED
  BY <1>2, <1>3, <1>4, <1>5, <1>6

\* What the parts of a group but a call do: the last of a jump and of a runtime call go
\* through a register and through memory, and all others leave the base and the context.
LEMMA PartKeeps ==
    ASSUME Ready, NEW k \in 1..8, k # 3, NEW p, GroupAt(k, p), NEW q \in PartsOf(k, code, p)
    PROVE  LET d == fd_decode(code, q) IN
           \/ k = 2 /\ d.type = "JMP" /\ d.ops[0].t = "REG"
           \/ k = 8 /\ q = Second(code, p) /\ d.type = "JMP" /\ d.ops[0].t = "MEM"
           \/ d.type \notin Branches /\ \A r \in Kept \ {SP} : Effect(d)[r] = regs[r]
<1> DEFINE d == fd_decode(code, q)
<1>1. q \in Offset
  BY GroupFacts
<1>2. d \in Inst /\ Decoded(d)
  BY <1>1, PartTyped
<1>3. /\ OneOutput \cap Branches = {} /\ {"STOS", "MOVS", "CMPS"} \cap Branches = {}
      /\ DI \notin Kept \ {SP} /\ SI \notin Kept \ {SP} /\ R11 \notin Kept \ {SP}
      /\ SP \notin Kept \ {SP}
  BY DEF OneOutput, Branches, CondBranches, Kept, DI, SI, SP, R11, R14, R15
<1> DEFINE Idle == d.type \notin Branches /\ \A r \in Kept \ {SP} : Effect(d)[r] = regs[r]
<1>4. ASSUME NEW r, r \notin Kept \ {SP}, d.type \in OneOutput, d.ops[0].t = "REG",
             d.ops[0].reg = r
      PROVE  Idle
  BY <1>2, <1>3, <1>4, OneOutputKeeps
<1>5. ASSUME d.type \in OneOutput, ~reserved(opts, d, 0) PROVE Idle
  BY <1>2, <1>3, <1>5, UnreservedKeeps
<1>6. ASSUME NEW r \in {DI, SI}, Truncates(d, r) \/ LeasBase(d, r) PROVE Idle
  <2>1. d.type \in OneOutput /\ d.ops[0].t = "REG" /\ d.ops[0].reg = r
    BY <1>6 DEF Truncates, LeasBase, IsReg, OneOutput
  <2> QED
    BY <1>3, <1>4, <2>1
<1>7. ASSUME d.type \in {"STOS", "MOVS", "CMPS"} PROVE Idle
  <2>1. Written(d) = {}
    BY <1>2, <1>7, WritesOperands DEF Written, Decoded
  <2> QED
    BY <1>3, <1>7, <2>1, EffectKeeps, KeptRegisters
<1>8. CASE k = 1
  <2>1. LoadAt(opts, code, p) /\ q \in {p, Second(code, p)}
    BY <1>8 DEF GroupAt, Shape, PartsOf
  <2>2. d.type \in OneOutput /\ ~reserved(opts, d, 0)
    BY <2>1 DEF LoadAt, Truncates, OneOutput
  <2> QED
    BY <1>5, <2>2
<1>9. CASE k = 2
  <2>1. JmpAt(opts, code, p) /\ q \in {p, Second(code, p), Third(code, p)}
    BY <1>9 DEF GroupAt, Shape, PartsOf
  <2>2. CASE q = p
    <3>1. d.type \in OneOutput /\ ~reserved(opts, d, 0)
      BY <2>1, <2>2 DEF JmpAt, MaskedAt, MasksReg, OneOutput
    <3> QED
      BY <1>5, <3>1
  <2>3. CASE q = Second(code, p)
    <3>1. d.type \in OneOutput /\ d.ops[0].t = "REG" /\ d.ops[0].reg = FirstReg(p)
      BY <2>1, <2>3 DEF JmpAt, MaskedAt, AddsBase, mask_add, IsReg, FirstReg, OneOutput
    <3>2. FirstReg(p) \notin Kept
      BY <1>9, MaskedReg
    <3> QED
      BY <1>4, <3>1, <3>2
  <2>4. CASE q = Third(code, p)
    BY <1>9, <2>1, <2>4 DEF JmpAt, Through
  <2> QED
    BY <2>1, <2>2, <2>3, <2>4
<1>10. CASE k = 4
  <2>1. ModspAt(code, p) /\ q \in {p, Second(code, p)}
    BY <1>10 DEF GroupAt, Shape, PartsOf
  <2>2. d.type \in OneOutput /\ d.ops[0].t = "REG" /\ d.ops[0].reg = SP
    BY <2>1 DEF ModspAt, AddsBase, mask_add, IsReg, OneOutput
  <2> QED
    BY <1>3, <1>4, <2>2
<1>11. CASE k = 5
  <2>1. StosAt(code, p) /\ q \in {p, Second(code, p), Third(code, p)}
    BY <1>11 DEF GroupAt, Shape, PartsOf
  <2> QED
    BY <1>6, <1>7, <2>1 DEF StosAt, Rebases
<1>12. CASE k \in {6, 7}
  <2>1. /\ Rebases(code, p, DI) /\ Rebases(code, Third(code, p), SI)
        /\ fd_decode(code, Fifth(code, p)).type \in {"MOVS", "CMPS"}
    BY <1>12 DEF GroupAt, Shape, PointersAt
  <2>2. q \in {p, Second(code, p), Third(code, p), Fourth(code, p), Fifth(code, p)}
    BY <1>12 DEF PartsOf
  <2> QED
    BY <1>6, <1>7, <2>1, <2>2 DEF Rebases, Fourth
<1>13. CASE k = 8
  <2>1. RtcallAt(code, p, base + p) /\ q \in {p, Second(code, p)}
    BY <1>13 DEF GroupAt, Shape, PartsOf
  <2>2. CASE q = p
    <3>1. d.type \in OneOutput /\ d.ops[0].t = "REG" /\ d.ops[0].reg = R11
      BY <2>1, <2>2 DEF RtcallAt, OneOutput
    <3> QED
      BY <1>3, <1>4, <3>1
  <2>3. CASE q = Second(code, p)
    BY <1>13, <2>1, <2>3 DEF RtcallAt
  <2> QED
    BY <2>1, <2>2, <2>3
<1> HIDE DEF d, Idle
<1>14. k \in {1, 2, 4, 5, 6, 7, 8}
  OBVIOUS
<1> QED
  BY <1>8, <1>9, <1>10, <1>11, <1>12, <1>13, <1>14

\* The instructions of the groups, but for the nops and the call behind a mask.
LEMMA PartTypes ==
    ASSUME NEW k \in 1..8, NEW p, GroupAt(k, p), NEW q \in PartsOf(k, code, p)
    PROVE  fd_decode(code, q).type \in OneOutput \cup {"JMP", "STOS", "MOVS", "CMPS"}
<1>1. Shape(k, opts, code, p, base + p)
  BY DEF GroupAt
<1>2. CASE k = 1
  BY <1>1, <1>2 DEF Shape, LoadAt, Truncates, PartsOf, OneOutput
<1>3. CASE k = 2
  BY <1>1, <1>3 DEF Shape, JmpAt, MaskedAt, MasksReg, AddsBase, mask_add, PartsOf, OneOutput
<1>4. CASE k = 3
  BY <1>1, <1>4 DEF Shape, CallAt, MaskedAt, MasksReg, AddsBase, mask_add, PartsOf, OneOutput
<1>5. CASE k = 4
  BY <1>1, <1>5 DEF Shape, ModspAt, AddsBase, mask_add, PartsOf, OneOutput
<1>6. CASE k = 5
  BY <1>1, <1>6 DEF Shape, StosAt, Rebases, Truncates, LeasBase, PartsOf, OneOutput
<1>7. CASE k \in {6, 7}
  <2>1. /\ Rebases(code, p, DI) /\ Rebases(code, Third(code, p), SI)
        /\ fd_decode(code, Fifth(code, p)).type \in {"MOVS", "CMPS"}
    BY <1>1, <1>7 DEF Shape, PointersAt
  <2>2. q \in {p, Second(code, p), Third(code, p), Fourth(code, p), Fifth(code, p)}
    BY <1>7 DEF PartsOf
  <2> QED
    BY <2>1, <2>2 DEF Rebases, Truncates, LeasBase, Fourth, OneOutput
<1>8. CASE k = 8
  BY <1>1, <1>8 DEF Shape, RtcallAt, PartsOf, OneOutput
<1> QED
  BY <1>2, <1>3, <1>4, <1>5, <1>6, <1>7, <1>8

\* An indirect jump: through a register to bundle starts only, through memory away.
LEMMA IndirectOnTrack ==
    ASSUME Ready, where = "box", Held, ExecStep, inst.type \in {"JMP", "CALL"},
           inst.ops[0].t = "REG"
    PROVE  OnTrack'
<1>1. ExecIndirect
  BY DEF ExecStep, ExecPlain, ExecDirect, ExecNotTaken, Direct, Branches, CondBranches
<1>2. UNCHANGED <<vars, regs>> /\ (GoAnywhereMasked \/ where' = "outside")
  BY <1>1 DEF ExecIndirect, Runs, Executes, Leave
<1>3. Held'
  BY <1>2, HeldKept
<1>4. CASE where' = "outside"
  BY <1>4 DEF OnTrack
<1> QED
  BY <1>2, <1>3, <1>4, ArrivesMaskedOnTrack

\* A step from within a call.
LEMMA CallTracks ==
    ASSUME Ready, where = "box", Held, ExecStep, NEW p, GroupAt(3, p), Tracks(p)
    PROVE  OnTrack'
<1> DEFINE p2 == Second(code, p)  p3 == Third(code, p)  r == FirstReg(p)
<1>1. /\ 3 \in 1..8 /\ 3 \in {2, 3} /\ MaskedAt(opts, code, p) /\ p \in starts /\ p \in Nat
      /\ Advances(code) /\ at \in Insts(p) /\ ~GroupAt(8, p)
  BY UnitFacts, OneGroup DEF GroupAt, Shape, CallAt, Tracks
<1>2. r \in GPR /\ r \notin Kept
  BY <1>1, MaskedReg
<1>3. NextUnit(p) = p + Loop(code, p).count
  <2>1. NextUnit(p) = p + Group(3, code, p).size
    BY <1>1, GroupFacts
  <2>2. Group(3, code, p).size = Loop(code, p).count
    BY DEF Group
  <2> QED
    BY <2>1, <2>2
<1>4. ASSUME inst.type \in OneOutput, inst.ops[0].t = "REG", inst.ops[0].reg = r
      PROVE  UNCHANGED vars /\ GoTo(Second(code, at)) /\ Held'
  <2>1. inst \in Inst /\ Decoded(inst) /\ inst.type \notin Branches
    BY <1>4, InstTyped DEF Ready, OneOutput, Branches, CondBranches
  <2>2. \A q \in Kept \ {SP} : Effect(inst)[q] = regs[q]
    BY <1>2, <1>4, <2>1, OneOutputKeeps
  <2>3. UNCHANGED vars /\ regs' = Effect(inst) /\ GoTo(Second(code, at))
    BY <2>1, PlainStep DEF Ready
  <2> QED
    BY <2>2, <2>3, HeldKept
<1>5. /\ Second(code, p) <= NextUnit(p) /\ Third(code, p) <= NextUnit(p)
  <2>1. \A q \in PartsOf(3, code, p) : Second(code, q) <= NextUnit(p)
    BY <1>1, GroupFacts, PartsWithin
  <2> QED
    BY <2>1 DEF PartsOf, Third
<1>6. CASE at = p
  <2>1. inst.type \in OneOutput /\ inst.ops[0].t = "REG" /\ inst.ops[0].reg = r
    <3>1. inst = fd_decode(code, p)
      BY <1>6, PartsInst
    <3> QED
      BY <1>1, <3>1 DEF MaskedAt, MasksReg, FirstReg, OneOutput
  <2> QED
    BY <1>1, <1>4, <1>5, <1>6, <2>1, GoesAlong
<1>7. CASE at = p2
  <2>1. inst.type \in OneOutput /\ inst.ops[0].t = "REG" /\ inst.ops[0].reg = r
    <3>1. inst = fd_decode(code, p2)
      BY <1>7, PartsInst
    <3> QED
      BY <1>1, <3>1 DEF MaskedAt, AddsBase, mask_add, IsReg, FirstReg, OneOutput
  <2>2. UNCHANGED vars /\ GoTo(p3) /\ Held' /\ Second(code, at) = p3
    BY <1>4, <1>7, <2>1 DEF Third
  <2>3. ASSUME at' = p3 PROVE NearCall(p)'
    <3> DEFINE j == p3 - p
    <3>1. j \in Nat /\ p3 = p + j
      <4>1. p3 \in Nat /\ p3 > p2 /\ p2 > p /\ p2 \in Nat
        BY <1>1, PartsInOrder
      <4> QED
        BY <1>1, <4>1
    <3>2. PastNops(code, p, j) = Loop(code, p) /\ code' = code
      BY <2>2 DEF Loop, vars
    <3> HIDE DEF j
    <3> QED
      BY <2>3, <3>1, <3>2 DEF NearCall
  <2> QED
    BY <1>1, <1>5, <2>2, <2>3, GoesAlong
<1>8. CASE NearCall(p)
  <2>1. PICK j \in Nat : /\ at = p + j
                         /\ PastNops(code, p, j).count = Loop(code, p).count
                         /\ PastNops(code, p, j).last = Loop(code, p).last
    BY <1>8 DEF NearCall
  <2>2. inst = fd_decode(code, p + j)
    BY <2>1, PartsInst
  <2>3. /\ inst.size \in Nat
        /\ \/ /\ inst.type = "NOP"
              /\ PastNops(code, p, j + inst.size).count = Loop(code, p).count
              /\ PastNops(code, p, j + inst.size).last = Loop(code, p).last
           \/ inst.type = "CALL" /\ inst.ops[0].t = "REG"
    BY <2>1, <2>2, AmongNops
  <2>4. CASE inst.type = "CALL"
    BY <2>3, <2>4, IndirectOnTrack
  <2>5. CASE inst.type = "NOP"
    <3> DEFINE i == j + inst.size
    <3>1. i \in Nat /\ PastNops(code, p, i).count = Loop(code, p).count
            /\ PastNops(code, p, i).last = Loop(code, p).last
      BY <2>3, <2>5
    <3>2. Second(code, at) = p + i
      <4>1. at + inst.size = Second(code, at)
        BY InstTyped DEF Ready
      <4> QED
        BY <1>1, <2>1, <2>3, <4>1
    <3> HIDE DEF i
    <3>3. p + i <= NextUnit(p)
      <4>1. Loop(code, p).count \in Nat /\ Loop(code, p).count >= i
        BY <1>1, <3>1, PastNopsTyped
      <4> QED
        BY <1>1, <1>3, <3>1, <4>1
    <3>4. Effect(inst) = regs /\ inst.type \notin Branches
      BY <2>5, NopWrites DEF Ready, ExecTyped, ExecTypeOK, Branches, CondBranches
    <3>5. UNCHANGED <<vars, regs>> /\ GoTo(Second(code, at)) /\ Held'
      BY <3>4, PlainStep, HeldKept DEF Ready
    <3>6. ASSUME at' = p + i PROVE NearCall(p)'
      <4>1. code' = code
        BY <3>5 DEF vars
      <4> QED
        BY <3>1, <3>6, <4>1 DEF NearCall
    <3> QED
      BY <1>1, <3>2, <3>3, <3>5, <3>6, GoesAlong
  <2> QED
    BY <2>3, <2>4, <2>5
<1> QED
  BY <1>6, <1>7, <1>8 DEF Tracks

\* A step from within another group.
LEMMA GroupTracks ==
    ASSUME Ready, where = "box", Held, ExecStep, NEW k \in 1..8, k # 3, NEW p, GroupAt(k, p),
           ~GroupAt(3, p), GroupAt(8, p) => k = 8, Tracks(p)
    PROVE  OnTrack'
<1>1. p \in starts /\ p \in Nat /\ Advances(code) /\ at \in Insts(p)
  BY UnitFacts DEF GroupAt, Tracks
<1>2. at \in PartsOf(k, code, p) /\ Second(code, at) <= NextUnit(p)
  BY <1>1, GroupInsts, GroupFacts, PartsWithin
<1>3. inst = fd_decode(code, at)
  BY PartsInst
<1>4. CASE inst.type = "JMP" /\ inst.ops[0].t = "REG"
  BY <1>4, IndirectOnTrack
<1>5. CASE k = 8 /\ at = Second(code, p) /\ inst.type = "JMP" /\ inst.ops[0].t = "MEM"
  <2>1. ExecIndirect
    BY <1>5 DEF ExecStep, ExecPlain, ExecDirect, ExecNotTaken, Direct, Branches, CondBranches
  <2>2. UNCHANGED <<vars, regs, link>> /\ where' \in {"runtime", "outside"}
    BY <1>5, <2>1 DEF ExecIndirect, Runs, Executes, Leave
  <2>3. at # p
    BY <1>1, <1>5, PartsInOrder
  <2>4. link = Second(code, p) + fd_decode(code, p).ops[1].val
    BY <1>5, <2>3 DEF Tracks
  <2>5. MayGoTo(link)
    BY <1>5, <2>4, LinkOpen
  <2>6. MayGoTo(link)'
    BY <2>2, <2>5 DEF MayGoTo, vars, Offset
  <2> QED
    BY <2>2, <2>6 DEF OnTrack
<1>6. CASE inst.type \notin Branches /\ \A r \in Kept \ {SP} : Effect(inst)[r] = regs[r]
  <2>1. /\ UNCHANGED vars /\ regs' = Effect(inst) /\ GoTo(Second(code, at))
        /\ link' = IF inst.type = "LEA" /\ inst.ops[1].reg = IP
                   THEN at + inst.size + inst.ops[1].val ELSE link
    BY <1>6, PlainStep DEF Ready
  <2>2. Held'
    BY <1>6, <2>1, HeldKept
  <2>3. ASSUME GroupAt(8, p) PROVE link' = Second(code, p) + fd_decode(code, p).ops[1].val
    <3>1. RtcallAt(code, p, base + p)
      BY <2>3 DEF GroupAt, Shape
    <3>2. at = p
      <4>1. at \in {p, Second(code, p)}
        BY <1>2, <2>3 DEF PartsOf
      <4>2. at # Second(code, p)
        BY <1>3, <1>6, <3>1 DEF RtcallAt, Branches
      <4> QED
        BY <4>1, <4>2
    <3>3. inst.type = "LEA" /\ inst.ops[1].reg = IP
      BY <1>3, <3>1, <3>2 DEF RtcallAt
    <3> QED
      BY <1>3, <2>1, <3>2, <3>3 DEF Second
  <2> QED
    BY <1>1, <1>2, <2>1, <2>2, <2>3, GoesAlong
<1> QED
  BY <1>2, <1>3, <1>4, <1>5, <1>6, PartKeeps

LEMMA StepOnTrack ==
    ASSUME Ready, OnTrack, where = "box", ExecStep
    PROVE  OnTrack'
<1>1. Held
  BY DEF OnTrack
<1>2. PICK p \in starts : Tracks(p)
  BY DEF OnTrack
<1>3. CASE ~IsMacro(opts, code, p, base + p)
  <2>1. at = p
    BY <1>2, <1>3, UnitInsts DEF Tracks
  <2>2. UNCHANGED vars /\ (WritesCounted => \A r \in Kept : regs'[r] = regs[r])
    BY <1>3, <2>1, PlainUnitStep
  <2>3. PICK q : MayGoTo(q) /\ GoTo(q)
    BY <1>3, <2>1, PlainUnitStep
  <2>4. Held'
    BY <1>1, <2>2, HeldKept
  <2> QED
    BY <2>2, <2>3, <2>4, ArrivesOnTrack
<1>4. CASE IsMacro(opts, code, p, base + p)
  <2>1. p \in Nat /\ Advances(code)
    BY UnitFacts
  <2>2. PICK k \in 1..8 : /\ Shape(k, opts, code, p, base + p)
                          /\ macroinst(opts, code, p, base + p) = Group(k, code, p)
    BY <1>4, <2>1, MacroHasShape DEF IsMacro
  <2>3. GroupAt(k, p)
    BY <2>2 DEF GroupAt
  <2>4. CASE GroupAt(3, p)
    BY <1>1, <1>2, <2>4, CallTracks
  <2>5. CASE ~GroupAt(3, p) /\ GroupAt(8, p)
    <3>1. 8 \in 1..8 /\ 8 # 3
      OBVIOUS
    <3> QED
      BY <1>1, <1>2, <2>5, <3>1, GroupTracks
  <2>6. CASE ~GroupAt(3, p) /\ ~GroupAt(8, p)
    <3>1. k # 3
      BY <2>3, <2>6
    <3> QED
      BY <1>1, <1>2, <2>3, <2>6, <3>1, GroupTracks
  <2> QED
    BY <2>4, <2>5, <2>6
<1> QED
  BY <1>3, <1>4

-----------------------------------------------------------------------------
(* The sandbox. *)

LEMMA GroupFine ==
    ASSUME Ready, AsWritten, where = "box", Pinned, NEW k \in 1..8, NEW p, GroupAt(k, p),
           On(k, p)
    PROVE  Fine
<1>1. CASE k = 1
  BY <1>1, LoadFine
<1>2. CASE k = 2
  BY <1>2, JmpFine
<1>3. CASE k = 3
  BY <1>3, CallFine
<1>4. CASE k = 4
  BY <1>4, ModspFine
<1>5. CASE k \in 5..7
  BY <1>5, StringGroupFine
<1>6. CASE k = 8
  BY <1>6, RtcallFine
<1> QED
  BY <1>1, <1>2, <1>3, <1>4, <1>5, <1>6

\* Wherever control is, the next step is fine.
LEMMA BoxFine ==
    ASSUME Ready, WritesCounted, AsWritten, Inside, where = "box"
    PROVE  Fine
<1>1. Pinned /\ (AtUnit \/ \E k \in 1..8 : \E p \in starts : Within(k, p))
  BY DEF Inside
<1>2. CASE AtUnit
  <2>1. at \in starts /\ regs[SP] \in InBox /\ at \in Nat /\ Advances(code)
    BY <1>2, UnitFacts DEF AtUnit
  <2>2. CASE ~IsMacro(opts, code, at, base + at)
    BY <1>1, <1>2, <2>2, PlainUnitFine
  <2>3. CASE IsMacro(opts, code, at, base + at)
    <3>1. PICK k \in 1..8 : /\ Shape(k, opts, code, at, base + at)
                            /\ macroinst(opts, code, at, base + at) = Group(k, code, at)
      BY <2>1, <2>3, MacroHasShape DEF IsMacro
    <3>2. GroupAt(k, at)
      BY <2>1, <3>1 DEF GroupAt
    <3>3. On(k, at)
      BY <2>1 DEF On
    <3> QED
      BY <1>1, <3>2, <3>3, GroupFine
  <2> QED
    BY <2>2, <2>3
<1>3. CASE \E k \in 1..8 : \E p \in starts : Within(k, p)
  <2>1. PICK k \in 1..8, p \in starts : Within(k, p)
    BY <1>3
  <2>2. GroupAt(k, p) /\ On(k, p)
    BY <2>1 DEF On, Within
  <2> QED
    BY <1>1, <2>2, GroupFine
<1> QED
  BY <1>1, <1>2, <1>3

\* What the runtime and other code hand over.
LEMMA ArrivalFine ==
    ASSUME TypeOK, UNCHANGED vars, regs' = Arrival
    PROVE  Pinned' /\ (regs[SP] \in InBox)'
<1>1. opts' = opts /\ opts.ctxreg \in BOOLEAN
  BY InputsTyped DEF vars, Options
<1>2. Arrival[R14] = "base" /\ Arrival[SP] = "box" /\ (opts.ctxreg => Arrival[R15] = "ctx")
  BY DEF Arrival, GPR, R14, SP, R15
<1> QED
  BY <1>1, <1>2 DEF Pinned, InBox

LEMMA InsideInductive ==
    ASSUME ExecTyped, VerdictInv, Apart, Accepted, WritesCounted /\ AsWritten => Inside,
           WritesCounted', AsWritten', [ExecNext]_<<vars, execvars>>
    PROVE  Inside'
<1>1. UNCHANGED vars => WritesCounted /\ AsWritten
  BY DEF vars, WritesCounted, Kept, AsWritten
<1>2. CASE UNCHANGED <<vars, execvars>>
  <2>1. Inside
    BY <1>1, <1>2
  <2> QED
    BY <1>2, <2>1 DEF vars, execvars, Inside, Pinned, AtUnit, Within, GroupAt, Between, NearCall,
                      FirstReg, MayGoTo, Offset
<1>3. CASE Verify
  <2>1. UNCHANGED execvars /\ pc # "pass"
    BY <1>3
      DEF Verify, Next, BddStep, BddUnknown, BddDone, StartBundle, UnknownInst, CheckUnit,
          UnitSpans, BundleDone, Finish, InBundle
  <2>2. where' = "away"
    BY <2>1 DEF Accepted, execvars
  <2> QED
    BY <2>2 DEF Inside
<1>4. CASE Enter
  <2>1. UNCHANGED vars /\ pc = "pass" /\ where' = "box" /\ at' \in BundleStarts /\ regs' = Arrival
    BY <1>4 DEF Enter
  <2>2. Ready
    BY <2>1 DEF Ready
  <2>3. Pinned' /\ (regs[SP] \in InBox)'
    BY <2>1, ArrivalFine DEF ExecTyped
  <2>4. at' \in starts'
    BY <2>1, <2>2, BundleStartsAreUnits DEF vars
  <2> QED
    BY <2>1, <2>3, <2>4 DEF Inside, AtUnit
<1>5. CASE Return
  <2>1. UNCHANGED vars /\ where = "runtime" /\ regs' = Arrival
    BY <1>5 DEF Return
  <2>2. Ready
    BY <2>1 DEF Ready, Accepted
  <2>3. Pinned' /\ (regs[SP] \in InBox)'
    BY <2>1, ArrivalFine DEF ExecTyped
  <2>4. regs[R11] = "link" /\ MayGoTo(link)
    BY <1>1, <2>1 DEF Inside
  <2>5. GoTo(link)
    BY <1>5, <2>4 DEF Return
  <2> QED
    BY <2>1, <2>2, <2>3, <2>4, <2>5, Arrives
<1>6. CASE ExecStep
  <2>1. UNCHANGED vars /\ where = "box"
    BY <1>6 DEF ExecStep, ExecPlain, ExecDirect, ExecNotTaken, ExecIndirect, Runs, Executes
  <2>2. Ready
    BY <2>1 DEF Ready, Accepted
  <2>3. Fine
    BY <1>1, <2>1, <2>2, BoxFine
  <2> QED
    BY <1>6, <2>3 DEF Fine
<1> QED
  BY <1>2, <1>3, <1>4, <1>5, <1>6 DEF ExecNext, ExecStep

LEMMA OnTrackInductive ==
    ASSUME ExecTyped, VerdictInv, Apart, Accepted, OnTrack, [ExecNext]_<<vars, execvars>>
    PROVE  OnTrack'
<1>1. CASE UNCHANGED <<vars, execvars>>
  BY <1>1 DEF vars, execvars, OnTrack, Held, Pinned, WritesCounted, Kept, Tracks, Insts, NextUnit, GroupAt, NearCall,
              MayGoTo, Offset
<1>2. CASE Verify
  <2>1. UNCHANGED execvars /\ pc # "pass"
    BY <1>2
      DEF Verify, Next, BddStep, BddUnknown, BddDone, StartBundle, UnknownInst, CheckUnit,
          UnitSpans, BundleDone, Finish, InBundle
  <2>2. where' = "away"
    BY <2>1 DEF Accepted, execvars
  <2> QED
    BY <2>2 DEF OnTrack
<1>3. CASE Enter
  <2>1. UNCHANGED vars /\ pc = "pass" /\ where' = "box" /\ at' \in BundleStarts /\ regs' = Arrival
    BY <1>3 DEF Enter
  <2>2. Ready
    BY <2>1 DEF Ready
  <2>3. Held'
    BY <2>1, ArrivalFine DEF ExecTyped, Held
  <2> QED
    BY <2>1, <2>2, <2>3, BundleStartsAreUnits, StartTracks
<1>4. CASE Return
  <2>1. UNCHANGED vars /\ where = "runtime" /\ regs' = Arrival
    BY <1>4 DEF Return
  <2>2. Ready
    BY <2>1 DEF Ready, Accepted
  <2>3. Held'
    BY <2>1, ArrivalFine DEF ExecTyped, Held
  <2>4. CASE regs[R11] = "link"
    <3>1. GoTo(link) /\ MayGoTo(link)
      BY <1>4, <2>1, <2>4 DEF Return, OnTrack
    <3> QED
      BY <2>1, <2>2, <2>3, <3>1, ArrivesOnTrack
  <2>5. CASE regs[R11] # "link"
    BY <1>4, <2>5 DEF Return, Leave, OnTrack
  <2> QED
    BY <2>4, <2>5
<1>5. CASE ExecStep
  <2>1. UNCHANGED vars /\ where = "box"
    BY <1>5 DEF ExecStep, ExecPlain, ExecDirect, ExecNotTaken, ExecIndirect, Runs, Executes
  <2>2. Ready
    BY <2>1 DEF Ready, Accepted
  <2> QED
    BY <1>5, <2>1, <2>2, StepOnTrack
<1> QED
  BY <1>1, <1>2, <1>3, <1>4, <1>5 DEF ExecNext, ExecStep

\* On the instructions of the units there is none that leaves the sandbox by itself.
LEMMA OnTrackStays ==
    ASSUME Ready, OnTrack, where = "box"
    PROVE  ~Escapes(inst)
<1>1. PICK p \in starts : Tracks(p)
  BY DEF OnTrack
<1>2. p \in Nat /\ Advances(code) /\ at \in Insts(p) /\ UnitOK(opts, code, p, base + p)
  BY <1>1, UnitFacts DEF Tracks
<1>3. inst = fd_decode(code, at)
  BY PartsInst
<1>4. CASE ~IsMacro(opts, code, p, base + p)
  <2>1. at = p
    BY <1>2, <1>4, UnitInsts
  <2>2. okmnem(inst)
    BY <1>2, <1>4, <2>1 DEF UnitOK, Checks, inst
  <2> QED
    BY <2>2, CheckedTypes
<1>5. CASE IsMacro(opts, code, p, base + p)
  <2>1. PICK k \in 1..8 : GroupAt(k, p)
    BY <1>2, <1>5, MacroHasShape DEF IsMacro, GroupAt
  <2>2. CASE GroupAt(3, p) /\ NearCall(p)
    <3>1. inst.type \in {"NOP", "CALL"}
      BY <1>3, <2>2, AmongNops DEF NearCall
    <3> QED
      BY <3>1 DEF Escapes
  <2>3. CASE ~(GroupAt(3, p) /\ NearCall(p))
    <3>1. at \in PartsOf(k, code, p)
      <4>1. CASE k = 3
        BY <1>1, <2>1, <2>3, <4>1 DEF Tracks, PartsOf
      <4>2. CASE k # 3
        BY <1>2, <2>1, <4>2, GroupInsts
      <4> QED
        BY <4>1, <4>2
    <3>2. inst.type \in OneOutput \cup {"JMP", "STOS", "MOVS", "CMPS"}
      BY <1>3, <2>1, <3>1, PartTypes
    <3> QED
      BY <3>2 DEF OneOutput, Escapes
  <2> QED
    BY <2>2, <2>3
<1> QED
  BY <1>4, <1>5

LEMMA InsideStays ==
    ASSUME Ready, WritesCounted, NoBitStrings, AsWritten, Inside, where = "box"
    PROVE  ~Outside
<1>1. Safe(inst)
  BY BoxFine DEF Fine
<1> QED
  BY <1>1 DEF Outside, Safe, Inside

\* The halves of a pair are not units: what comes between them is no boundary.
LEMMA InsideKeeps ==
    ASSUME Ready, Inside, where = "box"
    PROVE  StackKept
<1>1. Pinned /\ (AtUnit \/ \E k \in 1..8 : \E p \in starts : Within(k, p))
  BY DEF Inside
<1>2. ASSUME at \in starts PROVE regs[SP] \in InBox
  <2>1. CASE AtUnit
    BY <2>1 DEF AtUnit
  <2>2. ASSUME NEW k \in 1..8, NEW p \in starts, Within(k, p), k = 4 PROVE FALSE
    <3>1. at = Second(code, p) /\ GroupAt(4, p)
      BY <2>2 DEF Within, Between
    <3>2. p \in Nat /\ Advances(code)
      BY UnitFacts
    <3>3. /\ Second(code, p) \in Nat /\ Second(code, p) > p
          /\ Third(code, p) \in Nat /\ Third(code, p) > Second(code, p)
      BY <3>2, PartsInOrder
    <3>4. NextUnit(p) = Third(code, p)
      <4>1. NextUnit(p) = p + Group(4, code, p).size
        BY <3>1, GroupFacts
      <4>2. Group(4, code, p).size = Third(code, p) - p
        BY DEF Group
      <4> QED
        BY <3>2, <3>3, <4>1, <4>2
    <3>5. p < at => NextUnit(p) <= at
      BY <1>2 DEF Ready, Apart, VerdictInv
    <3> QED
      BY <3>1, <3>3, <3>4, <3>5
  <2>3. ASSUME NEW k \in 1..8, NEW p \in starts, Within(k, p), k # 4 PROVE regs[SP] \in InBox
    BY <2>3 DEF Within
  <2> QED
    BY <1>1, <2>1, <2>2, <2>3
<1> QED
  BY <1>2 DEF StackKept

\* The invariant of the execution.  Whatever the verifier leaves open, control is at an
\* instruction of a unit, with the base and the context in their registers if nmod() counts
\* what is written; and if also the macro-instructions are as they are written, it is at a
\* unit, or at a part of a group with the registers in the classes the parts before have left.
THEOREM ExecInvariant ==
    ExecSpec => [](TypeOK /\ VerdictInv /\ Apart /\ ExecInv)
<1>1. ExecSpec => [](TypeOK /\ VerdictInv /\ Apart)
  BY ExecImplementsPass, VerdictInvariant, UnitsApart, PTL
<1>2. TypeOK /\ ExecInit => ExecInv
  <2> SUFFICES ASSUME TypeOK, ExecInit PROVE ExecInv
    OBVIOUS
  <2>1. where = "away"
    BY DEF ExecInit
  <2> QED
    BY <2>1, TypedInitially DEF ExecInv, Inside, OnTrack
<1>3. TypeOK /\ VerdictInv /\ Apart /\ ExecInv /\ [ExecNext]_<<vars, execvars>> => ExecInv'
  <2> SUFFICES ASSUME TypeOK, VerdictInv, Apart, ExecInv, [ExecNext]_<<vars, execvars>>
               PROVE  ExecInv'
    OBVIOUS
  <2>1. ExecTypeOK' /\ Accepted'
    BY TypedInductive DEF ExecTyped, ExecInv
  <2>2. OnTrack'
    BY OnTrackInductive DEF ExecTyped, ExecInv
  <2>3. ASSUME WritesCounted', AsWritten' PROVE Inside'
    BY <2>3, InsideInductive DEF ExecTyped, ExecInv
  <2> QED
    BY <2>1, <2>2, <2>3 DEF ExecInv
<1> QED
  BY <1>1, <1>2, <1>3, PTL DEF ExecSpec

LEMMA InvGivesSandbox ==
    ASSUME TypeOK, VerdictInv, Apart, ExecInv, WritesCounted, AsWritten
    PROVE  StackKept /\ (NoBitStrings => StaysInside)
<1>1. Inside
  BY DEF ExecInv
<1>2. CASE where = "box"
  <2>1. Ready
    BY <1>2 DEF Ready, ExecTyped, ExecInv, Accepted
  <2> QED
    BY <1>1, <1>2, <2>1, InsideStays, InsideKeeps DEF StaysInside
<1>3. CASE where # "box"
  BY <1>1, <1>3 DEF StaysInside, Outside, StackKept, Inside
<1> QED
  BY <1>2, <1>3

\* Whatever path it takes, code the verifier passed has the CPU execute the instructions the
\* verifier has looked at and no others.
THEOREM OnlyCheckedCorrect == ExecSpec => []OnlyChecked
<1>1. ExecInv => OnlyChecked
  BY DEF ExecInv, OnTrack, Tracks, Insts, NextUnit, OnlyChecked
<1> QED
  BY <1>1, ExecInvariant, PTL

\* ... so that it never executes a system call, nor another instruction of that kind.
THEOREM NeverEscapesCorrect == ExecSpec => []NeverEscapes
<1>1. TypeOK /\ VerdictInv /\ Apart /\ ExecInv => NeverEscapes
  <2> SUFFICES ASSUME TypeOK, VerdictInv, Apart, ExecInv, where = "box" PROVE ~Escapes(inst)
    BY DEF NeverEscapes
  <2>1. Ready /\ OnTrack
    BY DEF Ready, ExecTyped, ExecInv, Accepted
  <2> QED
    BY <2>1, OnTrackStays
<1> QED
  BY <1>1, ExecInvariant, PTL

\* Accepted code keeps the base and the context in their registers if it has no instruction
\* that writes one of them in an operand nmod() does not count, as a CMPccXADD does that names
\* r14 or r15 second.
THEOREM BaseCorrect == ExecSpec => []BaseKeptIfCounted
<1>1. ExecInv => BaseKeptIfCounted
  BY DEF ExecInv, OnTrack, Held, Pinned, BaseKept, BaseKeptIfCounted
<1> QED
  BY <1>1, ExecInvariant, PTL

\* If also its macro-instructions have no prefix and no source in memory that the recognisers
\* do not look at, it has the stack pointer in the sandbox at every boundary between units.
THEOREM StackCorrect == ExecSpec => []StackKeptIfWritten
<1>1. TypeOK /\ VerdictInv /\ Apart /\ ExecInv => StackKeptIfWritten
  BY InvGivesSandbox DEF StackKeptIfWritten
<1> QED
  BY <1>1, ExecInvariant, PTL

\* If also it has no bit test with its bit in a register, it never leaves the sandbox: there
\* is no other way out than these three.
THEOREM SandboxCorrect == ExecSpec => []InsideIfWritten
<1>1. TypeOK /\ VerdictInv /\ Apart /\ ExecInv => InsideIfWritten
  BY InvGivesSandbox DEF InsideIfWritten
<1> QED
  BY <1>1, ExecInvariant, PTL
=============================================================================
