-------------------------- MODULE Arm64ExecProofs --------------------------
(***************************************************************************)
(* Theorems about Arm64Exec: what executing accepted ARM64 code can do,    *)
(* for every decoder and every set of programs.                            *)
(***************************************************************************)
EXTENDS Arm64Exec, Arm64CodeProofs

\* The inputs never change and hold accepted code.
Accepted == /\ opts \in Options /\ regions \in Seq(Seq(Word))
            /\ \A r \in DOMAIN regions : Valid(opts, regions[r])

\* Nothing but a guard sets x30 guarded: in the full sandbox always.
Kept == opts.box = "FULL" \/ X30Kept

ExecInv == /\ TypeOK /\ Accepted /\ ReservedKept
           /\ Kept => where # "outside" /\ CleanWhereGuarded

\* The registers that stay what they are while verified code runs.
LEMMA ReservedRegs ==
    /\ Reserved = {REG_CTX, REG_BASE, REG_ADDR, REG_RET, 31}
    /\ REG_CTX = 25 /\ REG_BASE = 27 /\ REG_ADDR = 28 /\ REG_RET = 30
  BY DEF Reserved, REG_CTX, REG_BASE, REG_ADDR, REG_RET

-----------------------------------------------------------------------------
(* Types. *)

LEMMA PlaceFacts ==
    ASSUME TypeOK, NEW p \in Places
    PROVE  /\ p[1] \in DOMAIN regions /\ p[2] \in 1..Len(regions[p[1]])
           /\ p = <<p[1], p[2]>>
           /\ regions[p[1]] \in Seq(Word) /\ Len(regions[p[1]]) \in Nat
           /\ regions[p[1]][p[2]] \in Word
<1>1. PICK r \in DOMAIN regions : p \in {r} \X (1..Len(regions[r]))
  BY DEF Places
<1>2. regions[r] \in Seq(Word)
  BY <1>1 DEF TypeOK
<1>3. p[1] = r /\ p[2] \in 1..Len(regions[r]) /\ p = <<p[1], p[2]>>
  BY <1>1
<1> QED
  BY <1>1, <1>2, <1>3

LEMMA NextPlace ==
    ASSUME TypeOK, NEW r \in DOMAIN regions, NEW k \in 1..Len(regions[r])
    PROVE  <<r, k>> \in Places
  BY DEF Places

LEMMA FallsTyped ==
    ASSUME TypeOK, UNCHANGED regions, Falls PROVE at' \in Places'
<1>1. Places' = Places
  BY DEF Places
<1>2. CASE at[2] < Len(regions[at[1]])
  <2>1. at[1] \in DOMAIN regions /\ at[2] + 1 \in 1..Len(regions[at[1]])
    BY <1>2, PlaceFacts DEF TypeOK
  <2> QED
    BY <1>1, <1>2, <2>1, NextPlace DEF Falls
<1>3. CASE ~(at[2] < Len(regions[at[1]]))
  BY <1>1, <1>3 DEF Falls
<1> QED
  BY <1>2, <1>3

LEMMA EffectTyped == ASSUME TypeOK, NEW d PROVE Effect(d) \in [Reserved -> Class]
  BY DEF Effect, Result, TypeOK, Class

LEMMA ArrivalTyped ==
    ASSUME NEW x30 \in Clean PROVE Arrival(x30) \in [Reserved -> Class]
  BY DEF Arrival, Class, Clean

LEMMA LinkTyped == ASSUME TypeOK, Link PROVE regs' \in [Reserved -> Class]
  BY DEF Link, TypeOK, Class, Reserved, REG_RET

\* The execution is well typed: it fetches words of the accepted regions only.
THEOREM TypeCorrect == Spec => []TypeOK
<1>1. Init => TypeOK
  <2> SUFFICES ASSUME Init PROVE TypeOK
    OBVIOUS
  <2>1. PICK p \in Programs : opts = p.opts /\ regions = p.regions
    BY DEF Init
  <2>2. opts \in Options /\ regions \in Seq(Seq(Word))
    BY <2>1, ProgramsAssumption
  <2>3. regs \in [Reserved -> Class]
    BY ArrivalTyped DEF Init, Clean
  <2> QED
    BY <2>2, <2>3 DEF Init, TypeOK
<1>2. TypeOK /\ [Next]_vars => TypeOK'
  <2> SUFFICES ASSUME TypeOK, [Next]_vars PROVE TypeOK'
    OBVIOUS
  <2>1. opts \in Options /\ regions \in Seq(Seq(Word)) /\ UNCHANGED <<opts, regions>>
    BY DEF TypeOK, Next, vars, Enter, ExecHint, ExecPlain, ExecDirect, ExecNotTaken, ExecIndirect,
           Executes, Lost
  <2>2. Places' = Places
    BY <2>1 DEF Places
  <2>3. CASE UNCHANGED vars \/ Lost
    BY <2>2, <2>3 DEF TypeOK, vars, Lost
  <2>4. CASE Enter
    <3>1. regs' \in [Reserved -> Class]
      BY <2>4, ArrivalTyped DEF Enter
    <3> QED
      BY <2>1, <2>2, <2>4, <3>1 DEF Enter, TypeOK
  <2>5. CASE ExecHint \/ ExecNotTaken
    BY <2>1, <2>5, FallsTyped DEF ExecHint, ExecNotTaken, Falls, TypeOK
  <2>6. CASE ExecPlain
    BY <2>1, <2>6, FallsTyped, EffectTyped DEF ExecPlain, Falls, TypeOK
  <2>7. CASE ExecDirect
    BY <2>1, <2>2, <2>7, LinkTyped DEF ExecDirect, TypeOK
  <2>8. CASE ExecIndirect
    <3>1. where' \in {"box", "runtime", "outside"}
      BY <2>8 DEF ExecIndirect, Destination
    <3>2. at' \in Places
      BY <2>8 DEF ExecIndirect, TypeOK
    <3> QED
      BY <2>1, <2>2, <2>8, <3>1, <3>2, LinkTyped DEF ExecIndirect, TypeOK
  <2> QED
    BY <2>3, <2>4, <2>5, <2>6, <2>7, <2>8 DEF Next
<1> QED
  BY <1>1, <1>2, PTL DEF Spec

-----------------------------------------------------------------------------
(* One instruction. *)

\* Of a valid word that is not a hint: either the checks passed, or it is the read of
\* [x30], which writes nothing that is reserved.
LEMMA ValidSplits ==
    ASSUME NEW w \in Word, NEW o, NEW g, ValidWord(o, w, g), w \notin HintWords
    PROVE  LET d == da64_decode[w] IN
           \/ Checked(w) /\ Checks(o, d, g)
           \/ ~Checked(w) /\ d.group \notin BranchGroups /\ is_x30_ldr_guard(d)
<1> DEFINE d == da64_decode[w]
<1>1. is_x30_ldr_guard(d) => d.group \notin BranchGroups
  BY DecoderAssumption DEF is_x30_ldr_guard
<1> QED
  BY <1>1 DEF ValidWord, Checked

\* The read of [x30] leaves every reserved register as it is.
LEMMA LdrGuardWrites ==
    ASSUME NEW w \in Word, is_x30_ldr_guard(da64_decode[w])
    PROVE  LET d == da64_decode[w] IN
           Written(d) = {} /\ Moved(d) = {} /\ Stepped(d) = {}
<1> DEFINE d == da64_decode[w]
<1>1. /\ d.ops[0].type # "REGSP" /\ d.ops[0].reg = 31 /\ d.ops[1].type = "MEMUOFF"
      /\ \A k \in OpIndex : d.ops[k].type \notin
                {"MEMSOFFPRE", "MEMSOFFPOST", "MEMREGPOST", "MEMINC"}
  BY DecoderAssumption DEF is_x30_ldr_guard
<1>2. Destinations(d) \subseteq {0, 1}
  BY DEF Destinations
<1>3. Written(d) = {}
  BY <1>1, <1>2 DEF Written, RegOps
<1> QED
  BY <1>1, <1>3 DEF Moved, Stepped

\* What okmemop keeps from the reserved registers: no register is moved by another, and the
\* fixed ones are not stepped; in the full sandbox only the address register and sp are.
LEMMA WritebackChecked ==
    ASSUME NEW o, NEW d, chkmemops(o, d)
    PROVE  /\ Moved(d) = {} /\ REG_BASE \notin Stepped(d)
           /\ o.ctxreg => REG_CTX \notin Stepped(d)
           /\ o.box = "FULL" => REG_RET \notin Stepped(d)
<1>1. \A k \in OpIndex : okmemop(o, d.ops[k], isload(d))
  BY DEF chkmemops
<1>2. ASSUME NEW k \in OpIndex
      PROVE  /\ d.ops[k].type # "MEMREGPOST"
             /\ d.ops[k].type \in {"MEMSOFFPRE", "MEMSOFFPOST", "MEMINC"}
                  => /\ ~fixedreg(o, d.ops[k].reg)
                     /\ o.box = "FULL" => d.ops[k].reg \in {REG_ADDR, 31}
  BY <1>1, ReservedRegs DEF okmemop, ldstreg, fixedreg, ctxreg
<1>3. \A k \in OpIndex : d.ops[k].type \in {"MEMSOFFPRE", "MEMSOFFPOST", "MEMINC"}
                           => /\ d.ops[k].reg # REG_BASE /\ (o.ctxreg => d.ops[k].reg # REG_CTX)
                              /\ o.box = "FULL" => d.ops[k].reg # REG_RET
  BY <1>2, ReservedRegs DEF fixedreg, ctxreg
<1>4. Moved(d) = {}
  BY <1>2 DEF Moved
<1> QED
  BY <1>3, <1>4 DEF Stepped

\* nmod misses none of the operands an instruction writes.
LEMMA DestinationsAreMods == ASSUME NEW d PROVE Destinations(d) \subseteq nmod(d)
  BY DEF Destinations, nmod

\* What okmod keeps from the reserved registers: of those that stay what they are only the
\* address register and sp are written, with a sandbox address.
LEMMA ModChecked ==
    ASSUME ReservedKept, NEW o, NEW d, \A k \in nmod(d) : okmod(o, d, d.ops[k]),
           NEW r \in Written(d)
    PROVE  /\ r # REG_BASE /\ (o.ctxreg => r # REG_CTX)
           /\ r \in {REG_ADDR, 31} => Result(d) = "box"
<1>1. PICK k \in nmod(d) : /\ d.ops[k].type \in RegOps /\ d.ops[k].reg = r
                           /\ r = 31 => d.ops[k].type = "REGSP"
  BY DestinationsAreMods DEF Written
<1>2. okmod(o, d, d.ops[k])
  BY <1>1
<1>3. r # REG_BASE /\ (o.ctxreg => r # REG_CTX)
  BY <1>1, <1>2 DEF okmod, fixedreg, ctxreg
<1>4. ASSUME r \in {REG_ADDR, 31} PROVE Result(d) = "box"
  <2>1. addrreg(r, d.ops[k].type = "REGSP") /\ ~retreg(r)
    BY <1>1, <1>4, ReservedRegs DEF addrreg, retreg
  <2>2. d.mnem = "ADD_EXT" /\ d.ops[0].sf = 1 /\ RebasesW(d)
    BY <1>1, <1>2, <2>1 DEF okmod
  <2>3. AddsLowToBase(d)
    BY <2>2 DEF AddsLowToBase, RebasesW, basereg, ReservedKept
  <2> QED
    BY <2>3 DEF Result
<1> QED
  BY <1>3, <1>4

\* An immediate as unsigned and as signed: below 32768 they are the same.
LEMMA ImmSigns ==
    ASSUME NEW u \in Imm16
    PROVE  /\ u < 32768 => SImm16(u) = u
           /\ u <= 32760 => u < 32768
           /\ SImm16(u) \in Table => u \in Table \/ u >= 32768
<1>1. u \in Int
  BY DEF Imm16
<1>2. u < 32768 => SImm16(u) = u
  BY <1>1 DEF SImm16
<1>3. u < 32768 \/ u >= 32768
  BY <1>1
<1> QED
  BY <1>1, <1>2, <1>3

LEMMA ImmTyped == ASSUME NEW op \in Op PROVE op.imm \in Imm16
  BY DEF Op

LEMMA OpTyped == ASSUME NEW w \in Word, NEW k \in OpIndex PROVE da64_decode[w].ops[k] \in Op
  BY DecoderAssumption DEF Inst

\* An offset okrtcallimm accepts is one of the table, or a scaled one so large that its 16
\* bits are those of a small negative one.
LEMMA RtcallOffset ==
    ASSUME NEW op \in Op, okrtcallimm(op.imm)
    PROVE  /\ MemOffset(op) \in Table \/ (op.type = "MEMUOFF" /\ MemOffset(op) >= 32768)
           /\ op.imm < 32768 => MemOffset(op) \in Table
<1>1. SImm16(op.imm) \in Table
  BY DEF okrtcallimm, Table
<1>2. op.imm \in Imm16
  BY ImmTyped
<1>3. op.imm \in Table \/ op.imm >= 32768
  BY <1>1, <1>2, ImmSigns
<1>4. (MemOffset(op) = op.imm /\ op.type = "MEMUOFF") \/ MemOffset(op) = SImm16(op.imm)
  BY DEF MemOffset
<1>5. op.imm < 32768 => MemOffset(op) \in Table
  BY <1>1, <1>2, <1>4, ImmSigns
<1> QED
  BY <1>1, <1>3, <1>4, <1>5

\* What sets x30 guarded gives it a clean value: the rebasing add, or the load okmod takes
\* for a guard, from the table by okmemop or, in the stores-only sandbox, by KeepsX30.
LEMMA GuardCleans ==
    ASSUME ReservedKept, NEW o, NEW w \in Word, chkmemops(o, da64_decode[w]),
           o.box \in {"FULL", "STORES"}, o.box = "STORES" => KeepsX30(da64_decode[w]),
           ModifiesX30(da64_decode[w]), SetsX30Guarded(da64_decode[w])
    PROVE  Result(da64_decode[w]) \in Clean
<1> DEFINE d == da64_decode[w]
<1>1. CASE is_x30_guard(d)
  BY <1>1 DEF is_x30_guard, RebasesW, basereg, ReservedKept, AddsLowToBase, Result, Clean
<1>2. CASE ~is_x30_guard(d)
  <2>1. /\ \/ d.mnem = "LDR_IMM" /\ d.ops[1].type = "MEMUOFF"
           \/ d.mnem = "LDURX" /\ d.ops[1].type = "MEMSOFF"
        /\ d.ops[1].reg = REG_BASE
    BY <1>2 DEF SetsX30Guarded, rtsysreg
  <2>2. MemOffset(d.ops[1]) \in Table
    <3>1. CASE o.box = "STORES"
      BY <1>2, <3>1 DEF KeepsX30
    <3>2. CASE o.box = "FULL"
      <4>1. okmemop(o, d.ops[1], isload(d))
        BY DEF chkmemops, OpIndex
      <4>2. okrtcallimm(d.ops[1].imm)
        BY <2>1, <3>2, <4>1, ReservedRegs DEF okmemop, ctxreg, ldstreg
      <4>3. d.mnem = "LDR_IMM" => d.ops[1].imm <= 32760
        BY DecoderAssumption DEF OpIndex
      <4>4. d.ops[1] \in Op /\ d.ops[1].imm \in Imm16
        BY OpTyped, ImmTyped DEF OpIndex
      <4>5. d.ops[1].type # "MEMUOFF" \/ d.ops[1].imm < 32768
        BY <2>1, <4>3, <4>4, ImmSigns
      <4> QED
        BY <4>2, <4>4, <4>5, RtcallOffset
    <3> QED
      BY <3>1, <3>2
  <2> QED
    BY <2>1, <2>2 DEF LoadsEntry, ReservedKept, Result, Clean
<1> QED
  BY <1>1, <1>2

\* What sets x30 guarded writes it.
LEMMA GuardsWrite ==
    ASSUME NEW d, ModifiesX30(d), SetsX30Guarded(d) PROVE REG_RET \in Written(d)
<1>1. PICK k \in nmod(d) : d.ops[k].type \in RegOps /\ d.ops[k].reg = REG_RET
  BY DEF ModifiesX30, retreg
<1>2. /\ d.mnem \in {"ADD_EXT", "LDR_IMM", "LDURX"}
      /\ d.ops[1].reg # REG_RET
  BY ReservedRegs DEF SetsX30Guarded, is_x30_guard, RebasesW, basereg, rtsysreg
<1>3. k = 0
  BY <1>1, <1>2 DEF nmod
<1>4. 0 \in Destinations(d)
  BY <1>1, <1>2, <1>3 DEF nmod, Destinations, PairLoads, PlainStores, OtherStores
<1> QED
  BY <1>1, <1>3, <1>4, ReservedRegs DEF Written

\* What an instruction that passed the checks leaves in the reserved registers.
LEMMA CheckedEffect ==
    ASSUME TypeOK, ReservedKept, NEW d, chkmemops(opts, d),
           \A k \in nmod(d) : okmod(opts, d, d.ops[k])
    PROVE  /\ Effect(d)[REG_BASE] = "base" /\ Effect(d)[REG_ADDR] = "box" /\ Effect(d)[31] = "box"
           /\ opts.ctxreg => Effect(d)[REG_CTX] = "ctx"
<1>1. \A r \in Reserved : Effect(d)[r] = IF r \in Written(d) THEN Result(d)
                  ELSE IF r \in Stepped(d) /\ regs[r] # "box" THEN "any" ELSE regs[r]
  BY WritebackChecked DEF Effect
<1>2. Effect(d)[REG_BASE] = "base"
  BY <1>1, ReservedRegs, WritebackChecked, ModChecked DEF ReservedKept
<1>3. opts.ctxreg => Effect(d)[REG_CTX] = "ctx"
  BY <1>1, ReservedRegs, WritebackChecked, ModChecked DEF ReservedKept
<1>4. Effect(d)[REG_ADDR] = "box" /\ Effect(d)[31] = "box"
  BY <1>1, ReservedRegs, ModChecked DEF ReservedKept
<1> QED
  BY <1>2, <1>3, <1>4

\* An accepted word that does not branch keeps the registers that stay what they are.
LEMMA EffectKeeps ==
    ASSUME TypeOK, ReservedKept, NEW w \in Word, NEW g, ValidWord(opts, w, g), w \notin HintWords
    PROVE  LET d == da64_decode[w] IN
           /\ Effect(d)[REG_BASE] = "base" /\ Effect(d)[REG_ADDR] = "box" /\ Effect(d)[31] = "box"
           /\ opts.ctxreg => Effect(d)[REG_CTX] = "ctx"
<1> DEFINE d == da64_decode[w]
<1>1. CASE ~Checked(w) /\ is_x30_ldr_guard(d)
  <2>1. Effect(d) = [r \in Reserved |-> regs[r]]
    BY <1>1, LdrGuardWrites DEF Effect
  <2> QED
    BY <2>1, ReservedRegs DEF ReservedKept
<1>2. CASE Checked(w) /\ Checks(opts, d, g)
  BY <1>2, CheckedEffect DEF Checks
<1> QED
  BY <1>1, <1>2, ValidSplits

\* And it leaves x30 clean where the verifier takes it to be guarded.
LEMMA EffectCleans ==
    ASSUME TypeOK, ReservedKept, NEW w \in Word, NEW g \in BOOLEAN, ValidWord(opts, w, g),
           w \notin HintWords, opts.box = "STORES" => KeepsX30(da64_decode[w]),
           g => regs[REG_RET] \in Clean, Guards(w) \/ (~Unguards(w) /\ g)
    PROVE  Effect(da64_decode[w])[REG_RET] \in Clean
<1> DEFINE d == da64_decode[w]
<1>0. opts.box \in {"FULL", "STORES"}
  BY DEF TypeOK, Options
<1>1. CASE ~Checked(w) /\ is_x30_ldr_guard(d)
  <2>1. Effect(d) = [r \in Reserved |-> regs[r]]
    BY <1>1, LdrGuardWrites DEF Effect
  <2> QED
    BY <1>1, <2>1, ReservedRegs DEF Guards
<1>2. CASE Checked(w) /\ Checks(opts, d, g)
  <2>1. chkmemops(opts, d)
    BY <1>2 DEF Checks
  <2>2. /\ REG_RET \in Written(d) => ModifiesX30(d)
        /\ ModifiesX30(d) /\ SetsX30Guarded(d) => REG_RET \in Written(d)
    BY GuardsWrite, DestinationsAreMods, ReservedRegs DEF Written, ModifiesX30, retreg
  <2>3. REG_RET \notin Stepped(d) /\ Moved(d) = {}
    BY <1>0, <2>1, WritebackChecked DEF KeepsX30
  <2>4. Effect(d)[REG_RET] = IF REG_RET \in Written(d) THEN Result(d) ELSE regs[REG_RET]
    BY <2>3, ReservedRegs DEF Effect
  <2>5. CASE ModifiesX30(d)
    BY <1>0, <1>2, <2>1, <2>2, <2>4, <2>5, GuardCleans DEF Guards, Unguards
  <2>6. CASE ~ModifiesX30(d)
    BY <2>2, <2>4, <2>6 DEF Guards
  <2> QED
    BY <2>5, <2>6
<1> QED
  BY <1>1, <1>2, ValidSplits

-----------------------------------------------------------------------------
(* The invariant. *)

LEMMA InvInitially == Init => ExecInv
<1> SUFFICES ASSUME Init PROVE ExecInv
  OBVIOUS
<1>1. PICK p \in Programs :
        /\ opts = p.opts /\ regions = p.regions
        /\ \A r \in DOMAIN p.regions : Valid(p.opts, p.regions[r])
  BY DEF Init
<1>2. Accepted
  BY <1>1, ProgramsAssumption DEF Accepted
<1>3. regs \in [Reserved -> Class]
  BY ArrivalTyped DEF Init, Clean
<1>4. TypeOK
  BY <1>2, <1>3 DEF Init, TypeOK, Accepted
<1>5. ReservedKept
  BY ReservedRegs DEF Init, ReservedKept, Arrival
<1> QED
  BY <1>2, <1>4, <1>5 DEF ExecInv, CleanWhereGuarded, Init

\* What the invariant says of the word executed next.
LEMMA WordFacts ==
    ASSUME ExecInv, where = "box"
    PROVE  LET c == regions[at[1]] IN
           /\ c \in Seq(Word) /\ at[2] \in 1..Len(c) /\ Len(c) \in Nat /\ word \in Word
           /\ ValidWord(opts, word, GuardedBefore(c, at[2]))
           /\ Kept /\ GuardedBefore(c, at[2]) => regs[REG_RET] \in Clean
           /\ GuardedBefore(c, Len(c) + 1)
           /\ Kept /\ opts.box = "STORES" => KeepsX30(inst)
           /\ GuardedBefore(c, at[2] + 1) <=> \/ Guards(word)
                                              \/ ~Unguards(word) /\ GuardedBefore(c, at[2])
<1>1. TypeOK /\ at \in Places
  BY DEF ExecInv, TypeOK
<1>2. at[1] \in DOMAIN regions /\ Valid(opts, regions[at[1]])
  BY <1>1, PlaceFacts DEF ExecInv, Accepted
<1>3. at[2] \in 1..Len(regions[at[1]]) /\ at[2] \in Nat \ {0}
  BY <1>1, PlaceFacts
<1> QED
  <2>1. Kept /\ opts.box = "STORES" => KeepsX30(inst)
    BY <1>1, <1>2, <1>3 DEF Kept, X30Kept, inst, word
  <2> QED
    BY <1>1, <1>2, <1>3, <2>1, PlaceFacts, GuardedBeforeNext
       DEF word, Valid, ExecInv, CleanWhereGuarded

\* At its first word nothing is asked of x30.
LEMMA CleanSuffices ==
    ASSUME regs[REG_RET] \in Clean PROVE CleanWhereGuarded
  BY DEF CleanWhereGuarded

\* Going on to the next word keeps x30 clean where it is guarded, if the word did.
LEMMA FallsKeeps ==
    ASSUME ExecInv, where = "box", Falls, UNCHANGED <<opts, regions>>,
           GuardedBefore(regions[at[1]], at[2] + 1) => regs'[REG_RET] \in Clean
    PROVE  /\ CleanWhereGuarded'
           /\ at' # <<at[1], at[2] + 1>> => regs'[REG_RET] \in Clean
<1> DEFINE c == regions[at[1]]
<1>1. CASE at[2] < Len(c)
  <2>1. at' = <<at[1], at[2] + 1>>
    BY <1>1 DEF Falls
  <2> QED
    BY <2>1 DEF CleanWhereGuarded, GuardedBefore
<1>2. CASE ~(at[2] < Len(c))
  <2>1. at[2] = Len(c)
    BY <1>2, WordFacts
  <2>2. regs'[REG_RET] \in Clean
    BY <2>1, WordFacts
  <2> QED
    BY <2>2 DEF CleanWhereGuarded
<1> QED
  BY <1>1, <1>2

\* What every step keeps, and that control arrives clean.
StepClean == Arrives => regs'[REG_RET] \in Clean

StepInv == /\ ReservedKept'
           /\ Kept => where' # "outside" /\ CleanWhereGuarded' /\ StepClean

LEMMA HintStep == ExecInv /\ ExecHint => StepInv
<1> SUFFICES ASSUME ExecInv, ExecHint PROVE StepInv
  OBVIOUS
<1>1. where = "box" /\ UNCHANGED <<opts, regions, regs>> /\ where' = where /\ Falls
      /\ word \in HintWords
  BY DEF ExecHint, Executes, Falls
<1>2. Kept /\ GuardedBefore(regions[at[1]], at[2] + 1) => regs'[REG_RET] \in Clean
  BY <1>1, WordFacts DEF Guards, Unguards, Checked
<1>3. ReservedKept'
  BY <1>1 DEF ReservedKept, ExecInv
<1> QED
  BY <1>1, <1>2, <1>3, FallsKeeps DEF StepInv, StepClean, Arrives

LEMMA PlainStep == ExecInv /\ ExecPlain => StepInv
<1> SUFFICES ASSUME ExecInv, ExecPlain PROVE StepInv
  OBVIOUS
<1> DEFINE g == GuardedBefore(regions[at[1]], at[2])
<1>1. /\ where = "box" /\ UNCHANGED <<opts, regions>> /\ where' = where /\ Falls
      /\ word \notin HintWords /\ regs' = Effect(da64_decode[word])
  BY DEF ExecPlain, Executes, Falls, inst
<1>2. /\ word \in Word /\ ValidWord(opts, word, g) /\ TypeOK /\ ReservedKept
      /\ Kept => /\ g => regs[REG_RET] \in Clean
                 /\ opts.box = "STORES" => KeepsX30(da64_decode[word])
  BY <1>1, WordFacts DEF ExecInv, inst
<1>3. g \in BOOLEAN
  BY DEF GuardedBefore
<1>4. ReservedKept'
  <2> HIDE DEF g
  <2> QED
    BY <1>1, <1>2, EffectKeeps DEF ReservedKept
<1>5. ASSUME Kept, GuardedBefore(regions[at[1]], at[2] + 1) PROVE regs'[REG_RET] \in Clean
  <2>1. Guards(word) \/ (~Unguards(word) /\ g)
    BY <1>1, <1>5, WordFacts
  <2> HIDE DEF g
  <2> QED
    BY <1>1, <1>2, <1>3, <1>5, <2>1, EffectCleans
<1> QED
  BY <1>1, <1>4, <1>5, FallsKeeps DEF StepInv, StepClean, Arrives

\* A valid branch is guarded, unless it is the runtime call.
LEMMA BranchGuarded ==
    ASSUME ExecInv, where = "box", word \notin HintWords, inst.group \in BranchGroups
    PROVE  /\ Checked(word)
           /\ chkbranch(inst, GuardedBefore(regions[at[1]], at[2]))
           /\ Kept /\ ~RuntimeCall(inst) => regs[REG_RET] \in Clean
           /\ ~Guards(word) /\ ~Unguards(word)
<1>1. Checked(word) /\ Checks(opts, inst, GuardedBefore(regions[at[1]], at[2]))
  BY WordFacts, ValidSplits DEF inst
<1>2. chkbranch(inst, GuardedBefore(regions[at[1]], at[2]))
  BY <1>1 DEF Checks
<1>3. ~RuntimeCall(inst) => GuardedBefore(regions[at[1]], at[2])
  BY <1>2 DEF chkbranch
<1>4. ~ModifiesX30(inst)
  BY DEF ModifiesX30, nmod
<1> QED
  BY <1>1, <1>2, <1>3, <1>4, WordFacts DEF Guards, Unguards, inst

\* A link register is clean, and linking disturbs no other register.
LEMMA LinkKeeps ==
    ASSUME TypeOK, ReservedKept, UNCHANGED opts, Link
    PROVE  ReservedKept' /\ (regs[REG_RET] \in Clean => regs'[REG_RET] \in Clean)
<1>1. regs' = [regs EXCEPT ![REG_RET] = "box"] \/ regs' = regs
  BY DEF Link
<1> QED
  BY <1>1, ReservedRegs DEF ReservedKept, TypeOK, Clean

LEMMA DirectStep == ExecInv /\ ExecDirect => StepInv
<1> SUFFICES ASSUME ExecInv, ExecDirect PROVE StepInv
  OBVIOUS
<1>1. where = "box" /\ where' = where /\ word \notin HintWords /\ Link
      /\ inst.group \in {"BRANCH", "BCOND"} /\ UNCHANGED opts
  BY DEF ExecDirect, Executes
<1>2. ~RuntimeCall(inst)
  BY <1>1, WordFacts, DecoderAssumption DEF RuntimeCall, IndirectBranches, inst
<1>3. Kept => regs[REG_RET] \in Clean
  BY <1>1, <1>2, BranchGuarded DEF BranchGroups
<1>4. ReservedKept' /\ (Kept => regs'[REG_RET] \in Clean)
  BY <1>1, <1>3, LinkKeeps DEF ExecInv
<1> QED
  BY <1>1, <1>4 DEF StepInv, StepClean, Arrives, CleanWhereGuarded

LEMMA NotTakenStep == ExecInv /\ ExecNotTaken => StepInv
<1> SUFFICES ASSUME ExecInv, ExecNotTaken PROVE StepInv
  OBVIOUS
<1>1. where = "box" /\ UNCHANGED <<opts, regions, regs>> /\ where' = where /\ Falls
      /\ word \notin HintWords /\ inst.group \in BranchGroups
  BY DEF ExecNotTaken, Executes, Falls, BranchGroups
<1>2. ~Guards(word) /\ ~Unguards(word)
  BY <1>1, BranchGuarded
<1>3. Kept /\ GuardedBefore(regions[at[1]], at[2] + 1) => regs'[REG_RET] \in Clean
  BY <1>1, <1>2, WordFacts
<1>4. ReservedKept'
  BY <1>1 DEF ReservedKept, ExecInv
<1> QED
  BY <1>1, <1>3, <1>4, FallsKeeps DEF StepInv, StepClean, Arrives

LEMMA IndirectStep == ExecInv /\ ExecIndirect => StepInv
<1> SUFFICES ASSUME ExecInv, ExecIndirect PROVE StepInv
  OBVIOUS
<1>1. /\ where = "box" /\ word \notin HintWords /\ inst.group = "BRANCHREG" /\ Link
      /\ where' = Destination(Target(inst)) /\ UNCHANGED opts
  BY DEF ExecIndirect, Executes
<1>2. /\ Checked(word) /\ word \in Word
      /\ chkbranch(inst, GuardedBefore(regions[at[1]], at[2]))
      /\ Kept /\ ~RuntimeCall(inst) => regs[REG_RET] \in Clean
  BY <1>1, BranchGuarded, WordFacts DEF BranchGroups
<1>3. inst.mnem \in IndirectBranches
  BY <1>1, <1>2, DecoderAssumption
     DEF inst, Checked, okmnem, chkbranch, IndirectBranches, PairLoads, PlainStores
<1>4. ReservedKept'
  BY <1>1, LinkKeeps DEF ExecInv
<1>5. CASE RuntimeCall(inst)
  <2>1. Target(inst) = "base"
    BY <1>3, <1>5, ReservedRegs DEF RuntimeCall, rtsysreg, Target, ExecInv, ReservedKept
  <2>2. where' = "runtime"
    BY <1>1, <2>1 DEF Destination
  <2> QED
    BY <1>4, <2>2 DEF StepInv, StepClean, Arrives, CleanWhereGuarded
<1>6. ASSUME Kept, ~RuntimeCall(inst)
      PROVE  where' # "outside" /\ CleanWhereGuarded' /\ StepClean
  <2>1. regs[REG_RET] \in Clean /\ inst.ops[0].reg \in {REG_ADDR, REG_RET}
    BY <1>2, <1>3, <1>6 DEF chkbranch, cfreg
  <2>2. Target(inst) \in Clean
    BY <1>3, <2>1, ReservedRegs DEF Target, ExecInv, ReservedKept, Clean
  <2>3. where' \in {"box", "runtime"}
    BY <1>1, <2>2 DEF Destination, Clean
  <2>4. regs'[REG_RET] \in Clean
    BY <1>1, <2>1, LinkKeeps DEF ExecInv
  <2> QED
    BY <2>3, <2>4 DEF StepClean, Arrives, CleanWhereGuarded
<1> QED
  BY <1>4, <1>5, <1>6 DEF StepInv

LEMMA EnterStep == ExecInv /\ Enter => StepInv
<1> SUFFICES ASSUME ExecInv, Enter PROVE StepInv
  OBVIOUS
<1>1. PICK x30 \in Clean : regs' = Arrival(x30)
  BY DEF Enter
<1>2. ReservedKept' /\ regs'[REG_RET] \in Clean
  BY <1>1, ReservedRegs DEF ReservedKept, Arrival, Enter
<1> QED
  BY <1>2 DEF Enter, StepInv, StepClean, Arrives, CleanWhereGuarded

LEMMA InvPreserved ==
    ExecInv /\ TypeOK' /\ [Next]_vars => ExecInv' /\ (UNCHANGED vars \/ (Kept => StepClean))
<1> SUFFICES ASSUME ExecInv, TypeOK', [Next]_vars
             PROVE  ExecInv' /\ (UNCHANGED vars \/ (Kept => StepClean))
  OBVIOUS
<1>1. UNCHANGED <<opts, regions>>
  BY DEF Next, vars, Enter, ExecHint, ExecPlain, ExecDirect, ExecNotTaken, ExecIndirect, Executes,
         Lost
<1>2. Accepted' /\ (Kept' <=> Kept)
  BY <1>1 DEF ExecInv, Accepted, Valid, GuardedBefore, Kept, X30Kept
<1>3. CASE UNCHANGED vars \/ Lost
  BY <1>2, <1>3 DEF ExecInv, vars, ReservedKept, CleanWhereGuarded, GuardedBefore, Lost
<1>4. CASE Next /\ ~Lost
  <2>1. StepInv
    BY <1>4, EnterStep, HintStep, PlainStep, DirectStep, NotTakenStep, IndirectStep DEF Next
  <2> QED
    BY <1>2, <2>1 DEF StepInv, ExecInv
<1> QED
  BY <1>3, <1>4

LEMMA InvCorrect == Spec => []ExecInv
  BY InvInitially, InvPreserved, TypeCorrect, PTL DEF Spec

\* Accepted code keeps the base, the address register, sp and the context register, for
\* every program under every combination of options.
THEOREM ReservedCorrect == Spec => []ReservedKept
<1>1. ExecInv => ReservedKept
  BY DEF ExecInv
<1> QED
  BY <1>1, InvCorrect, PTL

\* Code accepted for the full sandbox never executes outside what was verified, whatever
\* the program.
THEOREM FullStaysInsideCorrect == Spec => []FullStaysInside
<1>1. ExecInv => FullStaysInside
  BY DEF ExecInv, FullStaysInside, StaysInside, Kept
<1> QED
  BY <1>1, InvCorrect, PTL

\* Code accepted for the full sandbox has x30 clean wherever control arrives, whatever the
\* program.
THEOREM FullLandsCleanCorrect == Spec => FullLandsClean
<1>1. ExecInv /\ TypeOK' /\ [Next]_vars
        => [opts.box = "FULL" /\ Arrives => regs'[REG_RET] \in Clean]_vars
  BY InvPreserved DEF StepClean, Kept
<1> QED
  BY <1>1, InvCorrect, TypeCorrect, PTL DEF Spec, FullLandsClean

\* Code accepted for the stores-only sandbox never executes outside what was verified if no
\* load in it steps x30 or takes it from beside the table; the verifier does not ask that.
THEOREM StoresStayInsideCorrect == Spec => []StoresStayInsideIfX30Kept
<1>1. ExecInv => StoresStayInsideIfX30Kept
  BY DEF ExecInv, StoresStayInsideIfX30Kept, StaysInside, Kept
<1> QED
  BY <1>1, InvCorrect, PTL

-----------------------------------------------------------------------------
(* Accesses. *)

\* The table of loads holds nothing that stores.
LEMMA StoresAreNoLoads == ASSUME NEW d, Stores(d) PROVE ~isload(d)
  BY DEF Stores, isload, PairLoads, PlainStores, OtherStores

\* What okmemop lets through that is not a load of the stores-only sandbox stays inside.
LEMMA MemopInside ==
    ASSUME ReservedKept, opts \in Options, NEW w \in Word, NEW k \in OpIndex,
           chkmemops(opts, da64_decode[w]),
           opts.box = "FULL" \/ Stores(da64_decode[w]),
           da64_decode[w].ops[k].type \in MemTypes
    PROVE  AddressInside(da64_decode[w], da64_decode[w].ops[k])
<1> DEFINE d == da64_decode[w]
           op == d.ops[k]
<1>1. okmemop(opts, op, isload(d)) /\ ~(isload(d) /\ opts.box = "STORES")
  BY StoresAreNoLoads DEF chkmemops
<1>2. op \in Op
  BY OpTyped
<1>3. /\ ClassOf(REG_BASE) = "base" /\ ClassOf(REG_ADDR) = "box" /\ ClassOf(31) = "box"
      /\ opts.ctxreg => ClassOf(REG_CTX) = "ctx"
  BY ReservedRegs DEF ClassOf, ReservedKept
<1>4. CASE op.type \in {"MEMUOFF", "MEMSOFF"}
  <2>1. \/ rtsysreg(op.reg) /\ okrtcallimm(op.imm)
        \/ ctxreg(opts, op.reg) /\ op.imm = CTXREG_TP_OFFSET
        \/ ldstreg(op.reg, TRUE)
    BY <1>1, <1>4 DEF okmemop
  <2>2. CASE rtsysreg(op.reg) /\ okrtcallimm(op.imm)
    BY <1>2, <1>3, <1>4, <2>2, RtcallOffset DEF AddressInside, rtsysreg
  <2>3. CASE ctxreg(opts, op.reg) /\ op.imm = CTXREG_TP_OFFSET
    <3>1. d.mnem \in {"LDR_IMM", "STR_IMM"}
      BY <1>4, <2>3 DEF chkmemops, ok_ctxreg_ldst
    <3>2. op.imm <= 32760 /\ op.imm \in Imm16
      BY <1>2, <3>1, ImmTyped, DecoderAssumption
    <3>3. MemOffset(op) = op.imm
      BY <3>2, ImmSigns DEF MemOffset
    <3> QED
      BY <1>3, <1>4, <2>3, <3>1, <3>3 DEF AddressInside, ctxreg
  <2>4. CASE ldstreg(op.reg, TRUE)
    BY <1>3, <1>4, <2>4 DEF AddressInside, ldstreg
  <2> QED
    BY <2>1, <2>2, <2>3, <2>4
<1>5. CASE op.type \in {"MEMSOFFPRE", "MEMSOFFPOST"}
  BY <1>1, <1>3, <1>5 DEF okmemop, ldstreg, AddressInside
<1>6. CASE op.type = "MEMREG"
  BY <1>1, <1>3, <1>6 DEF okmemop, basereg, AddressInside
<1>7. op.type \notin {"MEMREGPOST", "MEMINC"}
  BY <1>1 DEF okmemop
<1> QED
  BY <1>4, <1>5, <1>6, <1>7 DEF MemTypes

\* Every access of accepted code, in the stores-only sandbox every store, is inside, for
\* every program under every combination of options.
THEOREM AccessesCorrect == Spec => []AccessesInside
<1>1. ExecInv => AccessesInside
  <2> SUFFICES ASSUME ExecInv, where = "box", word \notin HintWords, ~is_x30_ldr_guard(inst),
                      opts.box = "FULL" \/ Stores(inst)
               PROVE  Reaches(inst)
    BY DEF AccessesInside
  <2>1. Checks(opts, inst, GuardedBefore(regions[at[1]], at[2])) /\ word \in Word
    BY WordFacts, ValidSplits DEF inst
  <2>2. chkmemops(opts, inst) /\ chksys(inst) /\ ReservedKept /\ opts \in Options
    BY <2>1 DEF Checks, ExecInv, TypeOK
  <2>3. \A k \in OpIndex : inst.ops[k].type \in MemTypes => AddressInside(inst, inst.ops[k])
    BY <2>1, <2>2, MemopInside DEF inst
  <2>4. inst.mnem = "SYS" => ClassOf(inst.ops[1].reg) = "box"
    BY <2>2, ReservedRegs DEF chksys, ClassOf, ReservedKept
  <2> QED
    BY <2>3, <2>4 DEF Reaches
<1> QED
  BY <1>1, InvCorrect, PTL
=============================================================================
