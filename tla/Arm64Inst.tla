------------------------------ MODULE Arm64Inst ------------------------------
(***************************************************************************)
(* The checks the ARM64 verifier makes of one instruction                  *)
(* (src/src/arm64/verify.c), as operators over the decoded instruction.    *)
(*                                                                         *)
(* A decoded instruction d stands for struct Da64Inst of the disarm        *)
(* library: its mnemonic, its DA64_GROUP and its five operands.  Operators *)
(* keep the names of the C functions; a check that reports with verr() is  *)
(* TRUE here when it reports nothing.  o stands for struct LFIVOptions.    *)
(***************************************************************************)
EXTENDS Integers

CONSTANT CTXREG_TP_OFFSET   \* the one offset the context register may be used at

ASSUME OffsetAssumption == CTXREG_TP_OFFSET \in 0..65535

-----------------------------------------------------------------------------
(* The data of a decoded instruction. *)

OpIndex == 0..4   \* sizeof(dinst->ops) / sizeof(struct Da64Op)

OpType == {"NONE", "IMM", "VEC", "REGGP", "REGGPINC", "REGGPEXT", "REGSP",
           "REGFP", "SYSREG", "MEMUOFF", "MEMSOFF", "MEMSOFFPRE", "MEMSOFFPOST",
           "MEMREG", "MEMREGPOST", "MEMINC"}

Imm16 == 0..(2^16 - 1)

Op == [type : OpType, reg : 0..31, sf : 0..1, ext : {"UXTW", "UXTX", "SXTW"},
       amt : 0..7,             \* reggpext.shift of a register, memreg.sc of a memory operand
       imm : Imm16,            \* the 16 bits that uimm16 and simm16 share
       sysreg : STRING]

Inst == [mnem : STRING, group : STRING, ops : [OpIndex -> Op]]

Options == [box : {"FULL", "STORES"}, ctxreg : BOOLEAN,
            err : BOOLEAN]     \* whether the caller installed an error reporter

SImm16(u) == IF u >= 32768 THEN u - 65536 ELSE u

-----------------------------------------------------------------------------
(* Registers. *)

REG_ADDR == 28
REG_BASE == 27
REG_RET  == 30
REG_CTX  == 25

cfreg(reg)    == reg \in {REG_ADDR, REG_RET}
rtsysreg(reg) == reg = REG_BASE
basereg(reg)  == reg = REG_BASE
retreg(reg)   == reg = REG_RET

ctxreg(o, reg)   == o.ctxreg /\ reg = REG_CTX
fixedreg_noctx(o, reg) == reg = REG_BASE   \* Mutant: the context register is forgotten
fixedreg(o, reg) == reg = REG_BASE \/ ctxreg(o, reg)
ldstreg(reg, sp) == (sp /\ reg = 31) \/ reg = REG_ADDR
addrreg(reg, sp) == (sp /\ reg = 31) \/ cfreg(reg) \/ reg \in {REG_ADDR, REG_RET}

sysreg(s) == s \in {"fpsr", "fpcr", "dczid_el0", "id_aa64pfr0_el1", "id_aa64pfr1_el1",
                    "id_aa64zfr0_el1", "id_aa64isar0_el1", "id_aa64isar1_el1"}

-----------------------------------------------------------------------------
(* The mnemonic tables.  The two .instrs tables are represented by a few   *)
(* mnemonics of every kind the checks tell apart; nmod's are complete.     *)

BranchGroups == {"BRANCH", "BCOND", "BRANCHREG"}

PairLoads == {"LDPW_POST", "LDPW", "LDPW_PRE", "LDPSW_POST", "LDPSW", "LDPSW_PRE",
              "LDPX_POST", "LDPX", "LDPX_PRE", "LDNPW", "LDNPX", "LDXPW", "LDXPX",
              "LDAXPW", "LDAXPX", "LDP_FP_POST", "LDP_FP", "LDP_FP_PRE"}

PlainStores == {"STR_IMM", "STR_REG", "STRX_PRE", "STRX_POST",
                "STRB_IMM", "STRB_REG", "STRB_PRE", "STRB_POST",
                "STRH_IMM", "STRH_REG", "STRH_PRE", "STRH_POST",
                "STRW_IMM", "STRW_REG", "STRW_PRE", "STRW_POST",
                "STPX_POST", "STPX", "STPX_PRE"}

\* Mutant: the table of loads holds the swaps.
isload_swap(d) == d.mnem \in {"LDR_IMM", "LDR_REG", "LDRX_POST", "LDPX", "SWPAL", "SWPLB"}

isload(d) == d.mnem \in
    (PairLoads \cup {"LDR_IMM", "LDR_REG", "LDRX_POST", "LDRX_PRE", "LDURX", "LDRW_IMM",
                     "LDRB_IMM", "LDXRX", "LDR_LIT", "LDR_IMM_FP", "LD1_1", "LD1_1_POST",
                     "LD4", "PRFM_IMM"})

\* Mutant: the case of ERET is not commented out.
okmnem_eret(d) == d.mnem \in {"ADD_EXT", "LDR_IMM", "ORR_REG", "B", "RET", "BLR", "ERET"}

okmnem(d) == d.mnem \in
    (PairLoads \cup PlainStores \cup
     {"LDR_IMM", "LDR_REG", "LDRX_POST", "LDRX_PRE", "LDURX", "LDRW_IMM", "LDRB_IMM",
      "LDXRX", "LDR_IMM_FP", "LD1_1", "LD1_1_POST", "LD4", "PRFM_IMM",
      "STURX", "STPW_POST", "STPW", "STP_FP_POST", "STR_IMM_FP", "STXRX",
      "ADD_EXT", "ADD_IMM", "SUB_IMM", "ORR_REG", "AND_IMM", "MOVZ", "MOVK", "ADR", "EXTR",
      "UADDL2", "TBX4", "B", "BL", "BCOND", "CBZ", "BR", "BLR", "RET", "RETAA", "RETAB",
      "BRK", "SYS", "MSR", "MRS", "CASPAL", "CAS", "SWPAL", "SWPLB", "LDADDX", "LDADDW"})

\* The operands an instruction is taken to modify: the bits of nmod's mask.
nmod(d) ==
    IF d.group \in BranchGroups THEN {}
    ELSE IF d.group \in {"CASP", "CAS"} THEN {0, 1}
    ELSE IF d.group \in {"LDATOMIC", "SWP"} THEN {1}
    ELSE IF d.mnem \in PairLoads THEN {0, 1}
    ELSE IF d.mnem \in PlainStores THEN {}
    ELSE {0}

-----------------------------------------------------------------------------
(* The guard of the return address. *)

\* op0, x27, wN, uxtw: rebases the 32-bit value of any register.
RebasesW(d) == /\ basereg(d.ops[1].reg)
               /\ d.ops[2].ext = "UXTW" /\ d.ops[2].sf = 0 /\ d.ops[2].amt = 0

is_x30_guard(d) ==
    d.mnem = "ADD_EXT" /\ d.ops[0].reg = REG_RET /\ d.ops[0].sf = 1 /\ RebasesW(d)

is_x30_ldr_guard(d) ==
    /\ d.mnem = "LDR_IMM" /\ d.ops[0].reg = 31 /\ d.ops[0].sf = 1
    /\ d.ops[1].type = "MEMUOFF" /\ d.ops[1].reg = REG_RET /\ d.ops[1].imm = 0

\* Mutant: a load from any register guards.
SetsX30Guarded_anyload(d) == is_x30_guard(d) \/ (d.mnem = "LDR_IMM" /\ d.ops[1].type = "MEMUOFF")

\* The instructions that leave x30 guarded when they modify it.
SetsX30Guarded(d) ==
    \/ is_x30_guard(d)
    \/ d.mnem = "LDR_IMM" /\ d.ops[1].type = "MEMUOFF" /\ rtsysreg(d.ops[1].reg)
    \/ d.mnem = "LDURX" /\ d.ops[1].type = "MEMSOFF" /\ rtsysreg(d.ops[1].reg)

RegOps == {"REGGP", "REGGPINC", "REGGPEXT", "REGSP"}

ModifiesX30(d) == \E k \in nmod(d) : d.ops[k].type \in RegOps /\ retreg(d.ops[k].reg)

\* The value okmod leaves in v->x30_guarded when it was g.
GuardAfter(d, g) == IF ModifiesX30(d) THEN SetsX30Guarded(d) ELSE g

-----------------------------------------------------------------------------
(* The checks. *)

IndirectBranches == {"BLR", "BR", "RET"}

RuntimeCall(d) == d.mnem = "BLR" /\ rtsysreg(d.ops[0].reg)

\* Mutant: direct branches need no guard.
chkbranch_direct(d, g) ==
    /\ d.mnem \in IndirectBranches /\ ~RuntimeCall(d) => cfreg(d.ops[0].reg) /\ g
    /\ d.mnem \notin {"RETAA", "RETAB"}

\* g is v->x30_guarded before the instruction.
chkbranch(d, g) ==
    /\ d.mnem \in IndirectBranches /\ ~RuntimeCall(d) => cfreg(d.ops[0].reg) /\ g
    /\ d.mnem \notin {"RETAA", "RETAB"}
    /\ d.group \in BranchGroups /\ d.mnem \notin IndirectBranches => g

chksys(d) ==
    /\ d.mnem = "MSR" => sysreg(d.ops[0].sysreg)
    /\ d.mnem = "MRS" => sysreg(d.ops[1].sysreg)
    /\ d.mnem = "SYS" => /\ d.ops[0].type = "SYSREG" /\ d.ops[0].sysreg = "dc_zva"
                         /\ d.ops[1].reg = REG_ADDR

okrtcallimm(imm) == SImm16(imm) \in {0, 8, 16, 24, -8, -16, -24, -32}

\* Mutant: a stores-only load with a register offset is checked like one with writeback.
okmemop_memreg(o, op, load) ==
    op.type = "MEMREG" => IF load /\ o.box = "STORES" THEN ~fixedreg(o, op.reg)
                          ELSE basereg(op.reg) /\ op.ext = "UXTW" /\ op.amt = 0

\* Mutant: a stores-only load may write back to the fixed registers too.
okmemop_anyback(o, op, load) ==
    IF load /\ o.box = "STORES" THEN op.type # "MEMREGPOST"
    ELSE CASE op.type \in {"MEMUOFF", "MEMSOFF"} ->
                (rtsysreg(op.reg) /\ okrtcallimm(op.imm)) \/ ldstreg(op.reg, TRUE)
           [] op.type \in {"MEMSOFFPRE", "MEMSOFFPOST"} -> ldstreg(op.reg, TRUE)
           [] op.type = "MEMREG" -> basereg(op.reg) /\ op.ext = "UXTW" /\ op.amt = 0
           [] OTHER -> op.type \notin {"MEMREGPOST", "MEMINC"}

okmemop(o, op, load) ==
    LET lax == load /\ o.box = "STORES"
    IN CASE op.type \in {"MEMUOFF", "MEMSOFF"} ->
              \/ lax
              \/ rtsysreg(op.reg) /\ okrtcallimm(op.imm)
              \/ IF ctxreg(o, op.reg) THEN op.imm = CTXREG_TP_OFFSET
                                      ELSE ldstreg(op.reg, TRUE)
         [] op.type \in {"MEMSOFFPRE", "MEMSOFFPOST"} ->
              IF lax THEN ~fixedreg(o, op.reg) ELSE ldstreg(op.reg, TRUE)
         [] op.type = "MEMREG" ->
              lax \/ (basereg(op.reg) /\ op.ext = "UXTW" /\ op.amt = 0)
         [] op.type = "MEMREGPOST" -> FALSE
         [] op.type = "MEMINC" -> lax /\ ~fixedreg(o, op.reg)
         [] OTHER -> TRUE

ok_ctxreg_ldst(d) == d.mnem \in {"LDR_IMM", "STR_IMM"}

chkmemops(o, d) ==
    \A k \in OpIndex :
        /\ okmemop(o, d.ops[k], isload(d))
        /\ d.ops[k].type \in {"MEMUOFF", "MEMSOFF"} /\ ctxreg(o, d.ops[k].reg)
               => ok_ctxreg_ldst(d)

okmod(o, d, op) ==
    op.type \in RegOps =>
        /\ ~fixedreg(o, op.reg)
        /\ \/ ~addrreg(op.reg, op.type = "REGSP")
           \/ retreg(op.reg)
           \/ /\ d.mnem = "ADD_EXT"
              /\ addrreg(d.ops[0].reg, TRUE) /\ d.ops[0].sf = 1 /\ RebasesW(d)

DistinctMods(d) == nmod(d) = {0, 1} => d.ops[0].reg # d.ops[1].reg

chkwriteback_none(d) == TRUE   \* Mutant: writeback over an operand goes unseen

chkwriteback(d) ==
    LET writeback == {k \in OpIndex : d.ops[k].type \in {"MEMSOFFPRE", "MEMSOFFPOST", "MEMREGPOST"}}
    IN  writeback # {} =>
          LET last == CHOOSE k \in writeback : \A j \in writeback : j <= k
          IN  \A k \in OpIndex : d.ops[k].type = "REGGP" /\ d.ops[k].reg # 31
                                     => d.ops[k].reg # d.ops[last].reg

\* All that vchk asks of an instruction whose mnemonic is allowed.
Checks(o, d, g) ==
    /\ chkbranch(d, g)
    /\ chksys(d)
    /\ chkmemops(o, d)
    /\ \A k \in nmod(d) : okmod(o, d, d.ops[k])
    /\ DistinctMods(d)
    /\ chkwriteback(d)

\* The conditions of the assert() calls on the way through the checks.
AssertsHold(d) ==
    /\ d.mnem \in IndirectBranches /\ ~RuntimeCall(d) => d.ops[0].type = "REGGP"
    /\ d.group = "BRANCHREG" => d.mnem \in IndirectBranches \cup {"RETAA", "RETAB"}
    /\ d.mnem = "MSR" => d.ops[0].type = "SYSREG"
    /\ d.mnem = "MRS" => d.ops[1].type = "SYSREG"
    /\ d.mnem = "SYS" /\ d.ops[0].type = "SYSREG" /\ d.ops[0].sysreg = "dc_zva"
           => d.ops[1].type = "REGGP"
=============================================================================
