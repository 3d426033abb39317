----------------------------- MODULE Arm64Words -----------------------------
(***************************************************************************)
(* Instruction words for the model-checking runs: the decoded form (the    *)
(* disarm library's, an external component) of the instructions of         *)
(* src/test/arm64/*.s, named by their assembly text, and a few that        *)
(* exercise the same checks from the other side.                           *)
(***************************************************************************)
EXTENDS Arm64Inst, Sequences, TLC

NoOp   == [type |-> "NONE", reg |-> 0, sf |-> 0, ext |-> "UXTX", amt |-> 0, imm |-> 0,
           sysreg |-> "none"]
Imm    == [NoOp EXCEPT !.type = "IMM"]
Vec    == [NoOp EXCEPT !.type = "VEC"]
Fp(r)  == [NoOp EXCEPT !.type = "REGFP", !.reg = r]
X(r)   == [NoOp EXCEPT !.type = "REGGP", !.reg = r, !.sf = 1]
W(r)   == [NoOp EXCEPT !.type = "REGGP", !.reg = r]
WInc(r) == [NoOp EXCEPT !.type = "REGGPINC", !.reg = r]
Sp(r)  == [NoOp EXCEPT !.type = "REGSP", !.reg = r, !.sf = 1]
Wsp(r) == [NoOp EXCEPT !.type = "REGSP", !.reg = r]
Ext(r, sf, ext, shift) ==
    [NoOp EXCEPT !.type = "REGGPEXT", !.reg = r, !.sf = sf, !.ext = ext, !.amt = shift]
Sys(s) == [NoOp EXCEPT !.type = "SYSREG", !.sysreg = s]
Mem(type, r, imm) ==      \* the immediate as the 16 bits that are stored
    [NoOp EXCEPT !.type = type, !.reg = r, !.imm = (65536 + imm) % 65536]
MemReg(r, ext, sc) == [NoOp EXCEPT !.type = "MEMREG", !.reg = r, !.ext = ext, !.amt = sc]
U(r, imm) == Mem("MEMUOFF", r, imm)
S(r, imm) == Mem("MEMSOFF", r, imm)
Pre(r, imm) == Mem("MEMSOFFPRE", r, imm)
Post(r, imm) == Mem("MEMSOFFPOST", r, imm)

I(mnem, group, ops) ==
    [mnem |-> mnem, group |-> group,
     ops |-> [k \in OpIndex |-> IF k < Len(ops) THEN ops[k + 1] ELSE NoOp]]

\* Control flow, and what it does to x30.
ControlWords ==
    "mov x30, x0"   :> I("ORR_REG", "LOGICAL", <<X(30), X(31), X(0)>>)
 @@ "mov x0, x0"    :> I("ORR_REG", "LOGICAL", <<X(0), X(31), X(0)>>)
 @@ "add x30, x27, w30, uxtw" :> I("ADD_EXT", "ADDSUB", <<Sp(30), Sp(27), Ext(30, 0, "UXTW", 0)>>)
 @@ "add x30, x27, w26, uxtw" :> I("ADD_EXT", "ADDSUB", <<Sp(30), Sp(27), Ext(26, 0, "UXTW", 0)>>)
 @@ "add x30, x27, x30" :> I("ADD_EXT", "ADDSUB", <<Sp(30), Sp(27), Ext(30, 1, "UXTX", 0)>>)
 @@ "ldr x30, [sp]"     :> I("LDR_IMM", "LDST", <<X(30), U(31, 0)>>)
 @@ "ldr x30, [x27, #8]" :> I("LDR_IMM", "LDST", <<X(30), U(27, 8)>>)
 @@ "ldr x30, [x27, #4]" :> I("LDR_IMM", "LDST", <<X(30), U(27, 4)>>)
 @@ "ldr x30, [x27, #6]" :> I("LDR_IMM", "LDST", <<X(30), U(27, 6)>>)
 @@ "ldr x30, [x27, #16]" :> I("LDR_IMM", "LDST", <<X(30), U(27, 16)>>)
 @@ "ldr x30, [x27, #264]" :> I("LDR_IMM", "LDST", <<X(30), U(27, 264)>>)
 @@ "ldur x30, [x27, #-8]" :> I("LDURX", "LDST", <<X(30), S(27, -8)>>)
 @@ "ldur x30, [x27, #-32]" :> I("LDURX", "LDST", <<X(30), S(27, -32)>>)
 @@ "ldur x30, [x27, #32]" :> I("LDURX", "LDST", <<X(30), S(27, 32)>>)
 @@ "ldr xzr, [x30]" :> I("LDR_IMM", "LDST", <<X(31), U(30, 0)>>)
 @@ "ret"     :> I("RET", "BRANCHREG", <<X(30)>>)
 @@ "ret x0"  :> I("RET", "BRANCHREG", <<X(0)>>)
 @@ "retaa"   :> I("RETAA", "BRANCHREG", <<>>)
 @@ "retab"   :> I("RETAB", "BRANCHREG", <<>>)
 @@ "br x0"   :> I("BR", "BRANCHREG", <<X(0)>>)
 @@ "br x28"  :> I("BR", "BRANCHREG", <<X(28)>>)
 @@ "br x30"  :> I("BR", "BRANCHREG", <<X(30)>>)
 @@ "blr x27" :> I("BLR", "BRANCHREG", <<X(27)>>)
 @@ "blr x28" :> I("BLR", "BRANCHREG", <<X(28)>>)
 @@ "eret"    :> I("ERET", "BRANCHREG", <<>>)
 @@ "b foo"   :> I("B", "BRANCH", <<Imm>>)
 @@ "bl foo"  :> I("BL", "BRANCH", <<Imm>>)
 @@ "b.eq foo" :> I("BCOND", "BCOND", <<Imm>>)
 @@ "cbz x0, foo" :> I("CBZ", "BCOND", <<X(0), Imm>>)
 @@ "svc #0"  :> I("SVC", "EXCEPTION", <<Imm>>)
 @@ "brk #0x281a" :> I("BRK", "EXCEPTION", <<Imm>>)
 @@ "wfi"     :> I("HINT", "SYSTEM", <<Imm>>)
 @@ "undefined" :> I("UNKNOWN", "UNKNOWN", <<>>)
 @@ "nop"     :> I("HINT", "SYSTEM", <<Imm>>)
 @@ "yield"   :> I("HINT", "SYSTEM", <<Imm>>)
 @@ "autiasp" :> I("HINT", "SYSTEM", <<Imm>>)
 @@ "paciasp" :> I("HINT", "SYSTEM", <<Imm>>)

\* Moves into the reserved registers, and system registers.
RegisterWords ==
    "mov sp, x0"  :> I("ADD_IMM", "ADDSUB", <<Sp(31), Sp(0), Imm>>)
 @@ "mov x27, x0" :> I("ORR_REG", "LOGICAL", <<X(27), X(31), X(0)>>)
 @@ "mov x28, x0" :> I("ORR_REG", "LOGICAL", <<X(28), X(31), X(0)>>)
 @@ "mov x28, x30" :> I("ORR_REG", "LOGICAL", <<X(28), X(31), X(30)>>)
 @@ "mov x25, x0" :> I("ORR_REG", "LOGICAL", <<X(25), X(31), X(0)>>)
 @@ "add x27, sp, #0xc20" :> I("ADD_IMM", "ADDSUB", <<Sp(27), Sp(31), Imm>>)
 @@ "add x28, x27, w0, uxtw" :> I("ADD_EXT", "ADDSUB", <<Sp(28), Sp(27), Ext(0, 0, "UXTW", 0)>>)
 @@ "add x28, x27, w0, uxtw #1" :> I("ADD_EXT", "ADDSUB", <<Sp(28), Sp(27), Ext(0, 0, "UXTW", 1)>>)
 @@ "add x28, x27, w0, sxtw" :> I("ADD_EXT", "ADDSUB", <<Sp(28), Sp(27), Ext(0, 0, "SXTW", 0)>>)
 @@ "add sp, x27, w0, uxtw" :> I("ADD_EXT", "ADDSUB", <<Sp(31), Sp(27), Ext(0, 0, "UXTW", 0)>>)
 @@ "add w28, w27, w7, uxtw #0" :> I("ADD_EXT", "ADDSUB", <<Wsp(28), Wsp(27), Ext(7, 0, "UXTW", 0)>>)
 @@ "adr x28, foo" :> I("ADR", "PCREL", <<X(28), Imm>>)
 @@ "ands x16, x30, #imm" :> I("AND_IMM", "LOGICAL", <<X(16), X(30), Imm>>)
 @@ "movk x1, #0x9ec0, lsl #32" :> I("MOVK", "MOVEWIDE", <<X(1), Imm>>)
 @@ "extr x1, x8, x15, #0" :> I("EXTR", "EXTRACT", <<X(1), X(8), X(15), Imm>>)
 @@ "uaddl2 v12.4s, v2.8h, v19.8h" :> I("UADDL2", "SIMD", <<Vec, Vec, Vec>>)
 @@ "dc zva, x28" :> I("SYS", "SYSTEM", <<Sys("dc_zva"), X(28)>>)
 @@ "dc zva, x0"  :> I("SYS", "SYSTEM", <<Sys("dc_zva"), X(0)>>)
 @@ "dc cvau, x0" :> I("SYS", "SYSTEM", <<Sys("dc_cvau"), X(0)>>)
 @@ "msr s3_5_c12_c9_4, x28" :> I("MSR", "SYSTEM", <<Sys("other"), X(28)>>)
 @@ "msr tpidr_el0, x0" :> I("MSR", "SYSTEM", <<Sys("tpidr_el0"), X(0)>>)
 @@ "mrs x28, tpidr_el0" :> I("MRS", "SYSTEM", <<X(28), Sys("tpidr_el0")>>)
 @@ "mrs x0, tpidr_el0" :> I("MRS", "SYSTEM", <<X(0), Sys("tpidr_el0")>>)
 @@ "mrs x0, fpsr"  :> I("MRS", "SYSTEM", <<X(0), Sys("fpsr")>>)
 @@ "mrs x0, fpcr"  :> I("MRS", "SYSTEM", <<X(0), Sys("fpcr")>>)
 @@ "mrs x0, dczid_el0" :> I("MRS", "SYSTEM", <<X(0), Sys("dczid_el0")>>)
 @@ "mrs x0, id_aa64pfr0_el1" :> I("MRS", "SYSTEM", <<X(0), Sys("id_aa64pfr0_el1")>>)
 @@ "mrs x0, id_aa64pfr1_el1" :> I("MRS", "SYSTEM", <<X(0), Sys("id_aa64pfr1_el1")>>)
 @@ "mrs x0, id_aa64zfr0_el1" :> I("MRS", "SYSTEM", <<X(0), Sys("id_aa64zfr0_el1")>>)
 @@ "mrs x0, id_aa64isar0_el1" :> I("MRS", "SYSTEM", <<X(0), Sys("id_aa64isar0_el1")>>)
 @@ "mrs x0, id_aa64isar1_el1" :> I("MRS", "SYSTEM", <<X(0), Sys("id_aa64isar1_el1")>>)

\* Loads and stores.
MemoryWords ==
    "ldr x0, [x0]"  :> I("LDR_IMM", "LDST", <<X(0), U(0, 0)>>)
 @@ "ldr x0, [x1]"  :> I("LDR_IMM", "LDST", <<X(0), U(1, 0)>>)
 @@ "str x0, [x1]"  :> I("STR_IMM", "LDST", <<X(0), U(1, 0)>>)
 @@ "ldr x0, [sp]"  :> I("LDR_IMM", "LDST", <<X(0), U(31, 0)>>)
 @@ "ldr x0, [x28]" :> I("LDR_IMM", "LDST", <<X(0), U(28, 0)>>)
 @@ "ldr x0, [x28, #4096]" :> I("LDR_IMM", "LDST", <<X(0), U(28, 4096)>>)
 @@ "str x0, [x28, #4096]" :> I("STR_IMM", "LDST", <<X(0), U(28, 4096)>>)
 @@ "str w28, [x28]" :> I("STRW_IMM", "LDST", <<W(28), U(28, 0)>>)
 @@ "str q0, [x28, #55696]" :> I("STR_IMM_FP", "LDST", <<Fp(0), U(28, 55696)>>)
 @@ "ldr x0, [sp], #16"  :> I("LDRX_POST", "LDST", <<X(0), Post(31, 16)>>)
 @@ "ldr x0, [sp, 16]!"  :> I("LDRX_PRE", "LDST", <<X(0), Pre(31, 16)>>)
 @@ "ldr x0, [x0], #16"  :> I("LDRX_POST", "LDST", <<X(0), Post(0, 16)>>)
 @@ "ldr x0, [x1], #16"  :> I("LDRX_POST", "LDST", <<X(0), Post(1, 16)>>)
 @@ "ldr x0, [x27], #16" :> I("LDRX_POST", "LDST", <<X(0), Post(27, 16)>>)
 @@ "ldr x0, [x27, 16]!" :> I("LDRX_PRE", "LDST", <<X(0), Pre(27, 16)>>)
 @@ "ldr x0, [x27, w0, uxtw]" :> I("LDR_REG", "LDST", <<X(0), MemReg(27, "UXTW", 0)>>)
 @@ "str x0, [x27, w0, uxtw #3]" :> I("STR_REG", "LDST", <<X(0), MemReg(27, "UXTW", 1)>>)
 @@ "str x0, [x1, x2]" :> I("STR_REG", "LDST", <<X(0), MemReg(1, "UXTX", 0)>>)
 @@ "ldr x0, #0" :> I("LDR_LIT", "LDST", <<X(0), Imm>>)
 @@ "stp x29, x30, [sp], #16" :> I("STPX_POST", "LDST", <<X(29), X(30), Post(31, 16)>>)
 @@ "stp xzr, xzr, [sp, #-0x10]!" :> I("STPX_PRE", "LDST", <<X(31), X(31), Pre(31, -16)>>)
 @@ "stp s24, s9, [sp], #-0x10" :> I("STP_FP_POST", "LDST", <<Fp(24), Fp(9), Post(31, -16)>>)
 @@ "stp w11, w28, [x28], #-0x28" :> I("STPW_POST", "LDST", <<W(11), W(28), Post(28, -40)>>)
 @@ "ldp w11, w28, [x28], #-0x28" :> I("LDPW_POST", "LDST", <<W(11), W(28), Post(28, -40)>>)
 @@ "ldp x0, x28, [x28]" :> I("LDPX", "LDST", <<X(0), X(28), U(28, 0)>>)
 @@ "ldp x0, x0, [x28]" :> I("LDPX", "LDST", <<X(0), X(0), S(28, 0)>>)
 @@ "ldp x0, x30, [sp]" :> I("LDPX", "LDST", <<X(0), X(30), S(31, 0)>>)
 @@ "ld4 {v29.2s - v0.2s}, [x28]" :> I("LD4", "SIMDLDST", <<Vec, U(28, 0)>>)
 @@ "ld4 {v29.2s - v0.2s}, [x0]"  :> I("LD4", "SIMDLDST", <<Vec, U(0, 0)>>)
 @@ "ld1 {v0.8b}, [x28], x1" :> I("LD1_1_POST", "SIMDLDST", <<Vec, Mem("MEMREGPOST", 28, 0)>>)
 @@ "ld1 {v0.8b}, [x1], #8" :> I("LD1_1_POST", "SIMDLDST", <<Vec, Mem("MEMINC", 1, 8)>>)
 @@ "ldxp x0, x28, [sp]" :> I("LDXPX", "LDSTX", <<X(0), X(28), U(31, 0)>>)
 @@ "swpal w0, w0, [x28]" :> I("SWPAL", "SWP", <<W(0), W(0), U(28, 0)>>)
 @@ "swplb w26, w27, [x28]" :> I("SWPLB", "SWP", <<W(26), W(27), U(28, 0)>>)
 @@ "swpal x20, x27, [x28]" :> I("SWPAL", "SWP", <<X(20), X(27), U(28, 0)>>)
 @@ "ldadd w0, w0, [x28]" :> I("LDADDW", "LDATOMIC", <<W(0), W(0), U(28, 0)>>)
 @@ "ldadd x20, x27, [x28]" :> I("LDADDX", "LDATOMIC", <<X(20), X(27), U(28, 0)>>)
 @@ "caspl x26, x27, x0, x1, [x27]" :>
      I("CASPAL", "CASP", <<X(26), WInc(27), X(0), WInc(1), U(27, 0)>>)
 @@ "str q0, [x27, #65520]" :> I("STR_IMM_FP", "LDST", <<Fp(0), U(27, 65520)>>)
 @@ "str x0, [x27, #8]" :> I("STR_IMM", "LDST", <<X(0), U(27, 8)>>)
 @@ "swpal w0, w1, [x2]" :> I("SWPAL", "SWP", <<W(0), W(1), U(2, 0)>>)
 @@ "ldr x0, [x30], #16" :> I("LDRX_POST", "LDST", <<X(0), Post(30, 16)>>)
 @@ "ldr x0, [x28], #16" :> I("LDRX_POST", "LDST", <<X(0), Post(28, 16)>>)
 @@ "ldr x0, [x25], #16" :> I("LDRX_POST", "LDST", <<X(0), Post(25, 16)>>)
 @@ "str w0, [x25, #16]"  :> I("STRW_IMM", "LDST", <<W(0), U(25, 16)>>)
 @@ "ldr x0, [x25]"       :> I("LDR_IMM", "LDST", <<X(0), U(25, 0)>>)
 @@ "ldr x0, [x25, #8]"   :> I("LDR_IMM", "LDST", <<X(0), U(25, 8)>>)
 @@ "ldr x0, [x25, #16]"  :> I("LDR_IMM", "LDST", <<X(0), U(25, 16)>>)
 @@ "str x0, [x25, #16]"  :> I("STR_IMM", "LDST", <<X(0), U(25, 16)>>)
 @@ "str x1, [x25, #16]"  :> I("STR_IMM", "LDST", <<X(1), U(25, 16)>>)
 @@ "ldr w0, [x25]"       :> I("LDRW_IMM", "LDST", <<W(0), U(25, 0)>>)
 @@ "ldur x0, [x25, #16]" :> I("LDURX", "LDST", <<X(0), S(25, 16)>>)

AllWords == ControlWords @@ RegisterWords @@ MemoryWords
=============================================================================
