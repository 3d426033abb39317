------------------------------- MODULE X64Inst -------------------------------
(***************************************************************************)
(* The checks the x64 verifier makes of one instruction                    *)
(* (src/src/x64/verify.c), as operators over the decoded instruction.      *)
(*                                                                         *)
(* A decoded instruction d stands for FdInstr of the fadec library; one    *)
(* of type "INVALID" stands for bytes fd_decode rejects.  Operators keep   *)
(* the names of the C functions; a check that reports with verr() is TRUE  *)
(* here when it reports nothing.  o stands for struct LFIVOptions.         *)
(***************************************************************************)
EXTENDS Integers

CONSTANTS BundleSize,         \* v->bundlesize, 32 in the code
          CTXREG_TP_OFFSET    \* the one offset the context register may be used at

ASSUME BundleAssumption == BundleSize \in Nat \ {0}

ASSUME OffsetAssumption == CTXREG_TP_OFFSET \in Nat

-----------------------------------------------------------------------------
(* The data of a decoded instruction. *)

OpIndex == 0..3

Reg == 0..63   \* FdReg; the encodings of the registers the checks name:
SP == 4
SI == 6
DI == 7
R11 == 11
R14 == 14
R15 == 15
IP == 16
NoReg == 63    \* FD_REG_NONE

Op == [t : {"NONE", "REG", "MEM", "IMM", "OFF"},
       rt : {"GPL", "GPH", "VEC", "FPU", "SEG", "OTHER"},   \* FD_OP_REG_TYPE
       reg : Reg,       \* of a register operand, or the base of a memory operand
       size : 0..64,    \* FD_OP_SIZE
       val : Int,       \* the immediate, the offset or the displacement
       index : Reg, scale : 0..3]

Inst == [type : STRING, size : 1..15, seg : {"NONE", "FS", "GS"}, addrsize : {4, 8},
         ops : [OpIndex -> Op]]

Options == [box : {"FULL", "STORES"}, no_bdd : BOOLEAN, ctxreg : BOOLEAN, err : BOOLEAN]

IsReg(d, k, reg, size) == d.ops[k].t = "REG" /\ d.ops[k].reg = reg /\ d.ops[k].size = size

-----------------------------------------------------------------------------
(* The mnemonic tables; base.instrs is represented by a few mnemonics of   *)
(* every kind the checks, or the CPU, tell apart.                          *)

CondBranches == {"JA", "JBE", "JC", "JCXZ", "JG", "JGE", "JL", "JLE", "JNC", "JNO", "JNP",
                 "JNS", "JNZ", "JO", "JP", "JS", "JZ"}

Branches == CondBranches \cup {"JMP", "CALL", "RET"}

\* CMPccXADD: compare, add and exchange; registers are operands 1 and 2.
CmpXadds == {"CMPBEXADD", "CMPBXADD", "CMPLEXADD", "CMPLXADD", "CMPNBEXADD", "CMPNBXADD",
             "CMPNLEXADD", "CMPNLXADD", "CMPNOXADD", "CMPNPXADD", "CMPNSXADD", "CMPNZXADD",
             "CMPOXADD", "CMPPXADD", "CMPSXADD", "CMPZXADD"}

\* The bit tests: operand 1 selects a bit of operand 0.
BitTests == {"BT", "BTC", "BTR", "BTS"}

\* Mutant: string instructions are let through outside their macro-instruction.
okmnem_strings(d) == d.type \in
    CondBranches \cup CmpXadds \cup BitTests \cup
    {"JMP", "CALL", "ADD", "MOV", "LEA", "NOP", "STOS", "MOVS", "CMPS"}

okmnem(d) == d.type \in
    CondBranches \cup CmpXadds \cup BitTests \cup
    {"JMP", "CALL", "ADD", "SUB", "AND", "OR", "XOR", "CMP", "TEST", "MOV", "LEA", "NOP",
     "XCHG", "MULX", "XADD", "PUSH", "POP", "HLT", "INT3", "UD2", "CLD", "STD", "PAUSE",
     "SSE_MOVAPS"}

\* How many of the first operands an instruction modifies.
nmod(d) == CASE d.type \in {"CMP", "TEST"} -> 0
             [] d.type \in {"XCHG", "MULX", "XADD"} -> 2
             [] OTHER -> 1

-----------------------------------------------------------------------------
(* The checks. *)

\* Whether register operand k is one the instruction must not name, or must not write.
reserved(o, d, k) ==
    /\ d.ops[k].rt \notin {"VEC", "FPU"}
    /\ \/ d.ops[k].rt \notin {"GPL", "GPH"}
       \/ /\ d.ops[k].reg \in {R14, SP} \/ (o.ctxreg /\ d.ops[k].reg = R15)
          /\ k < nmod(d)

\* Addresses are kept as integers: BundleSize divides the span of uintptr_t, so
\* wrapping changes no remainder.
Target(d, addr) == addr + d.size + d.ops[0].val

Direct(d) == d.type \in Branches /\ d.ops[0].t = "OFF"

\* Mutant: the alignment of what a conditional branch goes to is not checked.
chkbranch_anytarget(d, addr) ==
    d.type \in Branches => d.ops[0].t = "OFF" /\
                           (d.type \in CondBranches \/ Target(d, addr) % BundleSize = 0)

chkbranch(d, addr) ==
    d.type \in Branches => d.ops[0].t = "OFF" /\ Target(d, addr) % BundleSize = 0

\* One memory operand that is subject to the checks.
okmem(o, d, k) ==
    LET op == d.ops[k] IN
    CASE d.seg = "GS" -> d.addrsize = 4
      [] d.seg = "FS" -> FALSE
      [] OTHER ->
           /\ d.addrsize = 8
           /\ op.index = NoReg
           /\ IF o.ctxreg /\ op.reg = R15
              THEN d.type = "MOV" /\ op.size = 8 /\ op.val = CTXREG_TP_OFFSET
              ELSE op.reg \in {SP, IP, R14}

\* In the stores-only sandbox an operand that is only read may be anywhere.
chkmem(o, d) ==
    d.type \notin {"LEA", "NOP"} =>
      \A k \in OpIndex :
        d.ops[k].t = "MEM" /\ ~(o.box = "STORES" /\ k >= nmod(d)) => okmem(o, d, k)

\* Mutant: only the first operand is looked at.
chkmod_first(o, d) == d.type # "NOP" /\ d.ops[0].t = "REG" => ~reserved(o, d, 0)

chkmod(o, d) ==
    d.type # "NOP" => \A k \in OpIndex : d.ops[k].t = "REG" => ~reserved(o, d, k)

\* All that vchkbundle asks of an instruction that starts no macro-instruction.
Checks(o, d, addr) == okmnem(d) /\ chkbranch(d, addr) /\ chkmem(o, d) /\ chkmod(o, d)
=============================================================================
