------------------------------- MODULE X64Exec -------------------------------
(***************************************************************************)
(* What the x64 verifier is for: a CPU executing, one instruction at a     *)
(* time, the code lfiv_verify_x64 has just passed.  The CPU, the runtime   *)
(* and the rest of the sandbox are external; they are modelled from what   *)
(* src/src/x64/verify.c and macroinst.c take them to do, but for what an   *)
(* instruction writes and where it reaches: that is what the instruction   *)
(* set says, nothing of the verifier.  Macro-instructions are nothing to   *)
(* the CPU: it runs their parts one after the other.                       *)
(*                                                                         *)
(* Execution ends here with the first access or transfer out of the        *)
(* sandbox: what happens once one has been made is not modelled.           *)
(*                                                                         *)
(* A register is known by the class of its value:                          *)
(*   "base"    the sandbox base;         "box"     an address in it;       *)
(*   "low"     32 bits, zero-extended;   "masked"  low, at a bundle start; *)
(*   "target"  an address in it, at a bundle start;                        *)
(*   "link"    the address of the code at offset link;                     *)
(*   "ctx"     the context;              "any"     anything else.          *)
(***************************************************************************)
EXTENDS X64Verifier

VARIABLES
    where,   \* who executes: "box"; "runtime", called from the code; "away", which is
             \* the runtime or other verified code; or "outside" all this
    at,      \* the offset of the instruction executed next
    regs,    \* the classes of the general registers
    link     \* the offset of the code a register of class "link" points to

execvars == <<where, at, regs, link>>

GPR == 0..15

\* What fadec promises of the operands of an instruction.  Bytes 8 to 15 of the first four
\* registers are operands of their own; the instructions the macro-instructions are made of
\* take general registers, and no more operands than their assembly shows.
Decoded(d) ==
    /\ \A k \in OpIndex : d.ops[k].t = "REG" =>
         /\ d.ops[k].rt = "GPL" => d.ops[k].reg \in GPR
         /\ d.ops[k].rt = "GPH" => d.ops[k].reg \in 4..7 /\ d.ops[k].size = 1
    /\ d.type \in {"MOV", "ADD", "OR", "SUB", "AND", "LEA", "JMP", "CALL"} =>
         /\ \A k \in OpIndex : d.ops[k].t = "REG" => d.ops[k].rt \in {"GPL", "GPH"}
         /\ d.ops[2].t = "NONE" /\ d.ops[3].t = "NONE"
    /\ d.type \in {"JMP", "CALL"} => d.ops[1].t = "NONE"
    /\ d.type \in CmpXadds => d.ops[1].t = "REG"
    /\ d.type \in {"STOS", "MOVS", "CMPS"} => \A k \in OpIndex : d.ops[k].t = "NONE"

ASSUME DecoderAssumption ==
    \A c \in Calls : \A p \in 0..(c.code.n - 1) : Decoded(c.code.fd[p])

\* The code is loaded where a bundle starts.
ASSUME LoadAssumption == \A c \in Calls : c.base % BundleSize = 0

Class == {"base", "box", "low", "masked", "target", "link", "ctx", "any"}

\* The registers as the runtime, and code like this code, leave them on arrival.
Arrival == [r \in GPR |-> CASE r = R14 -> "base"
                            [] r = SP -> "box"
                            [] r = R15 /\ opts.ctxreg -> "ctx"
                            [] OTHER -> "any"]

ExecInit == Init /\ where = "away" /\ at = 0 /\ regs = Arrival /\ link = 0

-----------------------------------------------------------------------------
(* What an instruction computes. *)

RegName(op) == IF op.rt = "GPH" THEN op.reg - 4 ELSE op.reg

\* The operands an instruction writes.  A CMPccXADD leaves in operand 1 what it has read.
Writes(d) == IF d.type \in Branches \cup {"NOP", "CMP", "TEST", "BT", "PUSH"} THEN {}
             ELSE {0} \cup IF d.type \in {"XCHG", "MULX", "XADD"} \cup CmpXadds THEN {1} ELSE {}

Written(d) == {k \in Writes(d) : d.ops[k].t = "REG" /\ d.ops[k].rt \in {"GPL", "GPH"}}

\* Registers that point into the sandbox.
InBox == {"box", "target"}

\* The class of a 32-bit address added to the base.
Rebased(class) == CASE class = "masked" -> "target" [] class = "low" -> "box" [] OTHER -> "any"

IsBase(reg) == reg = R14 /\ regs[R14] = "base"

\* The class of the 64-bit sum of registers a and b.
Sum(a, b) == IF IsBase(a) THEN Rebased(regs[b]) ELSE IF IsBase(b) THEN Rebased(regs[a]) ELSE "any"

LeaResult(mem) ==
    IF mem.reg = IP THEN "link"
    ELSE IF mem.reg \in GPR /\ mem.index \in GPR /\ mem.scale = 0 /\ mem.val = 0
    THEN Sum(mem.reg, mem.index) ELSE "any"

Result(d, k) ==
    IF d.ops[k].size = 4
      THEN IF k = 0 /\ d.type = "AND" /\ d.ops[1].t = "IMM" /\ d.ops[1].val = BundleMask
           THEN "masked" ELSE "low"
    ELSE IF k = 0 /\ d.ops[0].size = 8 /\ d.type \in {"ADD", "OR"}
              /\ d.ops[1].t = "REG" /\ d.ops[1].size = 8
      THEN Sum(d.ops[0].reg, d.ops[1].reg)
    ELSE IF k = 0 /\ d.ops[0].size = 8 /\ d.type = "LEA"
      THEN IF d.addrsize = 8 THEN LeaResult(d.ops[1]) ELSE "low"
    ELSE "any"

Effect(d) ==
    [r \in GPR |-> LET writes == {k \in Written(d) : RegName(d.ops[k]) = r}
                   IN  IF writes = {} THEN regs[r] ELSE Result(d, CHOOSE k \in writes : TRUE)]

-----------------------------------------------------------------------------
(* Where an instruction reaches. *)

\* Instructions that leave the sandbox whatever their operands are.
Escapes(d) == d.type \in {"INVALID", "SYSCALL", "WRGSBASE", "WRFSBASE", "LDMXCSR", "FXRSTOR",
                          "MOV_G2S"}

\* Displacements and what sp is moved by stay within the guard pages.
AddressInside(d, mem) ==
    IF d.seg = "GS" THEN d.addrsize = 4
    ELSE /\ d.seg = "NONE" /\ d.addrsize = 8
         /\ \/ mem.reg = IP
            \/ mem.reg = SP /\ regs[SP] \in InBox /\ mem.index = NoReg
            \/ mem.reg = R15 /\ regs[R15] = "ctx" /\ mem.index = NoReg
            \/ IsBase(mem.reg) /\ mem.index = NoReg
            \/ IsBase(mem.reg) /\ mem.scale = 0 /\ mem.index \in GPR
                 /\ regs[mem.index] \in {"low", "masked"}

\* A bit test with its bit in a register, which may be far from the operand it names.
BitString(d) == d.type \in BitTests /\ d.ops[0].t = "MEM" /\ d.ops[1].t = "REG"

\* In the stores-only sandbox reads may go anywhere.
AccessesInside(d) ==
    /\ d.type \notin {"LEA", "NOP"} =>
         \A k \in OpIndex : d.ops[k].t = "MEM" =>
             \/ opts.box = "STORES" /\ k \notin Writes(d)
             \/ ~BitString(d) /\ AddressInside(d, d.ops[k])
    /\ d.type \in {"STOS", "MOVS", "CMPS"} =>
         d.seg = "NONE" /\ d.addrsize = 8 /\ regs[DI] \in InBox
    /\ d.type \in {"MOVS", "CMPS"} => regs[SI] \in InBox
    /\ d.type \in {"PUSH", "POP", "CALL"} => regs[SP] \in InBox

-----------------------------------------------------------------------------
(* Execution. *)

BundleStarts == {p \in Offset : (base + p) % BundleSize = 0}

\* Control arrives at offset p.  Other code is verified on its own and may be entered, like
\* this code, at the start of a bundle; what directly follows this code also from its end.
GoTo(p) == IF p \in Offset THEN where' = "box" /\ at' = p
           ELSE /\ where' = IF p = code.n \/ (base + p) % BundleSize = 0 THEN "away" ELSE "outside"
                /\ at' = at

GoAnywhereMasked ==
    \/ where' = "box" /\ at' \in BundleStarts
    \/ where' = "away" /\ at' = at

Leave(to) == where' = to /\ at' = at

Falls(d) == GoTo(at + d.size)

Verify == Next /\ UNCHANGED execvars

\* Mutant: the loader does not wait for the answer.
Enter_unverified ==
    /\ where = "away" /\ BundleStarts # {}
    /\ where' = "box" /\ at' \in BundleStarts /\ regs' = Arrival
    /\ UNCHANGED <<vars, link>>

Enter ==
    /\ pc = "pass" /\ where = "away" /\ BundleStarts # {}
    /\ where' = "box" /\ at' \in BundleStarts /\ regs' = Arrival
    /\ UNCHANGED <<vars, link>>

\* The runtime returns through r11.
Return ==
    /\ where = "runtime"
    /\ IF regs[R11] = "link" THEN GoTo(link) ELSE Leave("outside")
    /\ regs' = Arrival
    /\ UNCHANGED <<vars, link>>

inst == code.fd[at]
Executes == where = "box" /\ UNCHANGED vars
Runs == Executes /\ ~Escapes(inst) /\ AccessesInside(inst)

ExecPlain ==
    /\ Runs /\ inst.type \notin Branches
    /\ regs' = Effect(inst)
    /\ link' = IF inst.type = "LEA" /\ inst.ops[1].reg = IP
               THEN at + inst.size + inst.ops[1].val ELSE link
    /\ Falls(inst)

ExecDirect ==
    /\ Runs /\ Direct(inst)
    /\ GoTo(Target(inst, base + at) - base) /\ UNCHANGED <<regs, link>>

ExecNotTaken ==
    /\ Runs /\ inst.type \in CondBranches
    /\ Falls(inst) /\ UNCHANGED <<regs, link>>

\* Through a register, or through the entries of the runtime around the base.
ExecIndirect ==
    /\ Runs /\ inst.type \in {"JMP", "CALL"} /\ inst.ops[0].t \in {"REG", "MEM"}
    /\ IF inst.ops[0].t = "REG"
       THEN IF regs[inst.ops[0].reg] = "target" THEN GoAnywhereMasked ELSE Leave("outside")
       ELSE Leave(IF /\ inst.seg = "NONE" /\ inst.addrsize = 8
                     /\ IsBase(inst.ops[0].reg) /\ inst.ops[0].index = NoReg
                     /\ inst.ops[0].val \in {8 * n : n \in (-4)..3}
                  THEN "runtime" ELSE "outside")
    /\ UNCHANGED <<regs, link>>

\* There is no step for what is Outside: StaysInside says it is not reached.
Outside == where = "outside" \/ (where = "box" /\ (Escapes(inst) \/ ~AccessesInside(inst)))

ExecNext == Verify \/ Enter \/ Return \/ ExecPlain \/ ExecDirect \/ ExecNotTaken \/ ExecIndirect

ExecSpec == ExecInit /\ [][ExecNext]_<<vars, execvars>>

-----------------------------------------------------------------------------
(* What the verifier leaves open, and properties may assume of the code. *)

\* The registers that are not to be changed: rsp, r14 and the context register in use.
Kept == {SP, R14} \cup IF opts.ctxreg THEN {R15} ELSE {}

\* No unit writes one of them in an operand that nmod() does not count.
WritesCounted ==
    \A p \in starts : LET d == fd_decode(code, p) IN
      \A k \in Written(d) : k >= nmod(d) => RegName(d.ops[k]) \notin Kept

\* No unit accesses memory through a bit index in a register.
NoBitStrings == \A p \in starts : ~BitString(fd_decode(code, p))

HasAddress(d) == /\ d.type # "NOP"
                 /\ d.type \in {"STOS", "MOVS", "CMPS"} \/ \E k \in OpIndex : d.ops[k].t = "MEM"

\* Part d of a macro-instruction is as the comments of macroinst.c write it, in what the
\* recognisers do not look at: where it has an address, prefixes that change the segment or
\* the address size, and the size of what a lea loads; and that what moves esp is not memory.
WrittenOut(d) ==
    HasAddress(d) =>
      IF IsReg(d, 0, SP, 4) THEN d.type = "LEA"
      ELSE d.seg = "NONE" /\ d.addrsize = 8 /\ (d.type = "LEA" => d.ops[0].size = 8)

AsWritten ==
    \A p \in starts : IsMacro(opts, code, p, base + p) =>
      \A q \in InstStarts(code, p, p + Unit(opts, code, p, base + p).size) :
        WrittenOut(fd_decode(code, q))

-----------------------------------------------------------------------------
(* Properties. *)

\* The variables have their types; nothing executes before the verifier's answer.
ExecTypeOK ==
    /\ where \in {"box", "runtime", "away", "outside"}
    /\ at \in 0..code.n
    /\ where = "box" => at \in Offset /\ pc = "pass"
    /\ regs \in [GPR -> Class] /\ link \in Int

\* The CPU executes the instructions the verifier has looked at and nothing else: over every
\* path, bundle starts, targets and return addresses included, control is at an instruction
\* of a unit, never between the bytes of one.
OnlyChecked ==
    where = "box" => \E p \in starts :
        at \in InstStarts(code, p, p + Unit(opts, code, p, base + p).size)

\* No system call and no other instruction that leaves the sandbox whatever its operands are
\* is ever executed, not even one that is hidden among the bytes of instructions that passed.
NeverEscapes == where = "box" => ~Escapes(inst)

\* Code that lfiv_verify_x64 passed never transfers control or makes an access outside the
\* sandbox, over every path the program may take.  The code does not guarantee it: chkmem
\* takes the operand of a bit test for the address that is accessed.
StaysInside == ~Outside

\* r14 always holds the base, and the context register in use the context: what reserved()
\* is for.  The code does not guarantee it: nmod() counts one operand of a CMPccXADD.
BaseKept ==
    where = "box" => regs[R14] = "base" /\ (opts.ctxreg => regs[R15] = "ctx")

\* rsp is an address of the sandbox at every boundary between units: the first half of a
\* pair may truncate it only because control cannot get between the halves.  The code does
\* not guarantee it: macroinst_modsp does not look at the prefixes of the lea that restores it.
StackKept == where = "box" /\ at \in starts => regs[SP] \in InBox

\* Code of which nmod() counts what it writes keeps the base and the context: chkmod and the
\* recognisers leave no other way to change them, over every path.
BaseKeptIfCounted == WritesCounted => BaseKept

\* If also the macro-instructions are as they are written, rsp is an address of the sandbox
\* at every boundary between units.
StackKeptIfWritten == WritesCounted /\ AsWritten => StackKept

\* If also there is no bit string, no access and no transfer leaves the sandbox: chkbranch,
\* chkmem, chkmod, the recognisers and the bundle discipline leave these three ways out only.
InsideIfWritten == WritesCounted /\ NoBitStrings /\ AsWritten => StaysInside
=============================================================================
