------------------------------ MODULE X64Macro ------------------------------
(***************************************************************************)
(* The macro-instructions of the x64 verifier (src/src/x64/macroinst.c):   *)
(* groups of instructions that are legal only together and are consumed    *)
(* as one unit.                                                            *)
(*                                                                         *)
(* code.fd[p] is what fd_decode makes of the bytes from offset p of the    *)
(* code up to its end.  A recogniser looks at offset p, of address addr,   *)
(* and returns the size of the group and the number of instructions in it, *)
(* or NoMacro.                                                             *)
(***************************************************************************)
EXTENDS X64Inst

NoMacro == [size |-> -1, ninstr |-> 0]

NoOp == [t |-> "NONE", rt |-> "OTHER", reg |-> NoReg, size |-> 0, val |-> 0,
         index |-> NoReg, scale |-> 0]

Undecodable == [type |-> "INVALID", size |-> 1, seg |-> "NONE", addrsize |-> 8,
                ops |-> [k \in OpIndex |-> NoOp]]

\* fd_decode at offset p; there is nothing to decode at the end of the code.
fd_decode(code, p) == IF p < code.n THEN code.fd[p] ELSE Undecodable

\* The offsets of the instructions that follow the one at p.
Second(code, p) == p + fd_decode(code, p).size
Third(code, p)  == Second(code, Second(code, p))
Fourth(code, p) == Second(code, Third(code, p))
Fifth(code, p)  == Second(code, Fourth(code, p))

-----------------------------------------------------------------------------
(* Shapes the recognisers share. *)

mask_add(d) == d.type \in {"ADD", "OR"}

\* 0xffffffffffffffe0: clears the offset within a bundle.
BundleMask == -BundleSize

\* andl $mask, %eX
MasksReg(o, d) ==
    /\ d.type = "AND" /\ d.ops[0].t = "REG" /\ d.ops[0].size = 4 /\ ~reserved(o, d, 0)
    /\ d.ops[1].t = "IMM" /\ d.ops[1].val = BundleMask

\* addq %r14, %rX or orq %r14, %rX
AddsBase(d, reg) == mask_add(d) /\ IsReg(d, 0, reg, 8) /\ IsReg(d, 1, R14, 8)

\* movl %eX, %eX
Truncates(d, reg) == d.type = "MOV" /\ IsReg(d, 0, reg, 4) /\ IsReg(d, 1, reg, 4)

\* leaq (%r14, %rX), %rX
LeasBase(d, reg) ==
    /\ d.type = "LEA" /\ IsReg(d, 0, reg, 8)
    /\ d.ops[1].t = "MEM" /\ d.ops[1].reg = R14 /\ d.ops[1].index = reg
    /\ d.ops[1].val = 0 /\ d.ops[1].scale = 0

\* The pair that rebases %rX at offset p.
Rebases(code, p, reg) ==
    Truncates(fd_decode(code, p), reg) /\ LeasBase(fd_decode(code, Second(code, p)), reg)

-----------------------------------------------------------------------------
(* The recognisers. *)

macroinst_stos(code, p) ==
    IF Rebases(code, p, DI) /\ fd_decode(code, Third(code, p)).type = "STOS"
    THEN [size |-> Fourth(code, p) - p, ninstr |-> 3] ELSE NoMacro

\* movs and cmps: both pointers are rebased, then the string instruction.
TwoPointers(code, p, type) ==
    IF /\ Rebases(code, p, DI) /\ Rebases(code, Third(code, p), SI)
       /\ fd_decode(code, Fifth(code, p)).type = type
    THEN [size |-> Second(code, Fifth(code, p)) - p, ninstr |-> 5] ELSE NoMacro

macroinst_movs(code, p) == TwoPointers(code, p, "MOVS")
macroinst_cmps(code, p) == TwoPointers(code, p, "CMPS")

\* Mutant: the register that is masked need not be the one jumped through.
macroinst_jmp_anyreg(o, code, p) ==
    LET and == fd_decode(code, p)
        jmp == fd_decode(code, Third(code, p))
    IN  IF /\ MasksReg(o, and) /\ AddsBase(fd_decode(code, Second(code, p)), and.ops[0].reg)
           /\ jmp.type = "JMP" /\ jmp.ops[0].t = "REG"
        THEN [size |-> Fourth(code, p) - p, ninstr |-> 3] ELSE NoMacro

macroinst_jmp(o, code, p) ==
    LET and == fd_decode(code, p)
        jmp == fd_decode(code, Third(code, p))
    IN  IF /\ MasksReg(o, and) /\ AddsBase(fd_decode(code, Second(code, p)), and.ops[0].reg)
           /\ jmp.type = "JMP" /\ jmp.ops[0].t = "REG" /\ jmp.ops[0].reg = and.ops[0].reg
        THEN [size |-> Fourth(code, p) - p, ninstr |-> 3] ELSE NoMacro

\* The loop over the nops of macroinst_call, from count bytes after p: where it stops, how
\* many instructions it decoded and the last of them.
PastNops(code, p, start) ==
    LET from[count \in Nat] ==
          LET d == fd_decode(code, p + count) IN
          IF count >= BundleSize \/ d.type = "INVALID"
            THEN [count |-> count, icount |-> 0, last |-> Undecodable]
          ELSE IF d.type = "NOP"
            THEN [from[count + d.size] EXCEPT !.icount = @ + 1]
          ELSE [count |-> count + d.size, icount |-> 1, last |-> d]
    IN from[start]

\* Mutant: the nops are left out of the count of instructions.
macroinst_call_uncounted(o, code, p, addr) ==
    LET and == fd_decode(code, p)
        end == PastNops(code, p, Third(code, p) - p)
    IN  IF /\ MasksReg(o, and) /\ AddsBase(fd_decode(code, Second(code, p)), and.ops[0].reg)
           /\ (addr + end.count) % BundleSize = 0
           /\ end.last.type = "CALL"
           /\ end.last.ops[0].t = "REG" /\ end.last.ops[0].reg = and.ops[0].reg
        THEN [size |-> end.count, ninstr |-> 3] ELSE NoMacro

\* Mutant: the call need not end its bundle.
macroinst_call_anywhere(o, code, p, addr) ==
    LET and == fd_decode(code, p)
        end == PastNops(code, p, Third(code, p) - p)
    IN  IF /\ MasksReg(o, and) /\ AddsBase(fd_decode(code, Second(code, p)), and.ops[0].reg)
           /\ end.last.type = "CALL"
           /\ end.last.ops[0].t = "REG" /\ end.last.ops[0].reg = and.ops[0].reg
        THEN [size |-> end.count, ninstr |-> 2 + end.icount] ELSE NoMacro

\* The call ends its bundle, so that it returns to the start of the next one.
macroinst_call(o, code, p, addr) ==
    LET and == fd_decode(code, p)
        end == PastNops(code, p, Third(code, p) - p)
    IN  IF /\ MasksReg(o, and) /\ AddsBase(fd_decode(code, Second(code, p)), and.ops[0].reg)
           /\ (addr + end.count) % BundleSize = 0
           /\ end.last.type = "CALL"
           /\ end.last.ops[0].t = "REG" /\ end.last.ops[0].reg = and.ops[0].reg
        THEN [size |-> end.count, ninstr |-> 2 + end.icount] ELSE NoMacro

macroinst_load(o, code, p) ==
    LET mov  == fd_decode(code, p)
        load == fd_decode(code, Second(code, p))
    IN  IF /\ mov.ops[0].t = "REG" /\ ~reserved(o, mov, 0) /\ Truncates(mov, mov.ops[0].reg)
           /\ load.type = "MOV" /\ load.ops[0].t = "REG" /\ ~reserved(o, load, 0)
           /\ load.ops[1].t = "MEM" /\ load.ops[1].reg = R14
           /\ load.ops[1].index = mov.ops[0].reg /\ load.ops[1].scale = 0
        THEN [size |-> Third(code, p) - p, ninstr |-> 2] ELSE NoMacro

\* Mutant: what the second half adds is not looked at.
macroinst_modsp_anyadd(code, p) ==
    LET mov == fd_decode(code, p)
        add == fd_decode(code, Second(code, p))
    IN  IF /\ mov.type \in {"MOV", "ADD", "AND", "SUB", "LEA"} /\ IsReg(mov, 0, SP, 4)
           /\ mask_add(add) /\ IsReg(add, 0, SP, 8)
        THEN [size |-> Third(code, p) - p, ninstr |-> 2] ELSE NoMacro

macroinst_modsp(code, p) ==
    LET mov == fd_decode(code, p)
        add == fd_decode(code, Second(code, p))
    IN  IF /\ mov.type \in {"MOV", "ADD", "AND", "SUB", "LEA"} /\ IsReg(mov, 0, SP, 4)
           /\ \/ AddsBase(add, SP)
              \/ /\ add.type = "LEA" /\ IsReg(add, 0, SP, 8)
                 /\ add.ops[1].t = "MEM" /\ add.ops[1].reg = SP /\ add.ops[1].index = R14
                 /\ add.ops[1].val = 0 /\ add.ops[1].scale = 0
        THEN [size |-> Third(code, p) - p, ninstr |-> 2] ELSE NoMacro

okrtcalldisp(disp) == disp \in {0, 8, 16, 24, -8, -16, -24, -32}

\* Mutant: the return address of a runtime call is not checked.
macroinst_rtcall_anyret(code, p, addr) ==
    LET lea == fd_decode(code, p)
        jmp == fd_decode(code, Second(code, p))
    IN  IF /\ lea.type = "LEA" /\ lea.ops[0].t = "REG" /\ lea.ops[0].reg = R11
           /\ lea.ops[1].t = "MEM" /\ lea.ops[1].reg = IP
           /\ jmp.type = "JMP" /\ jmp.ops[0].t = "MEM" /\ jmp.ops[0].reg = R14
           /\ jmp.ops[0].index = NoReg /\ jmp.ops[0].scale = 0 /\ okrtcalldisp(jmp.ops[0].val)
        THEN [size |-> Third(code, p) - p, ninstr |-> 2] ELSE NoMacro

\* The return address the lea loads is the instruction after the jump or a bundle start.
macroinst_rtcall(code, p, addr) ==
    LET lea == fd_decode(code, p)
        jmp == fd_decode(code, Second(code, p))
    IN  IF /\ lea.type = "LEA" /\ lea.ops[0].t = "REG" /\ lea.ops[0].reg = R11
           /\ lea.ops[1].t = "MEM" /\ lea.ops[1].reg = IP
           /\ jmp.type = "JMP" /\ jmp.ops[0].t = "MEM" /\ jmp.ops[0].reg = R14
           /\ jmp.ops[0].index = NoReg /\ jmp.ops[0].scale = 0 /\ okrtcalldisp(jmp.ops[0].val)
           /\ \/ lea.ops[1].val = jmp.size
              \/ (addr + lea.size + lea.ops[1].val) % BundleSize = 0
        THEN [size |-> Third(code, p) - p, ninstr |-> 2] ELSE NoMacro

\* The first recogniser that accepts, in the order of the source.
macroinst(o, code, p, addr) ==
    LET tried == <<macroinst_load(o, code, p), macroinst_jmp(o, code, p),
                   macroinst_call(o, code, p, addr), macroinst_modsp(code, p),
                   macroinst_stos(code, p), macroinst_movs(code, p),
                   macroinst_cmps(code, p), macroinst_rtcall(code, p, addr)>>
        found == {k \in 1..8 : tried[k].size > 0}
    IN  IF found = {} THEN NoMacro
        ELSE tried[CHOOSE k \in found : \A j \in found : k <= j]

-----------------------------------------------------------------------------
(* For the properties. *)

\* The offsets of the instructions from p up to end.
InstStarts(code, p, end) ==
    LET from[q \in Nat] == IF q >= end THEN {} ELSE {q} \cup from[Second(code, q)]
    IN  from[p]
=============================================================================
