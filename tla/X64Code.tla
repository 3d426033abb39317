------------------------------- MODULE X64Code -------------------------------
(***************************************************************************)
(* x64 code for the model-checking runs: the decoded form (fadec's, an     *)
(* external component) of the instructions of src/test/x64/*.s, named by   *)
(* their assembly text, and the layout of a sequence of instructions as    *)
(* the bytes the verifier is given.                                        *)
(***************************************************************************)
EXTENDS X64Macro, Sequences, TLC

AX == 0
BX == 3
BP == 5
R12 == 12

R(reg, size) == [NoOp EXCEPT !.t = "REG", !.rt = "GPL", !.reg = reg, !.size = size]
Q(reg) == R(reg, 8)
E(reg) == R(reg, 4)
Xmm == [NoOp EXCEPT !.t = "REG", !.rt = "VEC", !.size = 16]
Seg == [NoOp EXCEPT !.t = "REG", !.rt = "SEG", !.size = 8]
Imm(v) == [NoOp EXCEPT !.t = "IMM", !.size = 4, !.val = v]
Off(v) == [NoOp EXCEPT !.t = "OFF", !.val = v]
Mem(reg, disp) == [NoOp EXCEPT !.t = "MEM", !.reg = reg, !.size = 8, !.val = disp]
MemX(reg, index, scale, disp) ==
    [Mem(reg, disp) EXCEPT !.index = index, !.scale = scale]

I(type, size, ops) ==
    [type |-> type, size |-> size, seg |-> "NONE", addrsize |-> 8,
     ops |-> [k \in OpIndex |-> IF k < Len(ops) THEN ops[k + 1] ELSE NoOp]]

Addr32(d) == [d EXCEPT !.addrsize = 4]
Gs(d) == [d EXCEPT !.seg = "GS"]
Fs(d) == [d EXCEPT !.seg = "FS"]

PlainInsts ==
    "nop"                :> I("NOP", 1, <<>>)
 @@ "nop2"               :> I("NOP", 2, <<R(AX, 2)>>)
 @@ "nop8"               :> I("NOP", 8, <<Mem(AX, 0)>>)
 @@ "add $8, %rdi"       :> I("ADD", 4, <<Q(DI), Imm(8)>>)
 @@ "mov %rdi, %rdi"     :> I("MOV", 3, <<Q(DI), Q(DI)>>)
 @@ "leaq 8(%rax), %rax" :> I("LEA", 4, <<Q(AX), Mem(AX, 8)>>)
 @@ "cmp %rsp, %rsp"     :> I("CMP", 3, <<Q(SP), Q(SP)>>)
 @@ "cld"                :> I("CLD", 1, <<>>)
 @@ "std"                :> I("STD", 1, <<>>)
 @@ "pause"              :> I("PAUSE", 2, <<>>)
 @@ "mov %rax, %r14"     :> I("MOV", 3, <<Q(R14), Q(AX)>>)
 @@ "mov $0, %r14"       :> I("MOV", 7, <<Q(R14), Imm(0)>>)
 @@ "mov %rax, %rsp"     :> I("MOV", 3, <<Q(SP), Q(AX)>>)
 @@ "mov $0, %rsp"       :> I("MOV", 7, <<Q(SP), Imm(0)>>)
 @@ "add $12, %rsp"      :> I("ADD", 4, <<Q(SP), Imm(12)>>)
 @@ "xchg %r14, %rax"    :> I("XCHG", 2, <<Q(AX), Q(R14)>>)
 @@ "mulx %eax, %esp, %ebx" :> I("MULX", 5, <<E(BX), E(SP), E(AX)>>)
 @@ "xadd %esp, %eax"    :> I("XADD", 3, <<E(AX), E(SP)>>)
 @@ "mov %rax, %r15"     :> I("MOV", 3, <<Q(R15), Q(AX)>>)
 @@ "mov %gs, %rax"      :> I("MOV_S2G", 3, <<Q(AX), Seg>>)
 @@ "mov %rax, %gs"      :> I("MOV_G2S", 3, <<Seg, Q(AX)>>)
 @@ "syscall"            :> I("SYSCALL", 2, <<>>)
 @@ "wrgsbase %r11"      :> I("WRGSBASE", 5, <<Q(R11)>>)
 @@ "wrfsbase %r11"      :> I("WRFSBASE", 5, <<Q(R11)>>)
 @@ "ldmxcsr 0(%rip)"    :> I("LDMXCSR", 7, <<Mem(IP, 0)>>)
 @@ "fxrstor 0(%rip)"    :> I("FXRSTOR", 7, <<Mem(IP, 0)>>)
 @@ "stosq"              :> I("STOS", 2, <<>>)
 @@ "movsq"              :> I("MOVS", 2, <<>>)
 @@ "cmpsq"              :> I("CMPS", 2, <<>>)

MemoryInsts ==
    "mov %gs:(%eax), %rax" :> Gs(Addr32(I("MOV", 5, <<Q(AX), Mem(AX, 0)>>)))
 @@ "mov %gs:12(%eax, %edi, 4), %rax" :>
        Gs(Addr32(I("MOV", 7, <<Q(AX), MemX(AX, DI, 2, 12)>>)))
 @@ "mov %gs:(%rax), %rax" :> Gs(I("MOV", 4, <<Q(AX), Mem(AX, 0)>>))
 @@ "mov %fs:0, %rax"      :> Fs(I("MOV", 9, <<Q(AX), Mem(NoReg, 0)>>))
 @@ "mov %fs:(%rsp), %rax" :> Fs(I("MOV", 5, <<Q(AX), Mem(SP, 0)>>))
 @@ "mov %fs:(%rip), %rax" :> Fs(I("MOV", 8, <<Q(AX), Mem(IP, 0)>>))
 @@ "mov 12(%rsp), %rax"   :> I("MOV", 5, <<Q(AX), Mem(SP, 12)>>)
 @@ "mov 12(%rip), %rax"   :> I("MOV", 7, <<Q(AX), Mem(IP, 12)>>)
 @@ "mov (%rsp, %rax), %rax" :> I("MOV", 4, <<Q(AX), MemX(SP, AX, 0, 0)>>)
 @@ "mov (%rax), %rax"     :> I("MOV", 3, <<Q(AX), Mem(AX, 0)>>)
 @@ "mov (%esp), %rax"     :> Addr32(I("MOV", 5, <<Q(AX), Mem(SP, 0)>>))
 @@ "movaps -0x7884(%rip), %xmm4" :> I("SSE_MOVAPS", 7, <<Xmm, Mem(IP, -30852)>>)
 @@ "movq (%rdi), %rax"    :> I("MOV", 3, <<Q(AX), Mem(DI, 0)>>)
 @@ "movq %rax, (%rdi)"    :> I("MOV", 3, <<Mem(DI, 0), Q(AX)>>)
 @@ "movq 8(%r14), %rdi"   :> I("MOV", 4, <<Q(DI), Mem(R14, 8)>>)
 @@ "movq (%r14, %rax), %rdi" :> I("MOV", 4, <<Q(DI), MemX(R14, AX, 0, 0)>>)
 @@ "movq (%rsp, %r14), %rdi" :> I("MOV", 4, <<Q(DI), MemX(SP, R14, 0, 0)>>)
 @@ "movq 16(%r15), %rax"  :> I("MOV", 4, <<Q(AX), Mem(R15, 16)>>)
 @@ "movq %rax, 16(%r15)"  :> I("MOV", 4, <<Mem(R15, 16), Q(AX)>>)
 @@ "movq 16(%r15), %rdi"  :> I("MOV", 4, <<Q(DI), Mem(R15, 16)>>)
 @@ "movq %rsi, 16(%r15)"  :> I("MOV", 4, <<Mem(R15, 16), Q(SI)>>)
 @@ "movl (%r15), %eax"    :> I("MOV", 3, <<E(AX), [Mem(R15, 0) EXCEPT !.size = 4]>>)
 @@ "movq 8(%r15), %rax"   :> I("MOV", 4, <<Q(AX), Mem(R15, 8)>>)
 @@ "movq (%r15), %rax"    :> I("MOV", 3, <<Q(AX), Mem(R15, 0)>>)
 @@ "addq 16(%r15), %rax"  :> I("ADD", 4, <<Q(AX), Mem(R15, 16)>>)

\* The parts of macro-instructions, and what falls short of one.
MacroInsts ==
    "andl $0xffffffe0, %eax" :> I("AND", 3, <<E(AX), Imm(-32)>>)
 @@ "andl $0xffffffff, %eax" :> I("AND", 3, <<E(AX), Imm(-1)>>)
 @@ "andq $0xffffffffffffffe0, %rax" :> I("AND", 4, <<Q(AX), Imm(-32)>>)
 @@ "andl $0xffffffe0, %r14d" :> I("AND", 4, <<E(R14), Imm(-32)>>)
 @@ "addq %r14, %rax"  :> I("ADD", 3, <<Q(AX), Q(R14)>>)
 @@ "addq %r14, %r14"  :> I("ADD", 3, <<Q(R14), Q(R14)>>)
 @@ "orl %r14d, %eax"  :> I("OR", 3, <<E(AX), E(R14)>>)
 @@ "jmp *%rax"        :> I("JMP", 2, <<Q(AX)>>)
 @@ "jmp *%r14"        :> I("JMP", 3, <<Q(R14)>>)
 @@ "callq *%rax"      :> I("CALL", 2, <<Q(AX)>>)
 @@ "movl %eax, %esp"  :> I("MOV", 2, <<E(SP), E(AX)>>)
 @@ "add $12, %esp"    :> I("ADD", 3, <<E(SP), Imm(12)>>)
 @@ "andl $0xfffffff0, %esp" :> I("AND", 3, <<E(SP), Imm(-16)>>)
 @@ "lea -0x10(%ebp), %esp"  :> Addr32(I("LEA", 4, <<E(SP), Mem(BP, -16)>>))
 @@ "addq %r14, %rsp"  :> I("ADD", 3, <<Q(SP), Q(R14)>>)
 @@ "lea (%rsp, %r14, 1), %rsp" :> I("LEA", 4, <<Q(SP), MemX(SP, R14, 0, 0)>>)
 @@ "movl %r11d, %r11d" :> I("MOV", 3, <<E(R11), E(R11)>>)
 @@ "movq %r11, %r11"  :> I("MOV", 3, <<Q(R11), Q(R11)>>)
 @@ "movq (%r14, %r11), %rax" :> I("MOV", 4, <<Q(AX), MemX(R14, R11, 0, 0)>>)
 @@ "movq (%r14, %r11), %r14" :> I("MOV", 4, <<Q(R14), MemX(R14, R11, 0, 0)>>)
 @@ "movl %edi, %edi"  :> I("MOV", 2, <<E(DI), E(DI)>>)
 @@ "movl %esi, %esi"  :> I("MOV", 2, <<E(SI), E(SI)>>)
 @@ "leaq (%r14, %rdi), %rdi" :> I("LEA", 4, <<Q(DI), MemX(R14, DI, 0, 0)>>)
 @@ "leaq (%r14, %rsi), %rsi" :> I("LEA", 4, <<Q(SI), MemX(R14, SI, 0, 0)>>)
 @@ "rep stosq"        :> I("STOS", 3, <<>>)
 @@ "rep movsq"        :> I("MOVS", 3, <<>>)
 @@ "rep cmpsq"        :> I("CMPS", 3, <<>>)
 @@ "jmpq *(%r14)"     :> I("JMP", 3, <<Mem(R14, 0)>>)
 @@ "jmpq *4(%r14)"    :> I("JMP", 4, <<Mem(R14, 4)>>)
 @@ "jmpq *8(%r14)"    :> I("JMP", 4, <<Mem(R14, 8)>>)
 @@ "jmpq *-8(%r14)"   :> I("JMP", 4, <<Mem(R14, -8)>>)
 @@ "jmpq *-16(%r14)"  :> I("JMP", 4, <<Mem(R14, -16)>>)
 @@ "jmpq *-24(%r14)"  :> I("JMP", 4, <<Mem(R14, -24)>>)
 @@ "jmpq *-32(%r14)"  :> I("JMP", 4, <<Mem(R14, -32)>>)
 @@ "jmpq *(%r14, %rax)" :> I("JMP", 4, <<MemX(R14, AX, 0, 0)>>)

\* Instructions that write, reach or read what the checks do not look at, and their like.
OpenInsts ==
    "cmpbexadd %rax, %rbx, (%rsp)" :> I("CMPBEXADD", 6, <<Mem(SP, 0), Q(BX), Q(AX)>>)
 @@ "cmpbexadd %rax, %rsp, (%rsp)" :> I("CMPBEXADD", 6, <<Mem(SP, 0), Q(SP), Q(AX)>>)
 @@ "cmpbexadd %rax, %r14, (%rsp)" :> I("CMPBEXADD", 6, <<Mem(SP, 0), Q(R14), Q(AX)>>)
 @@ "cmpbexadd %rax, %r15, (%rsp)" :> I("CMPBEXADD", 6, <<Mem(SP, 0), Q(R15), Q(AX)>>)
 @@ "bts $7, (%rsp)"      :> I("BTS", 6, <<Mem(SP, 0), Imm(7)>>)
 @@ "bts %rax, (%rsp)"    :> I("BTS", 5, <<Mem(SP, 0), Q(AX)>>)
 @@ "bts %rax, %rsp"      :> I("BTS", 4, <<Q(SP), Q(AX)>>)
 @@ "bt %rax, (%rsp)"     :> I("BT", 5, <<Mem(SP, 0), Q(AX)>>)
 @@ "bts %rax, %gs:(%eax)" :> Gs(Addr32(I("BTS", 6, <<Mem(AX, 0), Q(AX)>>)))
 @@ "movl (%rax), %esp"   :> I("MOV", 2, <<E(SP), [Mem(AX, 0) EXCEPT !.size = 4]>>)
 @@ "lea (%esp, %r14d, 1), %rsp" :> Addr32(I("LEA", 5, <<Q(SP), MemX(SP, R14, 0, 0)>>))

\* jmp and leaq to a label that many bytes after the instruction.
Jump(v) == I("JMP", 2, <<Off(v)>>)
LeaReturn(reg, v) == I("LEA", 7, <<Q(reg), Mem(IP, v)>>)

AllInsts == PlainInsts @@ MemoryInsts @@ MacroInsts @@ OpenInsts

-----------------------------------------------------------------------------
(* Layout. *)

\* A stretch of code: its instruction, the length the BDD gives it, and what its bytes
\* after the first decode as.
Token(d, bdd, inner) == [fd |-> d, bdd |-> bdd, inner |-> inner]

\* The decoders agree and there is no other way to read the bytes.
Plain(d) == Token(d, d.size, Undecodable)

CodeOf(tokens) ==
    LET start[k \in 1..(Len(tokens) + 1)] ==
          IF k = 1 THEN 0 ELSE start[k - 1] + tokens[k - 1].fd.size
        n == start[Len(tokens) + 1]
        Starts == {start[k] : k \in 1..Len(tokens)}
        at[p \in 0..(n - 1)] ==
          tokens[CHOOSE k \in 1..Len(tokens) : start[k] <= p /\ p < start[k + 1]]
    IN  [n |-> n,
         fd |-> [p \in 0..(n - 1) |-> IF p \in Starts THEN at[p].fd ELSE at[p].inner],
         bdd |-> [p \in 0..(n - 1) |-> IF p \in Starts THEN at[p].bdd ELSE at[p].inner.size]]
=============================================================================
