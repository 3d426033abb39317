------------------------------ MODULE MCX64Exec ------------------------------
(***************************************************************************)
(* X64Exec in bundles of four bytes, on all the programs of up to four     *)
(* instructions (three with the context register, of accesses, and of what *)
(* the checks leave open) over four alphabets: control flow, the stack     *)
(* pointer and the reserved registers, rebased accesses, and instructions  *)
(* with one that writes, reaches or reads what the checks do not look at.  *)
(* Those the verifier turns down are never executed.                       *)
(*   BaseCalls, StackCalls, InsideCalls   short programs of the last kind  *)
(*                  in their own sizes, for bundles of 32 bytes.           *)
(***************************************************************************)
EXTENDS X64Exec, X64Code, SequencesExt

Opt(box, ctxreg) == [box |-> box, no_bdd |-> TRUE, ctxreg |-> ctxreg, err |-> FALSE]

\* As one byte, to fit several in a bundle.
Byte(name) == Plain([AllInsts[name] EXCEPT !.size = 1])
MaskAx == Plain(I("AND", 1, <<E(AX), Imm(BundleMask)>>))
MaskSp == Plain(I("AND", 1, <<E(SP), Imm(BundleMask)>>))

\* The bytes inside an add decode as a system call.
Hiding == Token(I("ADD", 3, <<Q(AX), Imm(8)>>), 3, I("SYSCALL", 1, <<>>))

Control ==
    {Byte("nop"), MaskAx, Byte("addq %r14, %rax"), Byte("jmp *%rax"), Byte("callq *%rax"),
     Plain(I("LEA", 1, <<Q(R11), Mem(IP, 1)>>)), Plain(I("LEA", 1, <<Q(R11), Mem(IP, 2)>>)),
     Byte("jmpq *8(%r14)"), Byte("jmp *%r14"), Plain(I("JMP", 1, <<Off(3)>>)),
     Plain(I("JZ", 1, <<Off(1)>>)), Plain(I("JMP", 1, <<Off(-3)>>)), Hiding}

Stack ==
    {MaskSp} \cup {Byte(x) : x \in {"movl %eax, %esp", "add $12, %rsp", "addq %r14, %rsp",
       "lea (%rsp, %r14, 1), %rsp", "mov 12(%rsp), %rax", "xadd %esp, %eax",
       "mov %rax, %rsp", "mov %rax, %r14", "xchg %r14, %rax", "mov %rax, %r15",
       "movq 16(%r15), %rax", "nop"}}

Access ==
    {Byte(x) : x \in {"movl %r11d, %r11d", "movq %r11, %r11", "movq (%r14, %r11), %rax",
       "movq (%r14, %rax), %rdi", "movl %edi, %edi", "leaq (%r14, %rdi), %rdi", "stosq",
       "movq %rax, (%rdi)", "movq (%rdi), %rax", "addq %r14, %rax", "syscall"}}

Open ==
    {Byte(x) : x \in DOMAIN OpenInsts \cup
       {"movl %eax, %esp", "addq %r14, %rsp", "mov 12(%rsp), %rax", "mov (%rax), %rax",
        "movq 16(%r15), %rax"}}

CallsOf(os, tokens, n) ==
    [opts : os, code : {CodeOf(s) : s \in BoundedSeq(tokens, n)}, base : {0}]

MCCalls ==
    CallsOf({Opt("FULL", FALSE)}, Control, 4)
      \cup CallsOf({Opt("FULL", FALSE)}, Stack, 4) \cup CallsOf({Opt("FULL", TRUE)}, Stack, 3)
      \cup CallsOf({Opt("FULL", FALSE), Opt("STORES", FALSE)}, Access, 3)
      \cup CallsOf({Opt("FULL", TRUE), Opt("STORES", FALSE)}, Open, 3)

-----------------------------------------------------------------------------
(* In bundles of 32 bytes. *)

\* As the shipped table of the BDD has it, whose lengths are those of the decoder here.
Shipped(ctxreg) == [Opt("FULL", ctxreg) EXCEPT !.no_bdd = FALSE]

ProgramsOf(os, names) ==
    CallsOf(os, {Plain(AllInsts[x]) : x \in names}, 3)

\* The shipped table has no CMPccXADD.
BaseCalls ==
    ProgramsOf({Opt("FULL", FALSE), Opt("FULL", TRUE)},
      {"nop", "cmpbexadd %rax, %rbx, (%rsp)", "cmpbexadd %rax, %r14, (%rsp)",
       "cmpbexadd %rax, %r15, (%rsp)", "mov %rax, %r14", "mov %rax, %r15"})

StackCalls ==
    ProgramsOf({Shipped(FALSE)},
      {"nop", "add $12, %esp", "movl %eax, %esp", "lea (%rsp, %r14, 1), %rsp",
       "lea (%esp, %r14d, 1), %rsp", "addq %r14, %rsp"})

InsideCalls ==
    ProgramsOf({Shipped(FALSE)},
      {"nop", "mov (%rsp, %rax), %rax", "bts $7, (%rsp)", "bts %rax, (%rsp)"})
=============================================================================
