----------------------------- MODULE MCX64Suite -----------------------------
(***************************************************************************)
(* X64Verifier in its bundles of 32 bytes, on the programs of              *)
(* src/test/x64 under their flags.                                         *)
(***************************************************************************)
EXTENDS X64Verifier, X64Code

Opt(box, no_bdd, ctxreg, err) ==
    [box |-> box, no_bdd |-> no_bdd, ctxreg |-> ctxreg, err |-> err]

Prog(names) == [k \in DOMAIN names |-> AllInsts[names[k]]]

ReturnTo(reg, v, jmp, rest) == <<LeaReturn(reg, v), AllInsts[jmp]>> \o rest

Rep(name, n) == [k \in 1..n |-> AllInsts[name]]

Mask == Prog(<<"andl $0xffffffe0, %eax", "addq %r14, %rax">>)
CallRax == Prog(<<"callq *%rax">>)
RebaseDI == <<"movl %edi, %edi", "leaq (%r14, %rdi), %rdi">>
RebaseSI == <<"movl %esi, %esi", "leaq (%r14, %rsi), %rsi">>

PassPlain ==
    {Prog(<<x>>) : x \in {"add $8, %rdi", "mov %gs:(%eax), %rax",
       "mov %gs:12(%eax, %edi, 4), %rax", "leaq 8(%rax), %rax", "mov 12(%rsp), %rax",
       "mov 12(%rip), %rax", "cmp %rsp, %rsp", "movaps -0x7884(%rip), %xmm4", "cld", "std",
       "pause", "movq 8(%r14), %rdi"}}
    \cup {Prog(x) : x \in
      {<<"andl $0xffffffe0, %eax", "addq %r14, %rax", "jmp *%rax">>,
       <<"movl %eax, %esp", "addq %r14, %rsp">>, <<"add $12, %esp", "addq %r14, %rsp">>,
       <<"andl $0xfffffff0, %esp", "addq %r14, %rsp">>,
       <<"lea -0x10(%ebp), %esp", "lea (%rsp, %r14, 1), %rsp">>,
       <<"movl %r11d, %r11d", "movq (%r14, %r11), %rax">>,
       RebaseDI \o <<"rep stosq">>, RebaseDI \o RebaseSI \o <<"rep movsq">>,
       RebaseDI \o RebaseSI \o <<"rep cmpsq">>}}
    \cup {Rep("add $8, %rdi", 12),
          <<Jump(30), AllInsts["nop"], AllInsts["add $8, %rdi"]>>
             \o Rep("nop8", 3) \o Rep("nop", 1),
          Mask \o Rep("nop8", 3) \o CallRax,
          Rep("nop2", 1) \o Mask \o Rep("nop8", 2) \o Rep("nop2", 3) \o CallRax,
          ReturnTo(R11, 25, "jmpq *(%r14)", Rep("nop8", 2) \o Rep("nop2", 3))}
    \cup {ReturnTo(R11, AllInsts[jmp].size, jmp, <<>>) :
            jmp \in {"jmpq *(%r14)", "jmpq *8(%r14)", "jmpq *-8(%r14)", "jmpq *-16(%r14)",
                     "jmpq *-24(%r14)", "jmpq *-32(%r14)"}}

PassStores == {Prog(<<"movq (%rdi), %rax">>)}

PassCtxreg == {Prog(<<"movq 16(%r15), %rax">>), Prog(<<"movq %rax, 16(%r15)">>),
               Prog(<<"movq 16(%r15), %rdi", "movq %rsi, 16(%r15)">>)}

FailPlain ==
    {Prog(<<x>>) : x \in {"jmp *%rax", "mov %gs:(%rax), %rax", "mov (%rsp, %rax), %rax",
       "mov (%rax), %rax", "mov (%esp), %rax", "mov %rax, %r14", "mov $0, %r14",
       "mov %rax, %rsp", "mov $0, %rsp", "add $12, %rsp", "xchg %r14, %rax", "callq *%rax",
       "jmpq *(%r14)", "mov %fs:0, %rax", "mov %fs:(%rsp), %rax", "mov %fs:(%rip), %rax",
       "mov %gs, %rax", "mov %rax, %gs", "syscall", "wrgsbase %r11", "wrfsbase %r11",
       "ldmxcsr 0(%rip)", "fxrstor 0(%rip)", "movq (%r14, %rax), %rdi",
       "movq (%rsp, %r14), %rdi", "mulx %eax, %esp, %ebx", "xadd %esp, %eax", "stosq",
       "movsq", "cmpsq"}}
    \cup {Prog(x) : x \in
      {<<"andl $0xffffffff, %eax", "addq %r14, %rax", "jmp *%rax">>,
       <<"andq $0xffffffffffffffe0, %rax", "addq %r14, %rax", "jmp *%rax">>,
       <<"andl $0xffffffe0, %eax", "jmp *%rax">>,
       <<"andl $0xffffffe0, %eax", "orl %r14d, %eax", "jmp *%rax">>,
       <<"andl $0xffffffe0, %r14d", "addq %r14, %r14", "jmp *%r14">>,
       <<"movq %r11, %r11", "movq (%r14, %r11), %rax">>,
       <<"movl %r11d, %r11d", "movq (%r14, %r11), %r14">>}}
    \cup {Rep("mov %rdi, %rdi", 12), <<Jump(1)>> \o Rep("nop", 2),
          Mask \o Rep("nop8", 3) \o Rep("nop2", 2) \o CallRax, Mask \o CallRax,
          ReturnTo(R11, 4, "jmpq *(%r14)", Rep("nop", 1)),
          ReturnTo(R12, 3, "jmpq *(%r14)", <<>>), ReturnTo(R11, 4, "jmpq *4(%r14)", <<>>),
          ReturnTo(R11, 4, "jmpq *(%r14, %rax)", <<>>)}

FailStores == {Prog(<<"movq %rax, (%rdi)">>)}

FailCtxreg == {Prog(<<x>>) : x \in {"mov %rax, %r15", "movl (%r15), %eax",
                 "movq 8(%r15), %rax", "movq (%r15), %rax", "addq 16(%r15), %rax"}}

Layout(insts) == CodeOf([k \in DOMAIN insts |-> Plain(insts[k])])

Programs(plain, stores, ctx) ==
    [box : {"FULL"}, ctxreg : {FALSE}, code : {Layout(s) : s \in plain}]
      \cup [box : {"STORES"}, ctxreg : {FALSE}, code : {Layout(s) : s \in stores}]
      \cup [box : {"FULL"}, ctxreg : {TRUE}, code : {Layout(s) : s \in ctx}]

PassTests == Programs(PassPlain, PassStores, PassCtxreg)
FailTests == Programs(FailPlain, FailStores, FailCtxreg)

SuiteCalls ==
    {[opts |-> Opt(t.box, FALSE, t.ctxreg, TRUE), code |-> t.code, base |-> 0] :
        t \in PassTests \cup FailTests}

\* The model answers for the programs of the repository's test suite what the suite
\* expects of lfi-verify (src/test/runtest.go).
SuiteAgrees ==
    LET t == [box |-> opts.box, ctxreg |-> opts.ctxreg, code |-> code] IN
    Done => /\ t \in PassTests => pc = "pass"
            /\ t \in FailTests => pc = "fail"

=============================================================================
