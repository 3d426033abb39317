------------------------------- MODULE MCArm64 -------------------------------
(***************************************************************************)
(* Arm64Verifier over finite sets of calls.                                *)
(*   ControlCalls   every program of up to four words of control flow and  *)
(*                  x30 traffic, at the top of the address space, so that  *)
(*                  v.addr wraps;                                          *)
(*   OperandCalls   every pair of words with register and memory operands, *)
(*                  under every combination of options;                    *)
(*   SuiteCalls     the programs of src/test/arm64 under their flags, but  *)
(*                  for a few raw encodings and repeats;                   *)
(*   AllCalls       all of these.                                          *)
(***************************************************************************)
EXTENDS Arm64Verifier, Arm64Words, SequencesExt

MCWord == DOMAIN AllWords
MCDecode == AllWords
MCAddrSpan == 16

Opt(box, ctx, err) == [box |-> box, ctxreg |-> ctx, err |-> err]

ControlAlphabet ==
    {"mov x30, x0", "add x30, x27, w30, uxtw", "ldr x30, [x27, #8]", "ldr xzr, [x30]",
     "ret", "b foo", "blr x27", "eret", "undefined"}

ControlCalls ==
    [opts : {Opt("FULL", FALSE, e) : e \in BOOLEAN},
     code : BoundedSeq(ControlAlphabet, 4), rem : {0}, base : {8}]
  \cup
    [opts : {Opt("FULL", FALSE, e) : e \in BOOLEAN},
     code : BoundedSeq(ControlAlphabet, 1), rem : {2}, base : {8}]

OperandAlphabet ==
    (DOMAIN RegisterWords \cup DOMAIN MemoryWords)
      \ {"mrs x0, fpcr", "mrs x0, dczid_el0", "mrs x0, id_aa64pfr0_el1",
         "mrs x0, id_aa64pfr1_el1", "mrs x0, id_aa64zfr0_el1",
         "mrs x0, id_aa64isar0_el1", "mrs x0, id_aa64isar1_el1"}   \* as "mrs x0, fpsr"

OperandCalls ==
    [opts : Options,
     code : BoundedSeq(OperandAlphabet, 2),
     rem : {0}, base : {0}]

-----------------------------------------------------------------------------
(* The test suite: runtest.go assembles each program and expects it to be  *)
(* accepted (pass.s, pass_msr.s) or rejected (fail.s).                     *)

PassPlain ==
    {<<w>> : w \in {"add x28, x27, w0, uxtw", "ldr x0, [x27, w0, uxtw]", "b foo", "br x28",
       "ret", "bl foo", "ldr x0, [sp]", "ldr x0, [sp], #16", "ldr x0, [sp, 16]!",
       "add sp, x27, w0, uxtw", "nop", "ldr x0, [x28, #4096]", "str x0, [x28, #4096]",
       "ld4 {v29.2s - v0.2s}, [x28]", "brk #0x281a", "str w28, [x28]",
       "movk x1, #0x9ec0, lsl #32", "uaddl2 v12.4s, v2.8h, v19.8h",
       "extr x1, x8, x15, #0", "ands x16, x30, #imm", "str q0, [x28, #55696]",
       "stp x29, x30, [sp], #16", "stp s24, s9, [sp], #-0x10", "ldr x30, [x27, #8]",
       "ldr x30, [x27, #16]", "stp xzr, xzr, [sp, #-0x10]!", "swpal w0, w0, [x28]",
       "ldadd w0, w0, [x28]", "autiasp", "paciasp", "ldur x30, [x27, #-8]",
       "ldur x30, [x27, #-32]", "ldr xzr, [x30]", "yield", "dc zva, x28"}}
    \cup {<<"mov x30, x0", "add x30, x27, w30, uxtw", "ret">>,
          <<"ldr x30, [sp]", "add x30, x27, w30, uxtw", "br x30">>,
          <<"mov x30, x0", "mov x30, x0", "add x30, x27, w30, uxtw", "ret">>,
          <<"ldr x30, [sp]", "autiasp", "add x30, x27, w30, uxtw", "ret">>,
          <<"mov x30, x0", "add x30, x27, w30, uxtw", "b foo">>,
          <<"mov x30, x0", "add x30, x27, w30, uxtw", "cbz x0, foo">>,
          <<"add x30, x27, w26, uxtw", "ret">>,
          <<"mrs x0, dczid_el0", "mrs x0, fpsr", "mrs x0, fpcr", "mrs x0, id_aa64pfr0_el1",
            "mrs x0, id_aa64pfr1_el1", "mrs x0, id_aa64zfr0_el1",
            "mrs x0, id_aa64isar0_el1", "mrs x0, id_aa64isar1_el1">>}

PassStores == {<<"ldr x0, [x1]">>, <<"ldr x0, [x1], #16">>}

PassCtxreg == {<<"ldr x0, [x25, #16]">>, <<"str x0, [x25, #16]">>,
               <<"ldr x0, [x25, #16]", "str x1, [x25, #16]">>}

FailPlain ==
    {<<w>> : w \in {"ldr x0, [x0]", "br x0", "mov sp, x0", "mov x27, x0", "mov x28, x0",
       "mov x30, x0", "ret x0", "str x0, [x1]", "svc #0", "undefined", "ldr x30, [sp]",
       "add x30, x27, x30", "ldr x0, [x27], #16", "ldr x0, [x0], #16", "wfi", "ldr x0, #0",
       "dc cvau, x0", "adr x28, foo", "msr s3_5_c12_c9_4, x28", "mrs x28, tpidr_el0",
       "ld4 {v29.2s - v0.2s}, [x0]", "swplb w26, w27, [x28]", "swpal x20, x27, [x28]",
       "ldadd x20, x27, [x28]", "caspl x26, x27, x0, x1, [x27]", "add x27, sp, #0xc20",
       "ldr x0, [x27, 16]!", "mrs x0, tpidr_el0", "msr tpidr_el0, x0",
       "ldr x30, [x27, #4]", "ldr x30, [x27, #264]", "ldp x0, x0, [x28]",
       "ldp x0, x28, [x28]", "add w28, w27, w7, uxtw #0", "ldp w11, w28, [x28], #-0x28",
       "stp w11, w28, [x28], #-0x28", "ldur x30, [x27, #32]", "ldr x30, [x27, #6]",
       "retaa", "retab", "mov x28, x30", "dc zva, x0"}}
    \cup {<<"mov x30, x0", "ret">>, <<"ldr x30, [sp]", "br x30">>,
          <<"mov x30, x0", "add x30, x27, x30", "ret">>,
          <<"ldr x30, [sp]", "autiasp", "ret">>,
          <<"mov x30, x0", "b foo">>, <<"mov x30, x0", "cbz x0, foo">>}

FailStores == {<<"ldr x0, [x27], #16">>, <<"str x0, [x1]">>,
               <<"ld1 {v0.8b}, [x28], x1", "ldr x0, [x28]">>}

FailCtxreg == {<<w>> : w \in {"mov x25, x0", "ldr w0, [x25]", "ldr x0, [x25, #8]",
                              "ldr x0, [x25]", "ldur x0, [x25, #16]"}}

Programs(plain, stores, ctx) ==
    [box : {"FULL"}, ctxreg : {FALSE}, code : plain]
      \cup [box : {"STORES"}, ctxreg : {FALSE}, code : stores]
      \cup [box : {"FULL"}, ctxreg : {TRUE}, code : ctx]

PassTests == Programs(PassPlain, PassStores, PassCtxreg)
FailTests == Programs(FailPlain, FailStores, FailCtxreg)

SuiteCalls ==
    {[opts |-> Opt(t.box, t.ctxreg, e), code |-> t.code, rem |-> 0, base |-> 0] :
        t \in PassTests \cup FailTests, e \in BOOLEAN}

AllCalls == ControlCalls \cup OperandCalls \cup SuiteCalls

\* The model answers for the programs of the repository's test suite what the suite
\* expects of lfi-verify, with and without a reporter (src/test/runtest.go).
SuiteAgrees ==
    LET t == [box |-> opts.box, ctxreg |-> opts.ctxreg, code |-> code] IN
    Done /\ rem = 0 => /\ t \in PassTests => pc = "pass"
                       /\ t \in FailTests => pc = "fail"
=============================================================================
