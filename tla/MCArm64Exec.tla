----------------------------- MODULE MCArm64Exec -----------------------------
(***************************************************************************)
(* Arm64Exec on the programs of two regions, the first of up to three      *)
(* words, that are valid: every sequence over an alphabet of branches, x30 *)
(* traffic and writes to reserved registers is a candidate, and every pair *)
(* over one of accesses under every combination of options; those the      *)
(* verifier turns down have no behaviour.                                  *)
(***************************************************************************)
EXTENDS Arm64Exec, Arm64Words, SequencesExt

MCWord == DOMAIN AllWords
MCDecode == AllWords

Alphabet ==
    {"mov x30, x0", "add x30, x27, w30, uxtw", "ldr x30, [sp]", "ldr x30, [x27, #8]",
     "ldr x30, [x27, #4]", "ldur x30, [x27, #-8]", "ldr xzr, [x30]", "ldp x0, x30, [sp]",
     "autiasp", "ret", "br x30", "br x28", "blr x28", "blr x27", "br x0", "retaa",
     "b foo", "bl foo", "b.eq foo", "mov x28, x0", "add x28, x27, w0, uxtw",
     "add x28, x27, w0, uxtw #1", "add sp, x27, w0, uxtw", "mov sp, x0", "mov x27, x0",
     "ldr x0, [sp], #16", "ldr x0, [x27], #16", "ld1 {v0.8b}, [x28], x1", "mov x0, x0"}

\* Accesses, what may be written to the registers they use, and what they leave of x30.
Accesses ==
    {"ldr x0, [x1]", "str x0, [x1]", "str x0, [x28, #4096]", "str q0, [x27, #65520]",
     "str x0, [x27, #8]", "ldr x0, [x27, w0, uxtw]", "str x0, [x27, w0, uxtw #3]",
     "ldr x0, [x1], #16", "ldr x0, [x28], #16", "ldr x0, [x30], #16", "ldr x0, [x27], #16", "ld1 {v0.8b}, [x1], #8",
     "swpal w0, w0, [x28]", "swpal w0, w1, [x2]", "dc zva, x28", "dc zva, x0",
     "ldr x0, [x25]", "ldr x0, [x25, #16]", "str x1, [x25, #16]", "str w0, [x25, #16]",
     "ldr x0, [x25], #16", "mov x25, x0", "mov x28, x0", "add x28, x27, w0, uxtw",
     "ldr x30, [x27, #8]", "ldr x30, [x27, #264]", "ldr xzr, [x30]", "b foo", "ret"}

Second == {<<"ret">>, <<"mov x30, x0", "add x30, x27, w26, uxtw">>}

Regions(alphabet, n) == {<<c, d>> : c \in BoundedSeq(alphabet, n), d \in Second}

MCPrograms ==
         [opts : {[box |-> "FULL", ctxreg |-> FALSE, err |-> FALSE]},
          regions : Regions(Alphabet, 3)]
    \cup [opts : [box : {"FULL", "STORES"}, ctxreg : BOOLEAN, err : {FALSE}],
          regions : Regions(Accesses, 2)]

\* For the stores-only sandbox, what may come between a guard and the branch that needs it.
Between == {"ldr x30, [x27, #8]", "ldr x0, [x30], #16", "ldr x0, [x28], #16", "mov x0, x0", "ret"}

StoresPrograms ==
    [opts : {[box |-> "STORES", ctxreg |-> FALSE, err |-> FALSE]}, regions : Regions(Between, 3)]
=============================================================================
