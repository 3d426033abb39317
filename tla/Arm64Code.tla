------------------------------ MODULE Arm64Code ------------------------------
(***************************************************************************)
(* Code for the ARM64 verifier: instruction words, what vchk               *)
(* (src/src/arm64/verify.c) makes of one, and which code is valid.         *)
(***************************************************************************)
EXTENDS Arm64Inst, Sequences

CONSTANTS Word,          \* the instruction words considered
          da64_decode    \* the disarm decoder: Word -> Inst

\* What the C code relies on the decoder for.
ASSUME DecoderAssumption ==
    /\ da64_decode \in [Word -> Inst]
    /\ \A w \in Word : LET d == da64_decode[w] IN
         /\ d.mnem \in IndirectBranches => d.group = "BRANCHREG" /\ d.ops[0].type = "REGGP"
         /\ d.mnem = "MSR" => d.ops[0].type = "SYSREG"
         /\ d.mnem = "MRS" => d.ops[1].type = "SYSREG"
         /\ d.mnem = "SYS" /\ d.ops[0].type = "SYSREG" /\ d.ops[0].sysreg = "dc_zva"
               => d.ops[1].type = "REGGP"
         /\ d.group = "BRANCHREG" =>
               d.mnem \in {"BR", "BLR", "RET", "RETAA", "RETAB", "BRAA", "BLRAA",
                           "ERET", "ERETAA", "DRPS"}
         /\ d.mnem = "LDR_IMM" =>   \* the form without writeback
               /\ d.group \notin BranchGroups /\ d.ops[0].type # "REGSP"
               /\ \A k \in OpIndex : d.ops[k].type \notin
                    {"MEMSOFFPRE", "MEMSOFFPOST", "MEMREGPOST", "MEMINC"}
         \* Twelve bits, times eight.
         /\ d.mnem \in {"LDR_IMM", "STR_IMM"} => \A k \in OpIndex : d.ops[k].imm <= 32760

\* The words vchk lets through without decoding them (INSN_* in the source).
HintWords == {"nop", "yield", "autia1716", "autib1716", "autiasp", "pacm", "paciasp",
              "btijc", "btij", "btic", "bti", "xpaclri", "cntd x0"}

-----------------------------------------------------------------------------
(* What vchk makes of a word. *)

\* The word reaches the checks: it is neither a hint nor turned down by its
\* mnemonic nor the ldr xzr, [x30] that vchk accepts as it stands.
Checked(w) == /\ w \notin HintWords
              /\ da64_decode[w].mnem # "UNKNOWN"
              /\ okmnem(da64_decode[w])
              /\ ~is_x30_ldr_guard(da64_decode[w])

-----------------------------------------------------------------------------
(* What valid code is, without running the pass. *)

Guards(w)   == Checked(w) /\ ModifiesX30(da64_decode[w]) /\ SetsX30Guarded(da64_decode[w])
Unguards(w) == Checked(w) /\ ModifiesX30(da64_decode[w]) /\ ~SetsX30Guarded(da64_decode[w])

\* Before word k of c, whatever unguarded x30 has been followed by a guard.
GuardedBefore(c, k) ==
    \A j \in 1..(k - 1) : Unguards(c[j]) => \E m \in (j + 1)..(k - 1) : Guards(c[m])

\* What is asked of a word when x30 is guarded before it iff g.
ValidWord(o, w, g) ==
    \/ w \in HintWords
    \/ /\ da64_decode[w].mnem # "UNKNOWN" /\ okmnem(da64_decode[w])
       /\ is_x30_ldr_guard(da64_decode[w]) \/ Checks(o, da64_decode[w], g)

Valid(o, c) == /\ \A k \in 1..Len(c) : ValidWord(o, c[k], GuardedBefore(c, k))
               /\ GuardedBefore(c, Len(c) + 1)
=============================================================================
