---------------------------- MODULE Arm64Verifier ----------------------------
(***************************************************************************)
(* lfiv_verify_arm64 (src/src/arm64/verify.c): one pass over the words of  *)
(* the code, tracking whether x30 is guarded, with one action for every    *)
(* way vchk() treats a word.                                               *)
(*                                                                         *)
(* The inputs -- code, size, address, options -- are chosen in Init.  An   *)
(* assert() that fails would end the process: Check has no step there, and *)
(* AssertsPass says it never happens.                                      *)
(***************************************************************************)
EXTENDS Arm64Code

CONSTANTS AddrSpan,      \* the number of values of uintptr_t
          Calls          \* the arguments lfiv_verify_arm64 may be called with

ASSUME SpanAssumption == AddrSpan \in Nat \ {0}

INSN_SIZE == 4

Addr == 0..(AddrSpan - 1)

\* size is INSN_SIZE * Len(code) + rem.
Call == [opts : Options, code : Seq(Word), rem : 0..(INSN_SIZE - 1), base : Addr]

ASSUME CallsAssumption == Calls \subseteq Call

EndOfCode == -1   \* stands for the message that carries no address

VARIABLES
    opts,          \* the options of the call
    code,          \* the words at the code pointer
    rem,           \* size % INSN_SIZE
    base,          \* the address argument
    pc,            \* "start", "loop", then the value returned: "pass" or "fail"
    i,             \* the word the loop is at, counted from 1
    failed,        \* v.failed
    x30_guarded,   \* v.x30_guarded
    addr,          \* v.addr
    reports        \* the addresses of the errors reported so far

inputs == <<opts, code, rem, base>>
vars == <<opts, code, rem, base, pc, i, failed, x30_guarded, addr, reports>>

-----------------------------------------------------------------------------
(* The pass. *)

Init ==
    /\ \E c \in Calls : opts = c.opts /\ code = c.code /\ rem = c.rem /\ base = c.base
    /\ pc = "start" /\ i = 1 /\ failed = FALSE /\ x30_guarded = TRUE
    /\ addr = base /\ reports = {}

RejectSize ==
    /\ pc = "start" /\ rem # 0
    /\ pc' = "fail"
    /\ UNCHANGED <<inputs, i, failed, x30_guarded, addr, reports>>

\* Mutant: a trailing partial word is ignored.
Enter_anysize ==
    /\ pc = "start" /\ pc' = "loop"
    /\ UNCHANGED <<inputs, i, failed, x30_guarded, addr, reports>>

Enter ==
    /\ pc = "start" /\ rem = 0
    /\ pc' = "loop"
    /\ UNCHANGED <<inputs, i, failed, x30_guarded, addr, reports>>

\* Mutant: verrmin calls a reporter that is not there.
verrmin_unguarded(at) == failed' = TRUE /\ reports' = reports \cup {at}

\* verrmin: fail, and tell the reporter if there is one.
verrmin(at) == /\ failed' = TRUE
               /\ reports' = IF opts.err THEN reports \cup {at} ELSE reports

\* Mutant: v.addr is not advanced.
NextWord_sameaddr == /\ i' = i + 1 /\ addr' = addr
                     /\ pc' = IF failed' /\ ~opts.err THEN "fail" ELSE "loop"
                     /\ UNCHANGED inputs

\* The rest of the loop body once vchk has returned.
NextWord == /\ i' = i + 1
            /\ addr' = (addr + INSN_SIZE) % AddrSpan
            /\ pc' = IF failed' /\ ~opts.err THEN "fail" ELSE "loop"
            /\ UNCHANGED inputs

AtWord == pc = "loop" /\ i <= Len(code)

SkipHint ==
    /\ AtWord /\ code[i] \in HintWords
    /\ UNCHANGED <<failed, x30_guarded, reports>>
    /\ NextWord

UnknownInst ==
    /\ AtWord /\ code[i] \notin HintWords
    /\ da64_decode[code[i]].mnem = "UNKNOWN"
    /\ verrmin(addr) /\ UNCHANGED x30_guarded
    /\ NextWord

IllegalInst ==
    /\ AtWord /\ code[i] \notin HintWords
    /\ da64_decode[code[i]].mnem # "UNKNOWN" /\ ~okmnem(da64_decode[code[i]])
    /\ verrmin(addr) /\ UNCHANGED x30_guarded
    /\ NextWord

LdrGuard ==
    /\ AtWord /\ code[i] \notin HintWords
    /\ okmnem(da64_decode[code[i]]) /\ is_x30_ldr_guard(da64_decode[code[i]])
    /\ UNCHANGED <<failed, x30_guarded, reports>>
    /\ NextWord

\* chkbranch sees x30_guarded as it is before okmod updates it.
Check ==
    /\ AtWord /\ Checked(code[i]) /\ AssertsHold(da64_decode[code[i]])
    /\ IF Checks(opts, da64_decode[code[i]], x30_guarded)
       THEN UNCHANGED <<failed, reports>>
       ELSE verrmin(addr)
    /\ x30_guarded' = GuardAfter(da64_decode[code[i]], x30_guarded)
    /\ NextWord

\* Mutant: x30 may be left unguarded at the end.
Finish_unguarded ==
    /\ pc = "loop" /\ i > Len(code)
    /\ pc' = IF failed THEN "fail" ELSE "pass"
    /\ UNCHANGED <<inputs, i, failed, x30_guarded, addr, reports>>

Finish ==
    /\ pc = "loop" /\ i > Len(code)
    /\ IF x30_guarded THEN UNCHANGED <<failed, reports>> ELSE verrmin(EndOfCode)
    /\ pc' = IF failed' THEN "fail" ELSE "pass"
    /\ UNCHANGED <<inputs, i, x30_guarded, addr>>

Done == pc \in {"pass", "fail"}

Next == RejectSize \/ Enter \/ SkipHint \/ UnknownInst \/ IllegalInst \/ LdrGuard
        \/ Check \/ Finish

Spec == Init /\ [][Next]_vars

\* A single-threaded call that is left to run.
FairSpec == Spec /\ WF_vars(Next)

-----------------------------------------------------------------------------
(* Properties. *)

\* The variables have their types, the loop index stays within the code, and the
\* pass reports nothing unless the caller gave it a reporter.
TypeOK ==
    /\ [opts |-> opts, code |-> code, rem |-> rem, base |-> base] \in Calls
    /\ pc \in {"start", "loop", "pass", "fail"}
    /\ i \in 1..(Len(code) + 1)
    /\ failed \in BOOLEAN /\ x30_guarded \in BOOLEAN /\ addr \in Addr
    /\ reports \subseteq (Addr \cup {EndOfCode})
    /\ reports # {} => opts.err

\* The answer of lfiv_verify_arm64 is exactly the validity of the code, whether the
\* pass stopped at the first error (no reporter) or went on past it, updating
\* x30_guarded from instructions that had already failed.
VerdictExact == Done => (pc = "pass" <=> rem = 0 /\ Valid(opts, code))

\* In accepted code no control transfer is reached, on a straight line from the start of
\* the code, with a modified x30 that no guard has followed; the runtime call
\* blr x27 alone is exempt (chkbranch against the guard tracking of okmod).
BranchesGuarded ==
    pc = "pass" =>
      \A k \in 1..Len(code) :
        LET d == da64_decode[code[k]] IN
        code[k] \notin HintWords /\ d.group \in BranchGroups /\ ~RuntimeCall(d)
          => GuardedBefore(code, k)

\* With a reporter, the errors reported are those of the invalid words, each at the
\* address of its word: base + 4 * offset, wrapping as uintptr_t does.  A size that is not
\* a multiple of 4 is rejected without a report.
ReportsExact ==
    Done /\ opts.err =>
      reports =
        IF rem # 0 THEN {}
        ELSE {(base + INSN_SIZE * (k - 1)) % AddrSpan :
                k \in {k \in 1..Len(code) : ~ValidWord(opts, code[k], GuardedBefore(code, k))}}
             \cup (IF GuardedBefore(code, Len(code) + 1) THEN {} ELSE {EndOfCode})

\* No assert() of chkbranch or chksys fails: an instruction whose group or operands
\* they exclude has been turned down by its mnemonic before (base.instrs in vchk).
AssertsPass ==
    AtWord /\ Checked(code[i]) => AssertsHold(da64_decode[code[i]])

\* Code accepted for the full sandbox is accepted for the stores-only sandbox: okmemop
\* relaxes, and never tightens, what LFI_BOX_STORES asks.
BoxMonotone ==
    pc = "pass" => Valid([opts EXCEPT !.box = "STORES"], code)

\* In accepted code no instruction modifies the base register, the context register in
\* use, or -- but for the rebasing add -- the address register: neither as one of the
\* operands nmod names nor by the writeback of a memory operand (okmod and okmemop
\* divide the work, and each trusts the other for its half).
ReservedPreserved ==
    pc = "pass" =>
      \A k \in 1..Len(code) :
        LET d == da64_decode[code[k]] IN
        code[k] \notin HintWords =>
          /\ \A n \in nmod(d) :
               d.ops[n].type \in RegOps =>
                 /\ d.ops[n].reg # REG_BASE /\ ~ctxreg(opts, d.ops[n].reg)
                 /\ d.ops[n].reg = REG_ADDR => d.mnem = "ADD_EXT" /\ RebasesW(d)
          /\ \A n \in OpIndex :
               d.ops[n].type \in {"MEMSOFFPRE", "MEMSOFFPOST", "MEMREGPOST", "MEMINC"}
                 => d.ops[n].reg # REG_BASE /\ ~ctxreg(opts, d.ops[n].reg)

\* Accepted code, cut where x30 is guarded, consists of two valid
\* pieces: the verdict does not depend on how a caller cuts code into regions.
PassComposes ==
    pc = "pass" =>
      \A k \in 0..Len(code) :
        GuardedBefore(code, k + 1) =>
          Valid(opts, SubSeq(code, 1, k)) /\ Valid(opts, SubSeq(code, k + 1, Len(code)))

\* Without a reporter the pass gives up at the first invalid word and not before, so
\* what it has seen of rejected code is the shortest invalid prefix.
StopsAtFirstError ==
    pc = "fail" /\ ~opts.err /\ rem = 0 =>
      /\ \A k \in 1..(i - 2) : ValidWord(opts, code[k], GuardedBefore(code, k))
      /\ \/ i > 1 /\ ~ValidWord(opts, code[i - 1], GuardedBefore(code, i - 1))
         \/ i = Len(code) + 1 /\ ~GuardedBefore(code, i)

ValidCall(c) == c.rem = 0 /\ Valid(c.opts, c.code)

\* The pass implements the promise of lfiv_verify, and always answers.
Verdict == INSTANCE VerdictSpec WITH
             Truth   <- ValidCall,
             input   <- [opts |-> opts, code |-> code, rem |-> rem],
             verdict <- IF Done THEN pc ELSE "none"
ImplementsVerdict == Verdict!LiveSpec
=============================================================================
