------------------------ MODULE Arm64VerifierProofs ------------------------
(***************************************************************************)
(* Theorems about Arm64Verifier, for every decoder, every set of calls and *)
(* every width of the address.                                             *)
(***************************************************************************)
EXTENDS Arm64Verifier, Arm64CodeProofs

\* Every action of the pass over a word keeps the inputs and moves to the next word; the
\* guard and failure flags change as StepFlags says.
StepFlags ==
    /\ x30_guarded' = IF Guards(code[i]) THEN TRUE
                      ELSE IF Unguards(code[i]) THEN FALSE ELSE x30_guarded
    /\ failed' = (failed \/ ~ValidWord(opts, code[i], x30_guarded))

WordAction == SkipHint \/ UnknownInst \/ IllegalInst \/ LdrGuard \/ Check

\* The pass is well typed (the state of struct Verifier and the loop of
\* lfiv_verify_arm64), and reports only through a reporter.
THEOREM TypeCorrect == Spec => []TypeOK
<1>1. Init => TypeOK
  <2> SUFFICES ASSUME Init PROVE TypeOK
    OBVIOUS
  <2>1. PICK c \in Calls : opts = c.opts /\ code = c.code /\ rem = c.rem /\ base = c.base
    BY DEF Init
  <2>2. c \in Call
    BY <2>1, CallsAssumption
  <2>3. c = [opts |-> opts, code |-> code, rem |-> rem, base |-> base]
    BY <2>1, <2>2 DEF Call
  <2>4. code \in Seq(Word) /\ base \in Addr
    BY <2>1, <2>2 DEF Call
  <2>5. Len(code) \in Nat /\ 1 \in 1..(Len(code) + 1)
    BY <2>4
  <2> QED
    BY <2>1, <2>3, <2>4, <2>5 DEF Init, TypeOK
<1>2. TypeOK /\ [Next]_vars => TypeOK'
  <2> SUFFICES ASSUME TypeOK, [Next]_vars PROVE TypeOK'
    OBVIOUS
  <2>1. [opts |-> opts, code |-> code, rem |-> rem, base |-> base] \in Call
    BY CallsAssumption DEF TypeOK
  <2>2. opts \in Options /\ code \in Seq(Word) /\ base \in Addr
    BY <2>1 DEF Call
  <2>3. Len(code) \in Nat
    BY <2>2
  <2>4. CASE RejectSize \/ Enter \/ UNCHANGED vars
    BY <2>4 DEF RejectSize, Enter, TypeOK, vars, inputs
  <2>5. CASE WordAction
    <3>1. i \in 1..Len(code) /\ i' = i + 1
      BY <2>5, <2>3 DEF WordAction, SkipHint, UnknownInst, IllegalInst, LdrGuard, Check,
                  AtWord, NextWord, TypeOK
    <3>2. UNCHANGED inputs /\ pc' \in {"loop", "fail"}
      BY <2>5 DEF WordAction, SkipHint, UnknownInst, IllegalInst, LdrGuard, Check, NextWord
    <3>3. addr' \in Addr
      <4>1. addr' = (addr + INSN_SIZE) % AddrSpan /\ addr \in Int
        BY <2>5, SpanAssumption DEF WordAction, SkipHint, UnknownInst, IllegalInst,
                    LdrGuard, Check, NextWord, TypeOK, Addr
      <4> QED
        BY <4>1, SpanAssumption DEF Addr, INSN_SIZE
    <3>4. failed' \in BOOLEAN /\ reports' \subseteq (Addr \cup {EndOfCode})
            /\ (reports' # {} => opts.err)
      BY <2>5 DEF WordAction, SkipHint, UnknownInst, IllegalInst, LdrGuard, Check,
                  verrmin, TypeOK
    <3>5. x30_guarded' \in BOOLEAN
      BY <2>5, GuardAfterBoolean DEF WordAction, SkipHint, UnknownInst, IllegalInst,
                  LdrGuard, Check, TypeOK
    <3> QED
      BY <2>3, <3>1, <3>2, <3>3, <3>4, <3>5 DEF TypeOK, inputs
  <2>6. CASE Finish
    BY <2>6 DEF Finish, verrmin, TypeOK, inputs
  <2> QED
    BY <2>4, <2>5, <2>6 DEF Next, WordAction
<1> QED
  BY <1>1, <1>2, PTL DEF Spec

-----------------------------------------------------------------------------
(* The verdict. *)

\* One iteration of the loop of lfiv_verify_arm64.
LEMMA StepFlagsLemma ==
    ASSUME x30_guarded \in BOOLEAN, failed \in BOOLEAN, WordAction
    PROVE  StepFlags
<1> DEFINE d == da64_decode[code[i]]
<1>1. CASE SkipHint
  BY <1>1 DEF SkipHint, StepFlags, Guards, Unguards, Checked, ValidWord
<1>2. CASE UnknownInst
  BY <1>2 DEF UnknownInst, StepFlags, Guards, Unguards, Checked, ValidWord, verrmin
<1>3. CASE IllegalInst
  BY <1>3 DEF IllegalInst, StepFlags, Guards, Unguards, Checked, ValidWord, verrmin
<1>4. CASE LdrGuard
  <2>1. d.mnem # "UNKNOWN"
    BY <1>4 DEF LdrGuard, is_x30_ldr_guard
  <2> QED
    BY <1>4, <2>1 DEF LdrGuard, StepFlags, Guards, Unguards, Checked, ValidWord
<1>5. CASE Check
  <2>1. Checked(code[i]) /\ x30_guarded' = GuardAfter(d, x30_guarded)
    BY <1>5 DEF Check
  <2>2. SetsX30Guarded(d) \in BOOLEAN
    BY DEF SetsX30Guarded, is_x30_guard, RebasesW, basereg, rtsysreg
  <2>3. x30_guarded' = IF Guards(code[i]) THEN TRUE
                       ELSE IF Unguards(code[i]) THEN FALSE ELSE x30_guarded
    BY <2>1, <2>2 DEF GuardAfter, Guards, Unguards
  <2>4. ValidWord(opts, code[i], x30_guarded) <=> Checks(opts, d, x30_guarded)
    BY <2>1 DEF Checked, ValidWord
  <2>5. failed' = (failed \/ ~Checks(opts, d, x30_guarded))
    BY <1>5 DEF Check, verrmin
  <2> QED
    BY <2>3, <2>4, <2>5 DEF StepFlags
<1> QED
  BY <1>1, <1>2, <1>3, <1>4, <1>5 DEF WordAction

SeenValid(k) == \A j \in 1..(k - 1) : ValidWord(opts, code[j], GuardedBefore(code, j))

\* x30_guarded summarises the words seen, and failed their validity; the pass goes on
\* past a failure only with a reporter.
FlagsInv ==
    /\ pc \in {"start", "loop"} => /\ x30_guarded <=> GuardedBefore(code, i)
                                   /\ failed <=> ~SeenValid(i)
    /\ pc = "start" => i = 1
    /\ pc = "loop" => rem = 0 /\ (failed => opts.err)
    /\ VerdictExact

LEMMA FlagsInitially == Init => FlagsInv
  BY DEF Init, FlagsInv, GuardedBefore, SeenValid, VerdictExact, Done

LEMMA FlagsPreserved == TypeOK /\ FlagsInv /\ [Next]_vars => FlagsInv'
<1> SUFFICES ASSUME TypeOK, FlagsInv, [Next]_vars PROVE FlagsInv'
  OBVIOUS
<1>1. code \in Seq(Word) /\ Len(code) \in Nat /\ i \in Nat \ {0}
  BY CallsAssumption DEF TypeOK, Call
<1>2. CASE UNCHANGED vars
  BY <1>2 DEF vars, FlagsInv, GuardedBefore, SeenValid, VerdictExact, Done, ValidWord, Valid
<1>3. CASE RejectSize
  BY <1>3 DEF RejectSize, inputs, FlagsInv, VerdictExact, Done
<1>4. CASE Enter
  <2>1. /\ pc = "start" /\ pc' = "loop" /\ rem = 0
        /\ UNCHANGED <<opts, code, rem, i, failed, x30_guarded>>
    BY <1>4 DEF Enter, inputs
  <2>2. i = 1 /\ ~failed
    BY <2>1 DEF FlagsInv, SeenValid
  <2>3. (GuardedBefore(code, i))' = GuardedBefore(code, i) /\ SeenValid(i)' = SeenValid(i)
    BY <2>1 DEF GuardedBefore, SeenValid
  <2> QED
    BY <2>1, <2>2, <2>3 DEF FlagsInv, VerdictExact, Done
<1>5. CASE WordAction
  <2>1. StepFlags
    BY <1>5, StepFlagsLemma DEF TypeOK
  <2>2. /\ pc = "loop" /\ i <= Len(code) /\ i' = i + 1 /\ UNCHANGED <<code, opts, rem>>
        /\ pc' = IF failed' /\ ~opts.err THEN "fail" ELSE "loop"
    BY <1>5 DEF WordAction, SkipHint, UnknownInst, IllegalInst, LdrGuard, Check, AtWord,
                NextWord, inputs
  <2>3. x30_guarded' <=> GuardedBefore(code, i + 1)
    BY <1>1, <2>1, <2>2, GuardedBeforeNext DEF StepFlags, FlagsInv
  <2>4. SeenValid(i + 1) <=> SeenValid(i) /\ ValidWord(opts, code[i], GuardedBefore(code, i))
    BY <1>1 DEF SeenValid
  <2>5. failed' <=> ~SeenValid(i + 1)
    <3>1. x30_guarded = GuardedBefore(code, i)
      BY <2>2 DEF TypeOK, FlagsInv, GuardedBefore
    <3> QED
      BY <2>1, <2>2, <2>4, <3>1 DEF StepFlags, FlagsInv
  <2>6. (GuardedBefore(code, i))' <=> GuardedBefore(code, i + 1)
    BY <2>2 DEF GuardedBefore
  <2>7. (SeenValid(i))' <=> SeenValid(i + 1)
    BY <2>2 DEF SeenValid, GuardedBefore
  <2>8. pc' = "fail" => ~Valid(opts, code)
    BY <1>1, <2>2, <2>5 DEF SeenValid, Valid
  <2>9. Valid(opts, code)' <=> Valid(opts, code)
    BY <2>2 DEF Valid, GuardedBefore
  <2> QED
    BY <2>2, <2>3, <2>5, <2>6, <2>7, <2>8, <2>9 DEF FlagsInv, VerdictExact, Done
<1>6. CASE Finish
  <2>1. i = Len(code) + 1 /\ pc = "loop" /\ rem = 0
    BY <1>1, <1>6 DEF Finish, TypeOK, FlagsInv
  <2>2. Valid(opts, code) <=> ~failed /\ x30_guarded
    BY <1>1, <2>1 DEF Valid, FlagsInv, SeenValid
  <2>3. UNCHANGED <<code, opts, rem>> /\ pc' = IF failed \/ ~x30_guarded THEN "fail" ELSE "pass"
    BY <1>6 DEF Finish, verrmin, inputs, TypeOK
  <2>4. Valid(opts, code)' <=> Valid(opts, code)
    BY <2>3 DEF Valid, GuardedBefore
  <2> QED
    BY <2>1, <2>2, <2>3, <2>4 DEF FlagsInv, VerdictExact, Done
<1> QED
  BY <1>2, <1>3, <1>4, <1>5, <1>6 DEF Next, WordAction

\* lfiv_verify_arm64 accepts exactly the valid code, with or without a reporter.
THEOREM VerdictCorrect == Spec => []VerdictExact
<1>1. FlagsInv => VerdictExact
  BY DEF FlagsInv
<1> QED
  BY <1>1, FlagsInitially, FlagsPreserved, TypeCorrect, PTL DEF Spec

-----------------------------------------------------------------------------
(* What follows from the verdict. *)

\* The pass implements VerdictSpec: it answers once, with the validity of the code.
THEOREM ImplementsVerdictSafely == Spec => Verdict!Spec
<1>1. Init => Verdict!Init
  BY DEF Init, Verdict!Init, Done
<1>2. TypeOK /\ FlagsInv /\ FlagsInv' /\ [Next]_vars => [Verdict!Decide]_(Verdict!vars)
  <2> SUFFICES ASSUME TypeOK, FlagsInv, FlagsInv', [Next]_vars
               PROVE  [Verdict!Decide]_(Verdict!vars)
    OBVIOUS
  <2>1. UNCHANGED <<opts, code, rem>>
    BY DEF Next, vars, inputs, RejectSize, Enter, SkipHint, UnknownInst, IllegalInst, LdrGuard,
           Check, Finish, NextWord
  <2>2. /\ [opts |-> opts, code |-> code, rem |-> rem]' = [opts |-> opts, code |-> code, rem |-> rem]
        /\ (rem = 0 /\ Valid(opts, code))' <=> ValidCall([opts |-> opts, code |-> code, rem |-> rem])
    BY <2>1 DEF ValidCall, Valid, GuardedBefore
  <2>3. CASE Done' /\ ~Done
    BY <2>2, <2>3 DEF FlagsInv, VerdictExact, Done, Verdict!Decide
  <2>4. CASE ~Done' \/ Done
    <3>1. Done => UNCHANGED pc
      BY DEF Done, Next, vars, RejectSize, Enter, SkipHint, UnknownInst, IllegalInst, LdrGuard,
             Check, Finish, AtWord
    <3> QED
      BY <2>2, <2>4, <3>1 DEF Done, Verdict!vars
  <2> QED
    BY <2>3, <2>4
<1>3. Spec => []FlagsInv
  BY FlagsInitially, FlagsPreserved, TypeCorrect, PTL DEF Spec
<1> QED
  BY <1>1, <1>2, <1>3, TypeCorrect, PTL DEF Spec, Verdict!Spec

\* No assertion of chkbranch or chksys can fail: of the instructions of their groups the
\* mnemonic table lets through only those the assertions expect.
THEOREM AssertsNeverFail == Spec => []AssertsPass
<1>1. TypeOK => AssertsPass
  <2> SUFFICES ASSUME TypeOK, AtWord, Checked(code[i]) PROVE AssertsHold(da64_decode[code[i]])
    BY DEF AssertsPass
  <2> DEFINE d == da64_decode[code[i]]
  <2>1. code[i] \in Word
    BY CallsAssumption DEF TypeOK, Call, AtWord
  <2>2. d.group = "BRANCHREG" => d.mnem \in IndirectBranches \cup {"RETAA", "RETAB"}
    BY <2>1, DecoderAssumption DEF Checked, okmnem, IndirectBranches, PairLoads, PlainStores
  <2> QED
    BY <2>1, <2>2, DecoderAssumption DEF AssertsHold
<1> QED
  BY <1>1, TypeCorrect, PTL

\* What FlagsInv says of an answer, for the consequences below.
LEMMA PassMeansValid == Spec => [](pc = "pass" => rem = 0 /\ Valid(opts, code))
<1>1. VerdictExact => (pc = "pass" => rem = 0 /\ Valid(opts, code))
  BY DEF VerdictExact, Done
<1> QED
  BY <1>1, VerdictCorrect, PTL

\* Accepted code never transfers control with x30 unguarded, blr x27 apart.
THEOREM BranchesAreGuarded == Spec => []BranchesGuarded
<1>1. TypeOK /\ (pc = "pass" => rem = 0 /\ Valid(opts, code)) => BranchesGuarded
  <2> SUFFICES ASSUME TypeOK, Valid(opts, code), NEW k \in 1..Len(code),
                      code[k] \notin HintWords, da64_decode[code[k]].group \in BranchGroups,
                      ~RuntimeCall(da64_decode[code[k]])
               PROVE  GuardedBefore(code, k)
    BY DEF BranchesGuarded
  <2> DEFINE d == da64_decode[code[k]]
  <2>1. code[k] \in Word
    BY CallsAssumption DEF TypeOK, Call
  <2>2. ~is_x30_ldr_guard(d)
    BY <2>1, DecoderAssumption DEF is_x30_ldr_guard
  <2>3. chkbranch(d, GuardedBefore(code, k))
    BY <2>2 DEF Valid, ValidWord, Checks
  <2> QED
    BY <2>3 DEF chkbranch
<1> QED
  BY <1>1, TypeCorrect, PassMeansValid, PTL

\* What lfiv_verify_arm64 accepts for the full sandbox it accepts for stores-only.
THEOREM BoxIsMonotone == Spec => []BoxMonotone
<1>1. TypeOK /\ (pc = "pass" => rem = 0 /\ Valid(opts, code)) => BoxMonotone
  <2>1. TypeOK => opts \in Options
    BY CallsAssumption DEF TypeOK, Call
  <2> QED
    BY <2>1, ValidStores DEF BoxMonotone
<1> QED
  BY <1>1, TypeCorrect, PassMeansValid, PTL

-----------------------------------------------------------------------------
(* Verifying code in pieces. *)

\* A caller may verify accepted code segment by segment.
THEOREM PassIsCompositional == Spec => []PassComposes
<1>1. TypeOK /\ (pc = "pass" => rem = 0 /\ Valid(opts, code)) => PassComposes
  <2>1. TypeOK => code \in Seq(Word)
    BY CallsAssumption DEF TypeOK, Call
  <2> QED
    BY <2>1, ValidComposes DEF PassComposes
<1> QED
  BY <1>1, TypeCorrect, PassMeansValid, PTL

-----------------------------------------------------------------------------
(* Where the pass stops, and what it reports. *)

\* Without a reporter the pass gives up at the first invalid word and not before.
THEOREM StopsCorrect == Spec => []StopsAtFirstError
<1>1. Init => StopsAtFirstError
  BY DEF Init, StopsAtFirstError
<1>2. TypeOK /\ FlagsInv /\ FlagsInv' /\ StopsAtFirstError /\ [Next]_vars => StopsAtFirstError'
  <2> SUFFICES ASSUME TypeOK, FlagsInv, StopsAtFirstError, [Next]_vars,
                      pc' = "fail", ~opts'.err, rem' = 0
               PROVE  /\ \A k \in 1..(i' - 2) :
                           ValidWord(opts', code'[k], GuardedBefore(code', k))
                      /\ \/ /\ i' > 1
                            /\ ~ValidWord(opts', code'[i' - 1], GuardedBefore(code', i' - 1))
                         \/ i' = Len(code') + 1 /\ ~GuardedBefore(code', i')
    BY DEF StopsAtFirstError, ValidWord, GuardedBefore
  <2>1. Len(code) \in Nat /\ i \in 1..(Len(code) + 1)
    BY CallsAssumption DEF TypeOK, Call
  <2>2. CASE UNCHANGED vars
    BY <2>2 DEF vars, StopsAtFirstError
  <2>3. CASE RejectSize \/ Enter
    BY <2>3 DEF RejectSize, Enter, inputs
  <2>4. CASE WordAction
    <3>1. StepFlags
      BY <2>4, StepFlagsLemma DEF TypeOK
    <3>2. pc = "loop" /\ i' = i + 1 /\ UNCHANGED <<opts, code>> /\ failed'
      BY <2>4 DEF WordAction, SkipHint, UnknownInst, IllegalInst, LdrGuard, Check, AtWord,
                  NextWord, inputs
    <3>3. SeenValid(i) /\ (x30_guarded <=> GuardedBefore(code, i)) /\ ~failed
      BY <3>2 DEF FlagsInv
    <3>4. x30_guarded = GuardedBefore(code, i)
      BY <3>3 DEF TypeOK, GuardedBefore
    <3>5. ~ValidWord(opts, code[i], GuardedBefore(code, i))
      BY <3>1, <3>2, <3>3, <3>4 DEF StepFlags
    <3>6. i' - 2 = i - 1 /\ i' - 1 = i /\ i' > 1
      BY <2>1, <3>2
    <3> QED
      BY <3>2, <3>3, <3>5, <3>6 DEF SeenValid
  <2>5. CASE Finish
    <3>1. pc = "loop" /\ i = Len(code) + 1 /\ UNCHANGED <<opts, code, i>>
          /\ (failed \/ ~x30_guarded)
      BY <2>1, <2>5 DEF Finish, inputs, verrmin, TypeOK
    <3>2. SeenValid(i) /\ ~GuardedBefore(code, i)
      BY <3>1 DEF FlagsInv
    <3>3. \A k \in 1..(i - 2) : k \in 1..(i - 1)
      BY <2>1
    <3> QED
      BY <3>1, <3>2, <3>3 DEF SeenValid
  <2> QED
    BY <2>2, <2>3, <2>4, <2>5 DEF Next, WordAction
<1>3. Spec => []FlagsInv
  BY FlagsInitially, FlagsPreserved, TypeCorrect, PTL DEF Spec
<1> QED
  BY <1>1, <1>2, <1>3, TypeCorrect, PTL DEF Spec

LEMMA SpanDivMod ==
    ASSUME NEW a \in Nat
    PROVE  /\ a \div AddrSpan \in Nat /\ a % AddrSpan \in 0..(AddrSpan - 1)
           /\ a = AddrSpan * (a \div AddrSpan) + (a % AddrSpan)
  BY SpanAssumption

LEMMA SpanModUnique ==
    ASSUME NEW q \in Nat, NEW r \in 0..(AddrSpan - 1)
    PROVE  (AddrSpan * q + r) % AddrSpan = r
<1> DEFINE a == AddrSpan * q + r
<1>1. a \in Nat
  BY SpanAssumption
<1>2. /\ a \div AddrSpan \in Nat /\ a % AddrSpan \in 0..(AddrSpan - 1)
      /\ a = AddrSpan * (a \div AddrSpan) + (a % AddrSpan)
  BY <1>1, SpanDivMod
<1>3. ASSUME NEW d \in Nat, NEW e \in 0..(AddrSpan - 1), AddrSpan * q + r = AddrSpan * d + e
      PROVE  e = r
  BY <1>3, SpanAssumption
<1> QED
  BY <1>2, <1>3

\* Advancing an address that has wrapped is the same as wrapping the advanced one.
LEMMA AdvanceWraps ==
    ASSUME NEW a \in Nat
    PROVE  ((a % AddrSpan) + INSN_SIZE) % AddrSpan = (a + INSN_SIZE) % AddrSpan
<1> DEFINE q == a \div AddrSpan  r == a % AddrSpan
           d == (r + INSN_SIZE) \div AddrSpan  e == (r + INSN_SIZE) % AddrSpan
<1>1. q \in Nat /\ r \in 0..(AddrSpan - 1) /\ a = AddrSpan * q + r
  BY SpanDivMod
<1>2. r + INSN_SIZE \in Nat
  BY <1>1, SpanAssumption DEF INSN_SIZE
<1>3. d \in Nat /\ e \in 0..(AddrSpan - 1) /\ r + INSN_SIZE = AddrSpan * d + e
  BY <1>2, SpanDivMod
<1> HIDE DEF q, r, d, e
<1>4. a + INSN_SIZE = AddrSpan * (q + d) + e
  BY <1>1, <1>3, SpanAssumption DEF INSN_SIZE
<1>5. (AddrSpan * (q + d) + e) % AddrSpan = e
  BY <1>1, <1>3, SpanModUnique
<1> QED
  BY <1>4, <1>5 DEF e, r

\* The address of word k, and the words before word n that are not valid.
AddrOf(k) == (base + INSN_SIZE * (k - 1)) % AddrSpan
InvalidBefore(n) ==
    {k \in 1..(n - 1) : ~ValidWord(opts, code[k], GuardedBefore(code, k))}

\* v.addr is the address of the word the loop is at, and the invalid ones so far have
\* been reported.
ReportsInv ==
    /\ pc = "start" => reports = {}
    /\ pc \in {"start", "loop"} => addr = AddrOf(i)
    /\ pc \in {"start", "loop"} /\ opts.err => reports = {AddrOf(k) : k \in InvalidBefore(i)}
    /\ ReportsExact

\* One vchk reports the word exactly if it is not valid.
LEMMA StepReports ==
    ASSUME TypeOK, WordAction, opts.err
    PROVE  reports' = IF ValidWord(opts, code[i], x30_guarded) THEN reports
                      ELSE reports \cup {addr}
<1> DEFINE d == da64_decode[code[i]]
<1>1. CASE SkipHint
  BY <1>1 DEF SkipHint, ValidWord
<1>2. CASE UnknownInst
  BY <1>2 DEF UnknownInst, ValidWord, verrmin
<1>3. CASE IllegalInst
  BY <1>3 DEF IllegalInst, ValidWord, verrmin
<1>4. CASE LdrGuard
  BY <1>4 DEF LdrGuard, ValidWord, is_x30_ldr_guard
<1>5. CASE Check
  <2>1. ValidWord(opts, code[i], x30_guarded) <=> Checks(opts, d, x30_guarded)
    BY <1>5 DEF Check, Checked, ValidWord
  <2> QED
    BY <1>5, <2>1 DEF Check, verrmin
<1> QED
  BY <1>1, <1>2, <1>3, <1>4, <1>5 DEF WordAction

LEMMA ReportsPreserved ==
    TypeOK /\ FlagsInv /\ ReportsInv /\ [Next]_vars => ReportsInv'
<1> SUFFICES ASSUME TypeOK, FlagsInv, ReportsInv, [Next]_vars PROVE ReportsInv'
  OBVIOUS
<1>1. /\ Len(code) \in Nat /\ i \in 1..(Len(code) + 1) /\ base \in Nat
      /\ opts \in Options
  BY CallsAssumption DEF TypeOK, Call, Addr
<1>2. CASE UNCHANGED vars
  <2>1. /\ \A k : AddrOf(k)' = AddrOf(k) /\ GuardedBefore(code, k)' = GuardedBefore(code, k)
        /\ \A k : InvalidBefore(k)' = InvalidBefore(k)
    BY <1>2 DEF vars, AddrOf, InvalidBefore, ValidWord, GuardedBefore
  <2> QED
    BY <1>2, <2>1 DEF vars, ReportsInv, ReportsExact, Done
<1>3. CASE RejectSize
  <2>1. /\ reports' = {} /\ rem' # 0 /\ pc' = "fail"
    BY <1>3 DEF RejectSize, inputs, ReportsInv
  <2> QED
    BY <2>1 DEF ReportsInv, ReportsExact
<1>4. CASE Enter
  BY <1>4 DEF Enter, inputs, ReportsInv, ReportsExact, AddrOf, InvalidBefore, Done, ValidWord,
              GuardedBefore
<1>5. CASE WordAction
  <2>1. /\ pc = "loop" /\ i \in 1..Len(code) /\ i' = i + 1
        /\ UNCHANGED <<opts, code, rem, base>>
        /\ addr' = (addr + INSN_SIZE) % AddrSpan
        /\ pc' = IF failed' /\ ~opts.err THEN "fail" ELSE "loop"
    BY <1>1, <1>5 DEF WordAction, SkipHint, UnknownInst, IllegalInst, LdrGuard, Check, AtWord,
                      NextWord, inputs
  <2>2. addr = AddrOf(i)
    BY <2>1 DEF ReportsInv
  <2>3. addr' = AddrOf(i + 1)
    <3> DEFINE a == base + INSN_SIZE * (i - 1)
    <3>1. a \in Nat /\ a + INSN_SIZE = base + INSN_SIZE * ((i + 1) - 1)
      BY <1>1 DEF INSN_SIZE
    <3>2. addr = a % AddrSpan
      BY <2>2 DEF AddrOf
    <3> HIDE DEF a
    <3>3. addr' = (a + INSN_SIZE) % AddrSpan
      BY <2>1, <3>1, <3>2, AdvanceWraps
    <3> QED
      BY <3>1, <3>3 DEF AddrOf
  <2>4. AddrOf(i)' = AddrOf(i + 1) /\ InvalidBefore(i)' = InvalidBefore(i + 1)
    BY <2>1 DEF AddrOf, InvalidBefore, ValidWord, GuardedBefore
  <2>5. ASSUME opts.err PROVE reports' = {AddrOf(k) : k \in InvalidBefore(i + 1)}
    <3>1. x30_guarded = GuardedBefore(code, i)
      BY <2>1 DEF TypeOK, FlagsInv, GuardedBefore
    <3>2. reports' = IF ValidWord(opts, code[i], GuardedBefore(code, i)) THEN reports
                     ELSE reports \cup {addr}
      BY <1>5, <2>5, <3>1, StepReports
    <3>3. InvalidBefore(i + 1) = InvalidBefore(i) \cup
            (IF ValidWord(opts, code[i], GuardedBefore(code, i)) THEN {} ELSE {i})
      BY <1>1 DEF InvalidBefore
    <3>4. reports = {AddrOf(k) : k \in InvalidBefore(i)}
      BY <2>1, <2>5 DEF ReportsInv
    <3> HIDE DEF InvalidBefore
    <3> QED
      BY <2>2, <3>2, <3>3, <3>4
  <2>6. (\A k : AddrOf(k)' = AddrOf(k))
    BY <2>1 DEF AddrOf
  <2>7. ReportsExact'
    BY <2>1 DEF ReportsExact, Done
  <2> QED
    BY <2>1, <2>3, <2>4, <2>5, <2>6, <2>7 DEF ReportsInv
<1>6. CASE Finish
  <2>1. /\ pc = "loop" /\ i = Len(code) + 1 /\ Done' /\ rem = 0 /\ pc' # "start"
        /\ UNCHANGED <<opts, code, rem, base>>
        /\ reports' = IF x30_guarded \/ ~opts.err THEN reports ELSE reports \cup {EndOfCode}
    BY <1>1, <1>6 DEF Finish, inputs, verrmin, Done, FlagsInv
  <2>2. x30_guarded <=> GuardedBefore(code, Len(code) + 1)
    BY <2>1 DEF FlagsInv
  <2>3. InvalidBefore(i) =
          {k \in 1..Len(code) : ~ValidWord(opts, code[k], GuardedBefore(code, k))}
    BY <1>1, <2>1 DEF InvalidBefore
  <2>4. ASSUME opts.err
        PROVE  reports' =
          {AddrOf(k) : k \in {k \in 1..Len(code) :
                                ~ValidWord(opts, code[k], GuardedBefore(code, k))}}
            \cup (IF GuardedBefore(code, Len(code) + 1) THEN {} ELSE {EndOfCode})
    BY <2>1, <2>2, <2>3, <2>4 DEF ReportsInv
  <2>5. ReportsExact'
    BY <2>1, <2>4 DEF ReportsExact, AddrOf, ValidWord, GuardedBefore
  <2> QED
    BY <2>1, <2>5 DEF ReportsInv, Done
<1> QED
  BY <1>2, <1>3, <1>4, <1>5, <1>6 DEF Next, WordAction

\* With a reporter, the errors reported are those of the invalid words, each at its address.
THEOREM ReportsCorrect == Spec => []ReportsExact
<1>1. TypeOK /\ Init => ReportsInv
  <2> SUFFICES ASSUME TypeOK, Init PROVE ReportsInv
    OBVIOUS
  <2>1. base \in Addr
    BY CallsAssumption DEF TypeOK, Call
  <2>2. i = 1 /\ addr = base /\ reports = {} /\ pc = "start"
    BY DEF Init
  <2>3. base = AddrOf(1)
    BY <2>1, SpanAssumption DEF AddrOf, Addr, INSN_SIZE
  <2>4. InvalidBefore(1) = {}
    BY DEF InvalidBefore
  <2> QED
    BY <2>2, <2>3, <2>4 DEF ReportsInv, ReportsExact, Done
<1>2. Spec => []FlagsInv
  BY FlagsInitially, FlagsPreserved, TypeCorrect, PTL DEF Spec
<1>3. ReportsInv => ReportsExact
  BY DEF ReportsInv
<1> QED
  BY <1>1, <1>2, <1>3, ReportsPreserved, TypeCorrect, PTL DEF Spec

-----------------------------------------------------------------------------
(* Reserved registers. *)

\* In accepted code no operand that is modified and no writeback names the base register, the
\* context register in use or, but for the rebasing add, the address register.
THEOREM ReservedCorrect == Spec => []ReservedPreserved
<1>1. TypeOK /\ (pc = "pass" => rem = 0 /\ Valid(opts, code)) => ReservedPreserved
  <2> SUFFICES ASSUME TypeOK, Valid(opts, code), NEW k \in 1..Len(code), code[k] \notin HintWords
               PROVE  LET d == da64_decode[code[k]] IN
                      /\ \A n \in nmod(d) :
                           d.ops[n].type \in RegOps =>
                             /\ d.ops[n].reg # REG_BASE /\ ~ctxreg(opts, d.ops[n].reg)
                             /\ d.ops[n].reg = REG_ADDR => d.mnem = "ADD_EXT" /\ RebasesW(d)
                      /\ \A n \in OpIndex :
                           d.ops[n].type \in {"MEMSOFFPRE", "MEMSOFFPOST", "MEMREGPOST", "MEMINC"}
                             => d.ops[n].reg # REG_BASE /\ ~ctxreg(opts, d.ops[n].reg)
    BY DEF ReservedPreserved
  <2> DEFINE d == da64_decode[code[k]]
  <2>1. code[k] \in Word
    BY CallsAssumption DEF TypeOK, Call
  <2>2. is_x30_ldr_guard(d) \/ Checks(opts, d, GuardedBefore(code, k))
    BY DEF Valid, ValidWord
  <2>3. nmod(d) \subseteq {0, 1}
    BY DEF nmod
  <2>4. CASE is_x30_ldr_guard(d)
    <3>1. d.mnem = "LDR_IMM" /\ d.ops[0].reg = 31 /\ d.ops[1].type = "MEMUOFF"
      BY <2>4 DEF is_x30_ldr_guard
    <3>2. \A n \in OpIndex : d.ops[n].type \notin
            {"MEMSOFFPRE", "MEMSOFFPOST", "MEMREGPOST", "MEMINC"}
      BY <2>1, <3>1, DecoderAssumption
    <3>3. \A n \in nmod(d) : d.ops[n].type \in RegOps => d.ops[n].reg = 31
      BY <2>3, <3>1 DEF RegOps
    <3> QED
      BY <3>2, <3>3 DEF REG_BASE, REG_ADDR, REG_CTX, ctxreg
  <2>5. CASE Checks(opts, d, GuardedBefore(code, k))
    <3>1. ASSUME NEW n \in nmod(d), d.ops[n].type \in RegOps
          PROVE  /\ d.ops[n].reg # REG_BASE /\ ~ctxreg(opts, d.ops[n].reg)
                 /\ d.ops[n].reg = REG_ADDR => d.mnem = "ADD_EXT" /\ RebasesW(d)
      <4>1. okmod(opts, d, d.ops[n])
        BY <2>5 DEF Checks
      <4> HIDE DEF d
      <4>2. ~fixedreg(opts, d.ops[n].reg)
        BY <3>1, <4>1 DEF okmod
      <4>3. d.ops[n].reg = REG_ADDR => d.mnem = "ADD_EXT" /\ RebasesW(d)
        BY <3>1, <4>1 DEF okmod, addrreg, cfreg, retreg, REG_ADDR, REG_RET
      <4> QED
        BY <4>2, <4>3 DEF fixedreg
    <3>2. ASSUME NEW n \in OpIndex, d.ops[n].type \in
                   {"MEMSOFFPRE", "MEMSOFFPOST", "MEMREGPOST", "MEMINC"}
          PROVE  d.ops[n].reg # REG_BASE /\ ~ctxreg(opts, d.ops[n].reg)
      <4>1. okmemop(opts, d.ops[n], isload(d))
        BY <2>5 DEF Checks, chkmemops
      <4> HIDE DEF d
      <4>2. ~fixedreg(opts, d.ops[n].reg) \/ ldstreg(d.ops[n].reg, TRUE)
        BY <3>2, <4>1 DEF okmemop
      <4> QED
        BY <4>2 DEF fixedreg, ldstreg, ctxreg, REG_ADDR, REG_BASE, REG_CTX
    <3> QED
      BY <3>1, <3>2
  <2> QED
    BY <2>2, <2>4, <2>5
<1> QED
  BY <1>1, TypeCorrect, PassMeansValid, PTL
=============================================================================
