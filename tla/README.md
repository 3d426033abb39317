# A TLA+ model of the LFI verifier

`lfi-verifier` decides whether a buffer of machine code may run inside an LFI sandbox. Its library
(`liblfiv.a`) is a handful of C functions that each take a code buffer, its size, the address it
will be loaded at and some options, make one pass over the buffer, and answer `true` or `false`.
This directory holds a TLA+ model of it, the TLC runs that check the model on small instances, and
TLAPS proofs of what matters most for every instance.

## 1. The system

| Component | Source | State it keeps | Operations | What makes it correct |
|---|---|---|---|---|
| public API | `src/include/lfiv.h` | options, a `verify` function pointer | `lfiv_verify` | answers once, with the truth about the code |
| arm64 checks | `src/arm64/verify.c`, `base.instrs`, `loads.instrs` | none: predicates over a decoded instruction | `chkbranch`, `chksys`, `chkmemops`, `okmod`, `chkwriteback`, ... | no instruction that passes writes a reserved register, or reaches memory outside the allowed forms |
| arm64 pass | `src/arm64/verify.c` | `struct Verifier`: `failed`, `addr`, `x30_guarded` | `vchk` on every word, the loop of `lfiv_verify_arm64` | verdict = validity; no branch with x30 unguarded; the verdict does not depend on the reporter |
| x64 checks | `src/x64/verify.c`, `base.instrs` | none: predicates over a decoded instruction | `chkbranch`, `chkmem`, `chkmod`, `okmnem` | as on arm64, plus: every direct target is bundle-aligned |
| x64 macro-instructions | `src/x64/macroinst.c` | none: look-ahead over the bytes that follow | eight recognisers | a recognised group is consumed as one unit, so that no arrival point is inside it |
| x64 pass | `src/x64/verify.c` | `struct Verifier`: `failed`, `abort`, `addr`; the two counters of instructions | BDD pre-pass, `vchkbundle`, the loop of `lfiv_verify_x64` | verdict = validity; every bundle start and branch target is the start of a unit |
| x64 BDD | `src/x64/bdd.c`, `x86-all.bdd.*` (generated) | a constant node table | `lookup` | terminates, reads no byte it was not given, gives the length of a complete instruction or none |
| riscv64 | `src/riscv64/verify.c` | none | `lfiv_verify_riscv64` returns `true` | a stub |
| command-line tool | `tools/lfi-verify/main.c` | `args`, `opts`, the verifier's `verify` pointer carried from file to file, open files, the segment's memory | option parsing, one `verify` per file | exit status 0 iff every executable segment of every file was accepted; one file never changes another's outcome |
| execution | external: the CPU and the runtime the checks are written for | program counter, registers | one step per kind of instruction | accepted code stays in the sandbox |
| decoders | `disarm` and `fadec` (subprojects, not in the tree) | none | `da64_decode`, `fd_decode` | external |

How they interact: the tool picks the verifier from the ELF header, stores it in `v->verify` and
calls it once per executable `PT_LOAD` segment; the verifiers call the decoders, and call back
`opts->err` zero or more times before they return. There are no threads. The x64 verifier runs two
decoders over the same bytes (the BDD, which only knows lengths, and fadec) and relates them by one
assertion.

What is hard here is not concurrency. It is that each verifier is a *long-lived scan with a little
state*, where the verdict on one instruction depends on what came before it, and where the error
paths carry on: with a reporter installed the scan continues after a failure with whatever state the
failing step left. Section 6 lists the hazards.

## 2. Modules

| Module | Role |
|---|---|
| `VerdictSpec` | abstract: one answer, the truth about the input; what is true of an input is its parameter |
| `Arm64Inst` | the checks of one arm64 instruction (pure operators) |
| `Arm64Code` | words, the decoder, what `vchk` makes of a word, and which code is valid, without running the pass |
| `Arm64CodeProofs` | theorems about valid code: what it composes to, what the two sandboxes have in common |
| `Arm64Verifier` | `lfiv_verify_arm64` as a state machine, the properties |
| `Arm64VerifierProofs` | theorems about it |
| `Arm64Exec` | a CPU executing several regions of valid code, entered from the runtime |
| `Arm64ExecProofs` | theorems about it |
| `Arm64Words`, `MCArm64`, `MCArm64Exec` | decoded words for TLC; the calls and programs of the runs |
| `X64Inst` | the checks of one x64 instruction (pure operators) |
| `X64Macro` | the eight recognisers of `macroinst.c` (pure operators over the decoded code) |
| `X64MacroProofs` | what the recognisers accept, how many instructions and bytes, and which bytes they look at |
| `X64Verifier` | `lfiv_verify_x64` as a state machine, validity without running it, the properties |
| `X64VerifierProofs` | theorems about it |
| `X64Exec` | the passes composed with a CPU that executes the code once they have accepted it |
| `X64ExecProofs` | theorems about it |
| `X64Table` | the decision diagram of instruction lengths, and what it means for a sequence of bytes |
| `LengthSpec` | abstract: the code is taken apart into complete instructions of the table |
| `X64Bdd` | the first pass of `lfiv_verify_x64` down to `lookup`, the recursion over the table, and `insn_buf` |
| `X64BddProofs` | theorems about it |
| `X64Code`, `MCX64`, `MCX64Suite`, `MCX64Exec`, `MCX64Bdd` | decoded instructions for TLC and how a sequence of them is laid out; the calls, tables and code of the runs |
| `BatchSpec` | abstract: every file is judged once, in order, on its merits, and the status tells whether all passed |
| `LfiVerifyTool` | `main` and `verify` of the tool |
| `LfiVerifyToolProofs` | theorems about it |
| `MCTool` | the command lines of the run |

`Arm64Verifier` and `X64Verifier` are shown to implement `VerdictSpec`, `X64Bdd` to implement
`LengthSpec`, `LfiVerifyTool` to implement `BatchSpec`. `X64Exec` runs the verifier's own actions
(`Verify == Next`) and executes nothing before its answer. `Arm64Exec` starts from `Valid`, which
`VerdictCorrect` proves to be what `lfiv_verify_arm64` accepts.

### How the model corresponds to the code

**Arm64.** A word of code is an element of `Word`, and what `da64_decode` returns for it is the
constant function `da64_decode`: the verifier sees nothing else of a word, apart from the hint words
it lets through by value (`HintWords`). `opts`, `code`, `rem` (= `size % 4`) and `base` are the
arguments; `failed`, `x30_guarded` and `addr` are the fields of `struct Verifier`; `i` is the loop
index; `reports` collects the addresses `opts->err` was called for. `Enter` and `RejectSize` are the
test on the size, `SkipHint`, `UnknownInst`, `IllegalInst`, `LdrGuard` and `Check` are the ways one
call of `vchk` may go, each with the rest of the loop body (`NextWord`: advance, and leave if
something failed and there is no reporter), and `Finish` is the check of x30 after the loop.
`v.addr` wraps at `AddrSpan`, as `uintptr_t` does. An assertion that fails would disable `Check`;
`AssertsPass` says none does.

**X64.** The code is what the two decoders make of it at every byte offset: `code.fd[p]` for
`fd_decode`, `code.bdd[p]` for `lfi_x86_bdd`. Every offset counts, since the recognisers look ahead
and the two decoders may get out of step. `bdd_count`, `bdd_ninstr` are the counters of the first
pass; `off` and `ninstr` those of `lfiv_verify_x64`, `count` that of `vchkbundle`; `failed` and
`addr` are fields of `struct Verifier`, and `v.abort` is the step to `pc = "fail"`. `starts` is a
history variable: where the second pass found a unit (an instruction, or a macro-instruction as a
whole). `BddStep`, `BddUnknown`, `BddDone` are the first loop; `StartBundle`, `CheckUnit`,
`UnknownInst`, `UnitSpans`, `BundleDone` the two nested loops of the second; `Finish` ends with the
assertion on the instruction counts, whose failure is `pc = "assert"`. A check that reports several
errors for one unit is one report: wording is left out.

**The BDD** (`X64Bdd`). `X64Verifier` takes the length at each offset as given; here it is computed.
A byte is a function from bit positions to bits. `StartLookup` is the head of the loop with the
`memcpy` to `insn_buf` (whose tail `Copy` leaves alone); `Descend` is one recursive call of
`lookup`, `depth` counts them; `Return` is the return from all of them; `Advance` and `Unknown` what
`lfiv_verify_x64` does with the length. A read outside of the bytes that are there may find either
bit. The table is a constant, `table`; `IsTable` says what is asked of it.

**The tool** (`LfiVerifyTool`). An option is what `getopt_long` returns with its argument as
`archname`, `strcmp` or `atoi` see it; a file is what its headers say (`File`, `Phdr`); the
verifiers are the constant `lfiv_verify`. `cmd.options[at]` is the option at hand, `k` the file, `n`
and `i` the loop indices of `verify()`, and `segments` wraps at `UintSpan`. There is one action for
every option, for every check of the header, and for every call that may fail, on every path it is
on: `OpenFails`, `IOFails` (reads of headers), `LoadFails` (between `malloc` and the verifier),
`ClockFails` (the one failure that ends the process). `open` and `blocks` count what is held;
`verify` is never reset.

**Execution** (`Arm64Exec`, `X64Exec`). Registers hold *classes* of values: the base, the context, an
address in the sandbox, 32 bits, an entry point, anything. What an instruction does to them is what the machine
computes (`Effect`), written from the instruction set and not from the checks: an `add` of a
zero-extended register to the base gives an address in the sandbox whatever `is_x30_guard` thinks of
it, and anything that is not recognised gives `any`. Which registers it writes (`Destinations`,
`Writes`) is from the instruction set as well, and so is where it reaches, not from `nmod` and the
operand checks, which can then be found to miss something. Branches go where the class of their operand
allows: a `box` address is *any* word of any region (arm64), a `target` *any* bundle start (x64), so
that a jump into the middle of a guarded sequence is among the behaviours. On x64 the
macro-instructions mean nothing to the CPU, which executes their parts. `AccessesInside` says when
the operands of an instruction address the sandbox, with the registers as they then are: on x64 an
instruction for which they do not has no step (`StaysInside` is that this is not reached), on arm64
it is a property. In the stores-only sandbox it is about what is written. On arm64 control that gets
to `"outside"` stays there (`Lost`), on x64 execution ends with the first access or transfer out of
the sandbox: what happens after one is not modelled.

Both machines show code that is accepted and does not keep what the checks are for (findings 1 and 3
to 5). What such code does that other code does not is stated by name: `X30Kept` on arm64 and, on
x64, `WritesCounted` (nmod() counts what is written to r14, rsp or the context register in use),
`NoBitStrings` (no bit test has its bit in a register) and `AsWritten` (the parts of
macro-instructions are as the comments of `macroinst.c` write them). None of the four is assumed of a
decoder or enforced by a check. Every property that needs one has it in its statement and in its name
(`...IfX30Kept`, `...IfCounted`, `...IfWritten`), the programs of the runs include some that break
each, and the property without it is checked too, and violated.

**The decoders** are external (subprojects not in the tree) and their results are constants. What
the code relies on is stated by name: `DecoderAssumption` (arm64: the operand kinds the assertions
of `chkbranch` and `chksys` presume, that indirect branches are of the group `BRANCHREG`, and that
`LDR_IMM` is no branch, loads no stack pointer and has no writeback, and that the offsets of
`LDR_IMM` and `STR_IMM`, twelve bits scaled by eight at the most, are no more than 32760), `IsCode` (x64: `fd_decode`
returns a length of 1 to 15 that stays within the bytes it was given) and, for execution only,
`Decoded` (x64: the registers are those of the machine, and the instructions the recognisers look
for take general registers and no more operands than their assembly shows).
On x64 it also says that the second operand of a `CMPccXADD` is a register.
Nothing is assumed of the BDD but that it returns a `uint8_t`; in the last 14 bytes it reads
`insn_buf`, whose tail is left over from earlier copies, and its answer may exceed what is left of
the code.

## 3. What is checked

The tool runs until it exits (`Ended` lets it stay there) and arm64 code is re-entered from the
runtime, so `tool` and `arm64_exec` check for deadlock. In the other runs a call returns, and then
the model stops: `CHECK_DEADLOCK FALSE`; in the executions on x64 code that makes an access outside
stops too. State counts are
distinct states.

| Run | Inputs | Properties | Shows |
|---|---|---|---|
| `arm64` (290665) | the programs of `src/test/arm64`, with and without a reporter; every pair of register and memory instructions under every combination of options; every program of up to 4 words out of 9: a write, a guard and two loads of x30, `ret`, `b`, a runtime call, an illegal and an undecodable word; sizes with a remainder; the address wraps | `TypeOK`, `SuiteAgrees`, `BoxMonotone`, `VerdictExact`, `ReportsExact`, `AssertsPass`, `PassComposes`, `ImplementsVerdict` | the model gives the answers `runtest.go` expects, so it is the program the suite tests; the stores-only sandbox only relaxes; one pass with one bit of state decides a property of whole programs, reports the invalid words and no others (and none of a size with a remainder), and always answers |
| `arm64_exec` (195364) | every pair of regions, the first of up to 3 of 29 words (branches, x30, writes to reserved registers), the second one of two; and, with the first of up to 2 of 28 words (accesses), under each combination of sandbox and context register; those that are valid | `TypeOK`, `ReservedKept`, `AccessesInside`, `FullStaysInside`, `FullLandsClean`, `StoresStayInsideIfX30Kept` | accepted code keeps the reserved registers and reaches no memory outside; in the full sandbox it stays inside and x30 is clean wherever control lands; in the stores-only sandbox it stays inside if it keeps x30 |
| `arm64_stores` | as `arm64_exec` | `CleanWhereGuarded` | **violated**: finding 1 |
| `x64_suite` (770) | the programs of `src/test/x64`, bundles of 32 | `TypeOK`, `SuiteAgrees` | as for arm64 |
| `x64_layout` (72450) | every sequence of up to 3 of 8 tokens (instructions of 1 to 3 bytes, jumps, illegal, undecodable and cut-off ones); of up to 4 of the 5 parts of indirect jumps and calls, and of the 4 of runtime calls, in one bundle and behind two nops, where the recognisers look into the next; two load addresses; up to 4 instructions with lengths 0 to 2 from the BDD against 1 and 2 from the decoder | `AddrTracks`, `ArrivalsAreUnits`, `CallsReturn`, `CutsPass`, `VerdictExact`, `AssertMeansDisagreement`, `ImplementsVerdict` | every arrival point is a checked unit; calls end their bundle; what a recogniser sees past a cut lets nothing through; two passes decide validity, also when the decoders disagree; addresses and instruction counts are right; when the decoders agree, a call left to run answers |
| `x64_address` | the shorter programs of `x64_layout` | `AddrIsVaddrPlusOffset` | **violated**: finding 2 |
| `x64_exec` (530238) | every program of up to 3 or 4 instructions over four alphabets: control flow; rsp, r14 and r15; accesses; and what the checks leave open (`CMPccXADD` on every reserved register, bit tests, prefixed and memory-sourced parts of groups); loaded at a bundle boundary. The control alphabet has an instruction with a system call among its bytes | `ExecTypeOK`, `OnlyChecked`, `NeverEscapes`, `BaseKeptIfCounted`, `StackKeptIfWritten`, `InsideIfWritten` | every check of the x64 verifier together: accepted code runs what was checked and nothing hidden in it, whichever bundle start it is entered at; the base, the stack pointer and every access are kept but for the forms the hypotheses name |
| `x64_base` | up to 3 of 6 instructions, bundles of 32, `no_bdd` | `BaseKept` | **violated**: finding 3 |
| `x64_stack` | up to 3 of 6 instructions, bundles of 32, the lengths of the shipped table | `StackKept` | **violated**: finding 4 |
| `x64_inside` | up to 3 of 4 instructions, bundles of 32, the lengths of the shipped table | `StaysInside` | **violated**: finding 5 |
| `x64_bdd` (93068) | every ordered table of 3 nodes, one for each byte, every code of up to 4 bytes | `TypeOK`, `ReadsInBounds`, `StackBounded`, `LengthsExact`, `ImplementsLengths` | the walk is safe and ends; stale bytes make no instruction |
| `tool` (251109) | up to 3 of 13 options with none to four inputs; up to 3 of 7 files for up to 2 rounds; any call may fail | `TypeOK`, `OutcomesExact`, `StatusExact`, `EveryFileJudged`, `LeaksAreRejections`, `ImplementsBatch` | one file does not change another's outcome; the status is the truth but for a count that wraps; the program ends |

**Bounds.** *Arm64:* the guard state depends on what came before through one bit, so the shortest
programs that tell every order apart (modify, guard, modify again, branch) have 4 words. `AddrSpan`
is 16 and the code starts at 8, so the third word wraps. For execution 3 words and a second region
are enough to land between any two words of a sequence from another region, and to fall from one
region into the next; an access depends on the registers only, which one word before it sets. *X64:* bundles of 4 bytes instead of 32 in all runs but the suite and
those of findings 3 to 5: 3 tokens of up to 3 bytes cross two boundaries at every alignment, and an indirect
jump of three one-byte parts fits a bundle with one byte to spare, so that 4 parts, and 4 behind two
nops, place it at every offset, before, at and across the boundary, and let a second group begin
inside a failed one. Load addresses 0 and 1 make bundles of the
code and of memory agree and differ. Lengths 0 to 2 from the BDD let it fall behind, get ahead and
back into step. The groups of five instructions for `movs` and `cmps` do not fit a bundle of 4, so
`x64_exec` does not execute them; `x64_suite` has them in bundles of 32, and the proofs of
`X64ExecProofs` go through them part by part. *BDD:* `BITS` is 2 and
`BUF` 3; with a node for each byte and a code of 4 bytes the last two offsets read copies, and the
last one bytes that the copy before left. *Tool:* `INPUTMAX` is 3 and there are command lines with 4
inputs; `UintSpan` is 4, so that two segments wrap in two rounds. For bundles of any size, code of
any length, any decoder, table and command line, the theorems of section 4 take over.

**Fairness.** `FairSpec` is `WF_vars(Next)`: one thread, left to run. The callback `opts->err` and
the calls to the C library are assumed to return. The execution models state no fairness: accepted
code need not do anything.

**SuiteAgrees** covers the programs of the suite by their decoded form, written down from the
assembly text; a few raw encodings and repeats of one form are left out.

## 4. What is proved

For every set of calls, code of any length and every decoder that satisfies the named assumptions
(x64: and every `BundleSize` that is a positive natural).

**Arm64** (`Arm64VerifierProofs`). `TypeCorrect`; `VerdictCorrect` (`Spec => []VerdictExact`);
`ImplementsVerdictSafely` (`Spec => Verdict!Spec`); `AssertsNeverFail`; `BranchesAreGuarded`;
`BoxIsMonotone`; `ValidComposes` and `PassIsCompositional`; `StopsCorrect` (`StopsAtFirstError`),
`ReportsCorrect` (`ReportsExact`) and `ReservedCorrect` (`ReservedPreserved`). Three are of properties
no run checks, `BranchesGuarded`, `StopsAtFirstError` and `ReservedPreserved`: the runs check what
they come to in execution, `FullLandsClean` and `ReservedKept`, and the verdict. `VerdictExact` speaks
of the end of the pass only; the inductive invariant `FlagsInv` adds what the two flags mean at
every word: `x30_guarded` iff every modification so far has been followed by a guard
(`GuardedBefore`), `failed` iff some word so far is invalid. The lemma `StepFlagsLemma` gives the
effect of one `vchk` on both, for all five ways through it. `ReportsInv` adds that `v.addr` is the
address of the word at hand and that the reports so far are those of the invalid words before it; it
needs that advancing a wrapped address is wrapping the advanced one (`AdvanceWraps`).
`ReservedCorrect` needs the decoder to use `LDR_IMM` for the form without writeback only: `vchk`
accepts `ldr xzr, [x30]` without looking at the rest of the instruction.

**X64** (`X64VerifierProofs`). `TypeCorrect`, which rests on lemmas about what the recognisers
return (`MacroTyped`, `UnitTyped`) and on bundle arithmetic (`NextBundleStart`); `VerdictCorrect`;
`AddressCorrect` (`AddrTracks`); `ImplementsVerdictSafely`; `ArrivalsCorrect` (`ArrivalsAreUnits`);
`BoxIsMonotone` (`BoxMonotone`, which no run checks); `CutsAreHarmless` (`CutsPass`), `CallsCanReturn` (`CallsReturn`) and
`AssertionCorrect` (`AssertMeansDisagreement`).

Validity of x64 code (`Valid`) is that *some* set of good offsets takes it apart: it holds every
bundle start, and with a unit the next one. The passes build one set, so two directions are needed.
`Covered`, the heart of `VerdictInv`, says that what has been found up to `Front` takes the code
apart as far as that, so that acceptance is right, and that *every* set that takes the code apart
contains it and goes on at `Front`, so that rejection at `Front` is right. `CoveredLengths` says the
same of the BDD's pass, which keeps no set: there is one, and every other leads to `bdd_count`. The
unit checks take the address `v.addr` and validity takes `base + p`, so the invariant carries their
equality up to the first failure, and `failed => ~Valid` from there on: after finding 2's drift the
addresses are wrong, but the verdict is already settled. `OneStartPerBundle` is why a unit that
stays in its bundle cannot skip a bundle start.

`ArrivalsCorrect` then needs only that the last bundle start, target and return address the checks
let through are units: `SameBundles` (memory and code agree on bundles when the load address is
aligned) and `OnlyRtcallLoadsR11` (no other recogniser accepts a group that begins with a `lea` to
r11).

The other three look inside of the macro-instructions, and `X64MacroProofs` says for every answer of
the decoder what is there. `Shape(k, ...)` is what the `k`-th recogniser asks of its parts and
`Group(k, ...)` what it returns: `MacroShape` and `MacroHasShape` say that a macro-instruction is the
group of the first shape that is there, and `SameParts` that two pieces of code that agree on the
parts agree on the shape. The one loop, over the nops before a call (`PastNops`), is a recursive
function on the naturals. That such a function satisfies its equation is usually had from a theorem
with an operator for a parameter; here `LoopExists` and `ScanExists` derive it, for this loop and
for `InstStarts`, from the least element of a set of naturals, and `LoopInduction` is induction for
one predicate of the loop.

- `CallsCanReturn`: whatever the number of nops, the `call` of a group is its last instruction
  (`CallEndsBundle`), and the recogniser accepts it only where the bundle ends.
- `AssertionCorrect`: where the decoders agree on every length, the first pass counts the
  instructions of a walk from 0 in steps of those lengths (`Walk`, `WalkCounts`). `CountInv` says
  that the second pass is at a point of that walk and has counted the instructions up to it.
  `MacroCounts` is the step over a group: what the recogniser returns as `ninstr` is the number of
  instructions in the `size` it returns, the nops included.
- `CutsAreHarmless`: `starts` itself, restricted to each side of the cut, takes the two pieces
  apart. Behind the cut, everything is as before but for the offsets (`MacroLater`). In front, the
  decoder sees a shorter buffer, and a recogniser that looked across the cut may find a group no
  more, but one it accepted lies within its bundle (`MacroSooner`).

**Execution on arm64** (`Arm64ExecProofs`). `TypeCorrect`; `ReservedCorrect` and `AccessesCorrect`,
for every program under every combination of options; `FullStaysInsideCorrect` and
`FullLandsCleanCorrect`, for every program in the full sandbox; `StoresStayInsideCorrect`
(`Spec => [](opts.box = "STORES" /\ X30Kept => StaysInside)`). The verifier scans words in order and the CPU does not, so its flag must mean something about
*every* way to reach a word. That is `CleanWhereGuarded` in `ExecInv`, for code that keeps x30 (`Kept`:
the full sandbox or `X30Kept`): whenever control is at a word before which the scan has
`x30_guarded`, the value in x30 is clean. A fall to the next word keeps it because `GuardedBefore` moves as x30 does; a jump lands where the scan may have had the flag either
way, and keeps it because x30 is clean at every branch and at the end of every region. The lemmas
about single instructions (`WritebackChecked`, `ModChecked`, `GuardCleans`) show that what the checks
pass changes a reserved register only by what the machine makes an address in the sandbox;
`MemopInside` that what `okmemop` passes reaches the sandbox, the runtime's table or the context's
word while the registers are what `ReservedKept` says. `okrtcallimm` takes all 16 bits of an offset
as signed, and `MEMUOFF` offsets are unsigned: `AddressInside` allows what lies 32 KiB or more
behind the base, and `DecoderAssumption` excludes it for the loads that clean x30.

In the full sandbox `okmemop` asks `okrtcallimm` or `ldstreg` of loads as well, so that x30 is loaded
from the table only (`GuardCleans`) and not stepped at all (`WritebackChecked`). In the stores-only sandbox `okmemop` lets a load use any
address, the writeback of any register but the fixed ones included, and any offset from the base;
`okmod` looks at the operands an instruction writes and takes every load from the base for one of an
entry point. Without `X30Kept` the flag then means nothing there: finding 1.

**Execution on x64** (`X64ExecProofs`). `ExecTypeCorrect`, `ExecInvariant`, and from it, without any
hypothesis on the code, `OnlyCheckedCorrect` (the CPU executes instructions the verifier has looked
at and no others) and `NeverEscapesCorrect` (so no system call, hidden ones included), up to the
first access or transfer outside, with which the execution of the model ends. The other three are

    BaseCorrect     ExecSpec => [](WritesCounted => BaseKept)
    StackCorrect    ExecSpec => [](WritesCounted /\ AsWritten => StackKept)
    SandboxCorrect  ExecSpec => [](WritesCounted /\ NoBitStrings /\ AsWritten => StaysInside)

and say together that the forms these exclude are the only ones the checks let through: what is left
of accepted code keeps its registers and stays inside. That none of the hypotheses is true of all
accepted code is findings 3 to 5.

The verifier passes whole groups and the CPU executes their parts, so the invariant says where in a
group control can be. Its first part is `OnTrack`: control is at an instruction of some unit
(`Tracks`), r14 and the context register are in place if the writes are counted (`Held`), and a link
the runtime will return through leads to a unit or to other code. A step goes to the next instruction of the unit, to the unit
behind it, or to a bundle start (`GoesAlong`, `ArrivesOnTrack`): a direct branch by
`ArrivalsCorrect`'s argument, a masked one because every bundle start is a unit. What a step may do
to r14 is `PlainUnitStep` for a unit of one instruction, `PartKeeps` for the parts of the groups and
`CallTracks` for the call with its nops, of which there may be any number.

The second part, `Inside` under `WritesCounted` and `AsWritten`, is about values: either control is at a unit and rsp is an
address of the sandbox, or it is within a group, behind its first part, and `Between` gives the class
of the register the parts before have left (the masked register of an indirect jump, the truncated
rsp, rdi and rsi of a string instruction, the link in r11 of a runtime call). It needs that units do
not overlap (`Apart`, `UnitsApart`), so that the part after is not a unit of its own, and a lemma per
group of what each of its parts computes (`LoadFine` to `RtcallFine`); what a plain unit may write is
limited by `chkmod`, `chkmem` and `chkbranch` (`PlainUnitFine`).

The hypotheses are what the proof needed and the checks do not give. `WritesCounted`: `nmod` lists
the instructions that write two operands, and of those of `base.instrs` the `CMPccXADD` are not among
them. `NoBitStrings`: with its bit in a register, a bit test on memory accesses what the register
says, and `chkmem` looks at the operand. `AsWritten`: the recognisers compare mnemonics, registers and
sizes, but of the parts of a group they do not look at a segment or address-size prefix (where the
part has an address, or a `lea` its result, from it), at the operand size of the `lea` into r11, or
at whether what is moved or added to esp comes from memory, as in `movl (%rax), %esp`.

In the program the first pass, unless `no_bdd`, also turns down every instruction that the table of
the BDD does not list. Walking `x86-all.bdd.h` with a script shows that it lists no `CMPccXADD`, and
gives the bit tests, the prefixed `lea` and the memory-sourced `movl` the lengths the decoder has:
the programs of `x64_stack` and `x64_inside` are with these lengths, those of `x64_base` with
`no_bdd`. The table itself is not part of these models, in which the BDD may give any length to any
bytes.

**BDD** (`X64BddProofs`). `TypeCorrect`, `ReadsCorrect`, `StackCorrect`, `LengthsCorrect`
(`LengthsExact`), `ImplementsLengthsSafely`, for tables that satisfy `IsTable`. Outside the last
bytes every read is in bounds because a node's byte is less than `BUF`; `depth <= v` bounds the
recursion, since `v` grows along an edge. `WalkInv` says that the walk is at the one node the bytes
lead to. `LengthsExact` then follows from the table never looking past the shortest length a node
leads to: an input that agrees with the code up to the length gives that length whatever follows.

**Tool** (`LfiVerifyToolProofs`). `TypeCorrect`, `OutcomesCorrect`, `StatusCorrect`, `AllJudged`,
`LeaksCorrect`, `ImplementsBatchSafely`. `UsageInv` relates the options so far to what was given
last (`ArgsGiven`, `OptsGiven`); `FileInv` says that `verify` is the machine of the file at hand
whenever a segment is verified, and that `segments` is the count of the executable headers passed,
modulo `UintSpan`; `OutcomesInv` that every outcome is that of the file on its own; `LeakInv` that
what is open and allocated is what rejections left.

**Model-checked only.** Liveness (the `<>` of `VerdictSpec`, `LengthSpec` and `BatchSpec`: the runs'
`ImplementsVerdict`, `ImplementsLengths` and `ImplementsBatch`), which is outside the prover's reach;
their safety parts are proved. `SuiteAgrees`, which is about particular programs. Every other
property of a passing run is stated by a theorem.

**What is assumed.** Of the decoders: `DecoderAssumption` (of both machines; on x64 that is
`Decoded`, and only `X64Exec` needs it), `IsCode`. Of the table: `IsTable`, which
was established by reading `x86-all.bdd.h` with a script: 17897 nodes, entry 3825, `v` at most 119
and growing along every edge, lengths at most 15, and no byte at or past the shortest length ahead
is looked at. `x86-all.bdd.c` (`LFI_CODE_BDD`) is the same nodes as code. Of the runtime: it enters
the sandbox with the base in r14 or x27, the context in its register and addresses of the sandbox in
the other reserved registers, and keeps its entry points, read-only, in the eight words around the
base (offsets -32 to 24, those `okrtcallimm` and `okrtcalldisp` accept), its own memory within 32 KiB
of the base. Of the context: the word at `CTXREG_TP_OFFSET` is the sandbox's, as 64 bits. Of memory:
4 GiB aligned at the base, with guard pages wide enough for displacements, for what steps the stack
pointer and for the writeback of an address. Of the CPU: the instruction set as in
`Destinations`, `Writes`, `Result` and `BitString`; the hint words change no reserved register
for the worse, and an authentication failure traps. Of the loader: a direct branch and the end of
the code lead to other verified code, and `opts` are the same for all of it; x64 code is loaded
where a bundle starts (`LoadAssumption`).

## 5. Findings

1. In the stores-only sandbox `okmemop` lets a load step x30 by its writeback (`arm64/verify.c:414-415`),
   which leaves `x30_guarded` set: after `ldr x0, [x30], #16` x30 is neither guarded nor taken for
   unguarded, while `verify.c:507` says that "Any other modification to x30 unguards it". A load of x30
   from the base at any offset counts as a guard there, too (`verify.c:493-498`). The full sandbox is
   not affected (`FullStaysInsideCorrect`). Run `arm64_stores`.
2. `vchkbundle` returns from an undecodable instruction without advancing `v->addr`
   (`x64/verify.c:226`) and with a reporter the pass goes on to the next bundle: from there on
   errors are printed with addresses that are too low, and targets are checked for alignment from
   them, against `lfiv.h:32`. The verdict is not affected (`VerdictCorrect`). Run `x64_address`.
3. `nmod` (`x64/verify.c:51`) counts one written operand for `CMPccXADD` (`base.instrs:77-95`), which
   writes its second one as well: r14, or r15 with `ctxreg`, passes there, while `lfiv.h:20` says that
   "the context register is reserved (cannot be modified)" and `fail.s:145-149` has the like of `mulx`
   and `xadd`, "two destinations", turned down. With `no_bdd` only. Run `x64_base`.
4. `macroinst_modsp` does not look at the address size of the `lea` that ends a pair
   (`macroinst.c:401`): `lea (%esp, %r14d, 1), %rsp` passes, and leaves 32 bits in rsp, where the
   comment (line 393) has "Allow 'addq %r14, %rsp' add 'lea (%rsp, %r14, 1), %rsp'". Run `x64_stack`.
5. `chkmem` judges the base and the index of a memory operand, and `base.instrs:39-42` admits the bit
   tests: with its bit in a register, `bts %rax, (%rsp)` accesses memory away from (%rsp) by what the
   register says, as an operand with an index would, which `verify.c:188` ("invalid index register for
   memory access") and `fail.s:23` turn down. Run `x64_inside`.

Some things the runs make visible beside these: `lfiv_verify_arm64` rejects a size that is not a
multiple of 4 before it can report anything (`arm64/verify.c:628`), which `ReportsExact` states, while
`lfiv.h:24` has the callback "print a null-terminated error message if verification fails"; branch targets are
checked as addresses but bundles are counted from the start of the buffer, so `ArrivalsAreUnits`
needs a load address that is a multiple of the bundle size, which the library does not check; and
the pieces of code that are accepted one by one may be rejected together, because a recogniser may
see a group across what was the end of the first (the reverse, `CutsPass`, holds). Of the context
register `lfiv.h:19-21` says loads and stores "from the address it holds", which both verifiers take
to be the one word at `CTXREG_TP_OFFSET` from it.

## 6. Hazards

`PROJECT.json` lists each at its line. In short: the guard state of x30 across words and errors
(arm64); the two control paths after an error, with and without a reporter; what two checks leave to
each other (`okmod`/`okmemop`, `base.instrs`/assertions); units at bundle ends, look-ahead past
them, return addresses and call ends (x64); `v.addr` shared by two passes; two decoders related by a
count; the unbounded walk of the BDD table, and the copy at the end of the code that keeps stale
bytes; jumps into the middle of what was checked in order or as a group (both machines), and the
reserved registers across pairs of instructions (x64); tables and recognisers that say less than the
instruction set (what is written, what is reached, what a prefix changes: x64, and the writeback of
loads on arm64); loads that a table keeps apart from the checks
of stores, and scaled offsets read as signed (arm64); one file of several failing, a verifier
pointer left from the file before, a counter that wraps, and a `free` on every error path (tool).
Every hazard has a property that some run checks.

## 7. What is not modelled

- `riscv64/verify.c`: a stub that returns `true`.
- `src/frama-c`: an analysis harness: contracts of the arm64 decoder for a C prover.
- `da64_decode`, `fd_decode`: not in the tree; the models quantify over their results.
- `x86-all.bdd.*` and `elfdefinitions.h` hold about 104500 of the 106400 lines of the
  implementation. They are a generated table, the same table as generated code, and constants of a
  file format: what the code relies on them for is `IsTable`, `Phdr` and `File`, and there is no
  control in them to model.
- The mnemonic tables are represented by members of every kind the checks tell apart.
- An assertion of a verifier that fails inside the tool ends the process; the tool's model has
  verifiers that answer (`AssertsPass`, `AssertMeansDisagreement` say when they do).
- Of the test runner, how it assembles and starts processes.
- The text of messages; the time and throughput the tool prints.

## 8. What is left

`X64Bdd` composed with the passes of `X64Verifier`, in place of lengths that may be anything, so that
what the table excludes can be said of accepted code: `WritesCounted` of the shipped one, above all.
