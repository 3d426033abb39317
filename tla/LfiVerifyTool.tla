---------------------------- MODULE LfiVerifyTool ----------------------------
(***************************************************************************)
(* lfi-verify (src/tools/lfi-verify/main.c): the options, then each input  *)
(* file in turn -- its header, which picks the verifier, its section       *)
(* headers, and its executable segments, --n times over -- and the exit    *)
(* status.                                                                 *)
(*                                                                         *)
(* Seeks, reads, malloc and the clock may fail at every call (IOFails,     *)
(* LoadFails, OpenFails, ClockFails), whether the file is cut short or the *)
(* system is at fault; faulted keeps the numbers of the files where one    *)
(* did.  The verifiers are a constant, the code each accepts.              *)
(***************************************************************************)
EXTENDS Integers, Sequences, FiniteSetsExt

CONSTANTS
    Arches,        \* the machines the build has a verifier for: ARCH_X64, ARCH_ARM64
    INPUTMAX,      \* the most input files
    UintSpan,      \* the number of values of unsigned
    Code,          \* what a segment may hold
    lfiv_verify,   \* the code the verifier of a machine accepts under the options
    CommandLines   \* the command lines considered

Machine == {"x64", "arm64"}

\* struct LFIVOptions; the reporter, showerr, is always there.
Options == [box : {"FULL", "STORES"}, no_bdd : BOOLEAN, ctxreg : BOOLEAN]

\* What getopt_long returns: the option with, where it takes one, the argument as archname,
\* strcmp or atoi see it; "?" is an option it does not know.
Option == [opt : {"help", "no-bdd", "ctxreg", "?"}]
            \cup [opt : {"arch"}, arg : {"x64", "arm64", "other"}]
            \cup [opt : {"n"}, arg : Int]
            \cup [opt : {"sandbox"}, arg : {"FULL", "STORES", "other"}]

\* A program header: whether it is of type PT_LOAD with PF_X, and the code.
Phdr == [exec : BOOLEAN, code : Code]

\* An input: whether it starts as a 64-bit ELF file, its machine, the number of its section
\* headers and its program headers.
File == [elf : BOOLEAN, machine : Machine \cup {"other"}, shnum : Nat, phdrs : Seq(Phdr)]

\* getopt_long moves the inputs behind the options.
CommandLine == [options : Seq(Option), inputs : Seq(File)]

ASSUME ArchesAssumption == Arches \subseteq Machine
ASSUME BoundsAssumption == INPUTMAX \in Nat \ {0} /\ UintSpan \in Nat \ {0}
ASSUME VerifierAssumption == lfiv_verify \in [Machine -> [Options -> SUBSET Code]]
ASSUME CommandLinesAssumption == CommandLines \subseteq CommandLine

VARIABLES
    cmd,        \* argv
    pc,         \* "options", "open", "header", "sections", "segments", "loaded" or "exit"
    at,         \* the option getopt_long is at
    args,       \* args.arch ("none" if NULL) and args.n
    opts,       \* the verifier options
    verify,     \* v.verify: the machine of a verifier, or "NULL"; it is never reset
    outcomes,   \* what verify() returned for the files so far
    failed,     \* failed in main
    n, i,       \* the indices of the loops in verify(): the round, and the header, from 0
    segments,   \* the number of segments verified, an unsigned
    status,     \* the exit status, "none" while running
    open,       \* the numbers of the files that are open
    blocks,     \* the number of segments allocated
    rejected,   \* history: the files of which lfiv_verify turned a segment down
    faulted     \* history: the files at which a call failed

config == <<cmd, at, args, opts>>
history == <<rejected, faulted>>
vars == <<cmd, pc, at, args, opts, verify, outcomes, failed, n, i, segments, status, open,
          blocks, rejected, faulted>>

Inputs == 1..Len(cmd.inputs)

k == Len(outcomes) + 1     \* the file at hand
file == cmd.inputs[k]

Init ==
    /\ cmd \in CommandLines
    /\ pc = "options" /\ at = 1
    /\ args = [arch |-> "none", n |-> 1]
    /\ opts = [box |-> "FULL", no_bdd |-> FALSE, ctxreg |-> FALSE]
    /\ verify = "NULL" /\ outcomes = <<>> /\ failed = FALSE
    /\ n = 0 /\ i = 0 /\ segments = 0 /\ status = "none"
    /\ open = {} /\ blocks = 0 /\ rejected = {} /\ faulted = {}

Exit(s) == pc' = "exit" /\ status' = s

-----------------------------------------------------------------------------
(* The options. *)

Given(kind) == pc = "options" /\ at <= Len(cmd.options) /\ cmd.options[at].opt = kind

NextOption ==
    /\ at' = at + 1
    /\ UNCHANGED <<cmd, pc, verify, outcomes, failed, n, i, segments, status, open, blocks,
                   history>>

archname(s) == IF s \in Arches THEN s ELSE "none"

\* Mutant: the first --arch stays.
SetArch_first == /\ Given("arch") /\ archname(cmd.options[at].arg) # "none"
                 /\ args' = [args EXCEPT !.arch = IF @ = "none" THEN cmd.options[at].arg ELSE @]
                 /\ NextOption /\ UNCHANGED opts

SetArch == /\ Given("arch") /\ archname(cmd.options[at].arg) # "none"
           /\ args' = [args EXCEPT !.arch = archname(cmd.options[at].arg)]
           /\ NextOption /\ UNCHANGED opts

SetN == /\ Given("n")
        /\ args' = [args EXCEPT !.n = cmd.options[at].arg]
        /\ NextOption /\ UNCHANGED opts

SetSandbox == /\ Given("sandbox") /\ cmd.options[at].arg # "other"
              /\ opts' = [opts EXCEPT !.box = cmd.options[at].arg]
              /\ NextOption /\ UNCHANGED args

SetNoBdd == /\ Given("no-bdd")
            /\ opts' = [opts EXCEPT !.no_bdd = TRUE]
            /\ NextOption /\ UNCHANGED args

SetCtxreg == /\ Given("ctxreg")
             /\ opts' = [opts EXCEPT !.ctxreg = TRUE]
             /\ NextOption /\ UNCHANGED args

\* getopt_long has printed a complaint, and main goes on.
UnknownOption == Given("?") /\ NextOption /\ UNCHANGED <<args, opts>>

RefuseOption ==
    /\ \/ Given("help")
       \/ Given("arch") /\ archname(cmd.options[at].arg) = "none"
       \/ Given("sandbox") /\ cmd.options[at].arg = "other"
    /\ Exit("1")
    /\ UNCHANGED <<config, verify, outcomes, failed, n, i, segments, open, blocks, history>>

OptionsRead == pc = "options" /\ at > Len(cmd.options)

RefuseInputs ==
    /\ OptionsRead /\ Len(cmd.inputs) \notin 1..INPUTMAX
    /\ Exit("1")
    /\ UNCHANGED <<config, verify, outcomes, failed, n, i, segments, open, blocks, history>>

StartFiles ==
    /\ OptionsRead /\ Len(cmd.inputs) \in 1..INPUTMAX
    /\ pc' = "open"
    /\ UNCHANGED <<config, verify, outcomes, failed, n, i, segments, status, open, blocks,
                   history>>

-----------------------------------------------------------------------------
(* One file. *)

\* Mutant: main gives up at the first file that fails.
Return_stop(b) == /\ pc' = (IF b THEN "open" ELSE "exit")
                  /\ status' = (IF b THEN status ELSE "1")
                  /\ outcomes' = Append(outcomes, b)
                  /\ failed' = (failed \/ ~b)
                  /\ UNCHANGED config

\* verify() returns b to main.
Return(b) == /\ pc' = "open"
             /\ outcomes' = Append(outcomes, b)
             /\ failed' = (failed \/ ~b)
             /\ UNCHANGED <<config, status>>

\* return b after fclose(file): the err label, and the end of verify().
Close(b) == Return(b) /\ open' = open \ {k}

Fault == faulted' = faulted \cup {k} /\ UNCHANGED rejected

OpenFile ==
    /\ pc = "open" /\ k \in Inputs
    /\ pc' = "header" /\ open' = open \cup {k}
    /\ UNCHANGED <<config, verify, outcomes, failed, n, i, segments, status, blocks, history>>

OpenFails ==
    /\ pc = "open" /\ k \in Inputs
    /\ Return(FALSE) /\ Fault
    /\ UNCHANGED <<verify, n, i, segments, open, blocks>>

\* The switch on e_machine, after the checks of e_ident.
Supported == /\ file.elf /\ file.machine \in Arches
             /\ args.arch \in {"none", file.machine}

\* Mutant: the verifier of an earlier file stays.
PickVerifier_stale ==
    /\ pc = "header" /\ Supported
    /\ verify' = (IF verify = "NULL" THEN file.machine ELSE verify)
    /\ pc' = "sections" /\ i' = 0
    /\ UNCHANGED <<config, outcomes, failed, n, segments, status, open, blocks, history>>

PickVerifier ==
    /\ pc = "header" /\ Supported
    /\ verify' = file.machine /\ pc' = "sections" /\ i' = 0
    /\ UNCHANGED <<config, outcomes, failed, n, segments, status, open, blocks, history>>

\* Without an --arch and a verifier the message formats NULL with %s: "(null)" in glibc.
RefuseHeader ==
    /\ pc = "header" /\ ~Supported
    /\ Close(FALSE)
    /\ UNCHANGED <<verify, n, i, segments, blocks, history>>

NextSection ==
    /\ pc = "sections" /\ i < file.shnum
    /\ i' = i + 1
    /\ UNCHANGED <<config, pc, verify, outcomes, failed, n, segments, status, open, blocks,
                   history>>

\* With assert(v->verify != NULL).
StartRounds ==
    /\ pc = "sections" /\ i >= file.shnum /\ verify # "NULL"
    /\ pc' = "segments" /\ n' = 0 /\ i' = 0 /\ segments' = 0
    /\ UNCHANGED <<config, verify, outcomes, failed, status, open, blocks, history>>

\* time_ns() ends the program, before the rounds or after them.
ClockFails ==
    /\ \/ pc = "sections" /\ i >= file.shnum
       \/ pc = "segments" /\ n >= args.n
    /\ Exit("1") /\ Fault
    /\ UNCHANGED <<config, verify, outcomes, failed, n, i, segments, open, blocks>>

InRound == pc = "segments" /\ n < args.n

phdr == file.phdrs[i + 1]

SkipHeader ==
    /\ InRound /\ i < Len(file.phdrs) /\ ~phdr.exec
    /\ i' = i + 1
    /\ UNCHANGED <<config, pc, verify, outcomes, failed, n, segments, status, open, blocks,
                   history>>

\* malloc for an executable segment.
Allocate ==
    /\ InRound /\ i < Len(file.phdrs) /\ phdr.exec
    /\ pc' = "loaded" /\ blocks' = blocks + 1
    /\ UNCHANGED <<config, verify, outcomes, failed, n, i, segments, status, open, history>>

\* A header cannot be read, or malloc fails.
IOFails ==
    /\ \/ pc = "header"
       \/ pc = "sections" /\ i < file.shnum
       \/ InRound /\ i < Len(file.phdrs)
    /\ Close(FALSE) /\ Fault
    /\ UNCHANGED <<verify, n, i, segments, blocks>>

\* Mutant: the segment is not freed.
LoadFails_leaks ==
    /\ pc = "loaded" /\ Close(FALSE) /\ Fault
    /\ UNCHANGED <<verify, n, i, segments, blocks>>

\* Mutant: the segment is freed once more at err.
LoadFails_freed ==
    /\ pc = "loaded"
    /\ blocks' = blocks - 2
    /\ Close(FALSE) /\ Fault
    /\ UNCHANGED <<verify, n, i, segments>>

LoadFails ==
    /\ pc = "loaded"
    /\ blocks' = blocks - 1
    /\ Close(FALSE) /\ Fault
    /\ UNCHANGED <<verify, n, i, segments>>

AcceptSegment ==
    /\ pc = "loaded" /\ phdr.code \in lfiv_verify[verify][opts]
    /\ segments' = (segments + 1) % UintSpan
    /\ blocks' = blocks - 1
    /\ pc' = "segments" /\ i' = i + 1
    /\ UNCHANGED <<config, verify, outcomes, failed, n, status, open, history>>

\* return false, neither closing the file nor freeing the segment.
RejectSegment ==
    /\ pc = "loaded" /\ phdr.code \notin lfiv_verify[verify][opts]
    /\ Return(FALSE)
    /\ rejected' = rejected \cup {k}
    /\ UNCHANGED <<verify, n, i, segments, open, blocks, faulted>>

EndRound ==
    /\ InRound /\ i >= Len(file.phdrs)
    /\ n' = n + 1 /\ i' = 0
    /\ UNCHANGED <<config, pc, verify, outcomes, failed, segments, status, open, blocks,
                   history>>

\* Mutant: nobody asks whether there was a segment to verify.
EndFile_uncounted ==
    /\ pc = "segments" /\ n >= args.n
    /\ Close(TRUE)
    /\ UNCHANGED <<verify, n, i, segments, blocks, history>>

EndFile ==
    /\ pc = "segments" /\ n >= args.n
    /\ Close(segments # 0)
    /\ UNCHANGED <<verify, n, i, segments, blocks, history>>

Report ==
    /\ pc = "open" /\ k \notin Inputs
    /\ Exit(IF failed THEN "1" ELSE "0")
    /\ UNCHANGED <<config, verify, outcomes, failed, n, i, segments, open, blocks, history>>

Ended == pc = "exit" /\ UNCHANGED vars

Next == SetArch \/ SetN \/ SetSandbox \/ SetNoBdd \/ SetCtxreg \/ UnknownOption
        \/ RefuseOption \/ RefuseInputs \/ StartFiles \/ OpenFile \/ OpenFails
        \/ PickVerifier \/ RefuseHeader \/ NextSection \/ StartRounds \/ ClockFails
        \/ SkipHeader \/ Allocate \/ IOFails \/ LoadFails \/ AcceptSegment \/ RejectSegment
        \/ EndRound \/ EndFile \/ Report \/ Ended

Spec == Init /\ [][Next]_vars

\* A single-threaded program that is left to run.
FairSpec == Spec /\ WF_vars(Next)

-----------------------------------------------------------------------------
(* What the command line asks for, without running the program. *)

GivenAt(os, kind, t) == {j \in 1..t : os[j].opt = kind}

\* The argument of the last of the first t options that is of a kind.
LastGiven(os, kind, t, default) ==
    IF GivenAt(os, kind, t) = {} THEN default ELSE os[Max(GivenAt(os, kind, t))].arg

ArgsGiven(os, t) == [arch |-> LastGiven(os, "arch", t, "none"),
                     n    |-> LastGiven(os, "n", t, 1)]

OptsGiven(os, t) == [box    |-> LastGiven(os, "sandbox", t, "FULL"),
                     no_bdd |-> GivenAt(os, "no-bdd", t) # {},
                     ctxreg |-> GivenAt(os, "ctxreg", t) # {}]

Asked == ArgsGiven(cmd.options, Len(cmd.options))
Under == OptsGiven(cmd.options, Len(cmd.options))

OptionOK(op) == /\ op.opt # "help"
                /\ op.opt = "arch" => op.arg \in Arches
                /\ op.opt = "sandbox" => op.arg # "other"

UsageOK == /\ \A j \in 1..Len(cmd.options) : OptionOK(cmd.options[j])
           /\ Len(cmd.inputs) \in 1..INPUTMAX

Execs(f) == {p \in 1..Len(f.phdrs) : f.phdrs[p].exec}

\* The file deserves to pass: the command line is in order, and the verifier of the file's
\* machine, which the build has and --arch does not exclude, accepts each of its executable
\* segments, of which there is one.
Deserves(f) ==
    /\ UsageOK /\ f.elf /\ f.machine \in Arches /\ Asked.arch \in {"none", f.machine}
    /\ Asked.n > 0 /\ Execs(f) # {}
    /\ \A p \in Execs(f) : f.phdrs[p].code \in lfiv_verify[f.machine][Under]

\* All the segments, in all the rounds, are a multiple of the span of unsigned: the count
\* of those verified is 0 again.
WrapsToZero(f) == (Asked.n * Cardinality(Execs(f))) % UintSpan = 0

-----------------------------------------------------------------------------
(* Properties. *)

\* The variables have their types: nothing is freed twice, and the loops of verify() stay
\* within the tables of the file at hand.
TypeOK ==
    /\ cmd \in CommandLines
    /\ pc \in {"options", "open", "header", "sections", "segments", "loaded", "exit"}
    /\ at \in 1..(Len(cmd.options) + 1)
    /\ args \in [arch : Machine \cup {"none"}, n : Int] /\ opts \in Options
    /\ verify \in Machine \cup {"NULL"}
    /\ outcomes \in Seq(BOOLEAN) /\ Len(outcomes) <= Len(cmd.inputs)
    /\ failed \in BOOLEAN
    /\ n \in Nat /\ i \in Nat /\ segments \in 0..(UintSpan - 1)
    /\ pc \in {"header", "sections", "segments", "loaded"} => k \in Inputs
    /\ pc = "sections" => i <= file.shnum
    /\ pc = "segments" => i <= Len(file.phdrs)
    /\ pc = "loaded" => i < Len(file.phdrs)
    /\ status \in {"none", "0", "1"} /\ (status = "none" <=> pc # "exit")
    /\ open \subseteq Inputs /\ blocks \in Nat
    /\ rejected \subseteq Inputs /\ faulted \subseteq Inputs

\* Every file is judged on its own merits, under the whole of the options and by the
\* verifier of its own machine, whatever the files before it did to the state that verify()
\* keeps; a file that deserves to pass fails only if a call failed there or the count of
\* its segments wrapped to 0.
OutcomesExact ==
    \A j \in DOMAIN outcomes :
      outcomes[j] <=> /\ Deserves(cmd.inputs[j]) /\ ~WrapsToZero(cmd.inputs[j])
                      /\ j \notin faulted

\* The exit status says whether every file passed: it is 0 only if the command line was in
\* order and each of the files deserves to pass (the early exits, the loop over the inputs
\* and failed in main, and every error path of verify()).
StatusExact ==
    pc = "exit" =>
      (status = "0" <=>
         /\ UsageOK
         /\ \A j \in Inputs : /\ Deserves(cmd.inputs[j]) /\ ~WrapsToZero(cmd.inputs[j])
                              /\ j \notin faulted)

\* A file that fails does not keep the files after it from being judged: when the program
\* ends in the middle of a batch, the clock has failed it.
EveryFileJudged == pc = "exit" /\ UsageOK => Len(outcomes) = Len(cmd.inputs) \/ k \in faulted

\* Between two files, the FILEs still open and the segments still allocated are those of
\* the files of which lfiv_verify turned a segment down, one each: no other error path
\* leaves anything behind, and there are never more than INPUTMAX.
LeaksAreRejections ==
    /\ pc = "open" => open = rejected /\ blocks = Cardinality(rejected)
    /\ Cardinality(open) <= INPUTMAX /\ blocks <= INPUTMAX

\* The program keeps the promise of lfi-verify, and always ends.
Batch == INSTANCE BatchSpec WITH
           count <- Len(cmd.inputs),
           good  <- {j \in Inputs : Deserves(cmd.inputs[j])}
ImplementsBatch == Batch!LiveSpec
=============================================================================
