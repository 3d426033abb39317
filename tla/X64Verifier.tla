----------------------------- MODULE X64Verifier -----------------------------
(***************************************************************************)
(* lfiv_verify_x64 (src/src/x64/verify.c): a pass of the BDD over the      *)
(* lengths of the instructions, then a pass bundle by bundle that takes    *)
(* the code apart into units -- an instruction, or a macro-instruction --  *)
(* and checks each.                                                        *)
(*                                                                         *)
(* The code is what the two decoders make of it: fd[p] for fd_decode and   *)
(* bdd[p] for lfi_x86_bdd at offset p.  Within 15 bytes of the end the BDD *)
(* reads the copy in insn_buf, whose bytes past the end are left over from *)
(* earlier copies: bdd[p] is not constrained there, and may exceed what    *)
(* is left of the code.                                                    *)
(***************************************************************************)
EXTENDS X64Macro, FiniteSets

CONSTANT Calls   \* the arguments lfiv_verify_x64 may be called with

\* What fd_decode promises: it stays within the bytes it is given.
IsCode(c) ==
    /\ c.n \in Nat
    /\ c.fd \in [0..(c.n - 1) -> Inst]
    /\ c.bdd \in [0..(c.n - 1) -> 0..255]
    /\ \A p \in 0..(c.n - 1) : p + c.fd[p].size <= c.n

ASSUME CallsAssumption ==
    \A c \in Calls : c.opts \in Options /\ IsCode(c.code) /\ c.base \in Nat

VARIABLES
    opts, code, base,   \* the arguments
    pc,            \* "bdd", "bundle", "inst", then "pass", "fail" or "assert"
    bdd_count, bdd_ninstr,   \* bytes and instructions the BDD has seen
    off,           \* count in lfiv_verify_x64: the offset of the current bundle
    count,         \* count in vchkbundle: the offset within the bundle
    ninstr,        \* instructions of the units consumed
    failed,        \* v.failed
    addr,          \* v.addr
    reports,       \* the addresses of the errors reported so far
    starts         \* history: the offsets where a unit was found

inputs == <<opts, code, base>>
vars == <<opts, code, base, pc, bdd_count, bdd_ninstr, off, count, ninstr, failed, addr,
          reports, starts>>

Offset == 0..(code.n - 1)

-----------------------------------------------------------------------------
(* Units. *)

\* What vchkbundle consumes at offset p when v.addr is a.
Unit(o, c, p, a) ==
    LET mi == macroinst(o, c, p, a)
    IN  IF mi.size > 0 THEN mi ELSE [size |-> c.fd[p].size, ninstr |-> 1]

IsMacro(o, c, p, a) == macroinst(o, c, p, a).size > 0

\* Whether it finds nothing to report there.
UnitOK(o, c, p, a) ==
    c.fd[p].type # "INVALID" /\ (IsMacro(o, c, p, a) \/ Checks(o, c.fd[p], a))

-----------------------------------------------------------------------------
(* The pass of the BDD. *)

Init ==
    /\ \E c \in Calls : opts = c.opts /\ code = c.code /\ base = c.base
    /\ pc = IF opts.no_bdd THEN "bundle" ELSE "bdd"
    /\ bdd_count = 0 /\ bdd_ninstr = 0
    /\ off = 0 /\ count = 0 /\ ninstr = 0
    /\ failed = FALSE /\ addr = base /\ reports = {} /\ starts = {}

verrmin(at) == /\ failed' = TRUE
               /\ reports' = IF opts.err THEN reports \cup {at} ELSE reports

BddStep ==
    /\ pc = "bdd" /\ bdd_count < code.n /\ code.bdd[bdd_count] # 0
    /\ addr' = addr + code.bdd[bdd_count]
    /\ bdd_count' = bdd_count + code.bdd[bdd_count]
    /\ bdd_ninstr' = bdd_ninstr + 1
    /\ UNCHANGED <<inputs, pc, off, count, ninstr, failed, reports, starts>>

\* Mutant: a byte the BDD does not know is stepped over.
BddUnknown_skipped ==
    /\ pc = "bdd" /\ bdd_count < code.n /\ code.bdd[bdd_count] = 0
    /\ bdd_count' = bdd_count + 1
    /\ UNCHANGED <<inputs, pc, bdd_ninstr, off, count, ninstr, failed, addr, reports, starts>>

BddUnknown ==
    /\ pc = "bdd" /\ bdd_count < code.n /\ code.bdd[bdd_count] = 0
    /\ verrmin(addr) /\ pc' = "fail"
    /\ UNCHANGED <<inputs, bdd_count, bdd_ninstr, off, count, ninstr, addr, starts>>

\* Mutant: v.addr is left where the BDD pass took it.
BddDone_noreset ==
    /\ pc = "bdd" /\ bdd_count >= code.n
    /\ pc' = "bundle"
    /\ UNCHANGED <<inputs, bdd_count, bdd_ninstr, off, count, ninstr, failed, addr, reports,
                   starts>>

BddDone ==
    /\ pc = "bdd" /\ bdd_count >= code.n
    /\ addr' = base /\ pc' = "bundle"
    /\ UNCHANGED <<inputs, bdd_count, bdd_ninstr, off, count, ninstr, failed, reports, starts>>

-----------------------------------------------------------------------------
(* The pass over the bundles. *)

StartBundle ==
    /\ pc = "bundle" /\ off < code.n
    /\ pc' = "inst" /\ count' = 0
    /\ UNCHANGED <<inputs, bdd_count, bdd_ninstr, off, ninstr, failed, addr, reports, starts>>

\* Mutant: the last byte of the code is never looked at.
InBundle_short == pc = "inst" /\ count < BundleSize /\ off + count + 1 < code.n

InBundle == pc = "inst" /\ count < BundleSize /\ off + count < code.n

At == off + count

\* vchkbundle has returned: the loop of lfiv_verify_x64 goes on to the next bundle.
NextBundle == /\ off' = off + BundleSize
              /\ pc' = IF failed' /\ ~opts.err THEN "fail" ELSE "bundle"

\* The rest of the bundle is given up; v.addr stays where it is.
UnknownInst ==
    /\ InBundle /\ code.fd[At].type = "INVALID"
    /\ verrmin(addr) /\ NextBundle
    /\ UNCHANGED <<inputs, bdd_count, bdd_ninstr, count, ninstr, addr, starts>>

\* Mutant: a unit may run over the end of its bundle.
CheckUnit_spanning ==
    /\ InBundle /\ code.fd[At].type # "INVALID"
    /\ LET unit == Unit(opts, code, At, addr) IN
         /\ addr' = addr + unit.size
         /\ count' = count + unit.size
         /\ ninstr' = ninstr + unit.ninstr
    /\ IF UnitOK(opts, code, At, addr) THEN UNCHANGED <<failed, reports>> ELSE verrmin(addr)
    /\ starts' = starts \cup {At}
    /\ UNCHANGED <<inputs, pc, bdd_count, bdd_ninstr, off>>

CheckUnit ==
    /\ InBundle /\ code.fd[At].type # "INVALID"
    /\ LET unit == Unit(opts, code, At, addr) IN
         /\ count + unit.size <= BundleSize
         /\ addr' = addr + unit.size
         /\ count' = count + unit.size
         /\ ninstr' = ninstr + unit.ninstr
    /\ IF UnitOK(opts, code, At, addr) THEN UNCHANGED <<failed, reports>> ELSE verrmin(addr)
    /\ starts' = starts \cup {At}
    /\ UNCHANGED <<inputs, pc, bdd_count, bdd_ninstr, off>>

\* v.abort: no later bundle is looked at.
UnitSpans ==
    /\ InBundle /\ code.fd[At].type # "INVALID"
    /\ count + Unit(opts, code, At, addr).size > BundleSize
    /\ verrmin(addr) /\ pc' = "fail"
    /\ UNCHANGED <<inputs, bdd_count, bdd_ninstr, off, count, ninstr, addr, starts>>

BundleDone ==
    /\ pc = "inst" /\ ~InBundle
    /\ UNCHANGED <<inputs, bdd_count, bdd_ninstr, count, ninstr, failed, addr, reports, starts>>
    /\ NextBundle

\* assert(bdd_ninstr == ninstr) ends the process when it fails.
Finish ==
    /\ pc = "bundle" /\ off >= code.n
    /\ pc' = IF failed THEN "fail"
             ELSE IF ~opts.no_bdd /\ bdd_ninstr # ninstr THEN "assert" ELSE "pass"
    /\ UNCHANGED <<inputs, bdd_count, bdd_ninstr, off, count, ninstr, failed, addr, reports,
                   starts>>

Done == pc \in {"pass", "fail", "assert"}

Next == BddStep \/ BddUnknown \/ BddDone \/ StartBundle \/ UnknownInst \/ CheckUnit
        \/ UnitSpans \/ BundleDone \/ Finish

Spec == Init /\ [][Next]_vars

\* A single-threaded call that is left to run.
FairSpec == Spec /\ WF_vars(Next)

-----------------------------------------------------------------------------
(* What valid code is, without running the passes. *)

\* The offsets where a unit starts that is in order and stays in its bundle.
GoodUnits(o, c, b) ==
    {p \in 0..(c.n - 1) :
       /\ UnitOK(o, c, p, b + p)
       /\ (p % BundleSize) + Unit(o, c, p, b + p).size <= BundleSize}

\* S takes the code apart: it holds every bundle start, and with a unit the next one.
TakesApart(o, c, b, S) ==
    /\ \A p \in 0..(c.n - 1) : p % BundleSize = 0 => p \in S
    /\ \A p \in S : LET next == p + Unit(o, c, p, b + p).size IN next < c.n => next \in S

ValidUnits(o, c, b) == \E S \in SUBSET GoodUnits(o, c, b) : TakesApart(o, c, b, S)

\* S holds the start of the code, and with an offset the one the BDD's length leads to.
LeadsOn(c, S) ==
    /\ c.n > 0 => 0 \in S
    /\ \A p \in S : p + c.bdd[p] < c.n => p + c.bdd[p] \in S

KnownLengths(c) == {p \in 0..(c.n - 1) : c.bdd[p] # 0}

ValidLengths(c) == \E S \in SUBSET KnownLengths(c) : LeadsOn(c, S)

Valid(o, c, b) == ValidUnits(o, c, b) /\ (o.no_bdd \/ ValidLengths(c))

\* Wherever fd_decode finds an instruction the BDD gives it the same length.
DecodersAgree(c) ==
    \A p \in 0..(c.n - 1) : c.fd[p].type # "INVALID" => c.bdd[p] = c.fd[p].size

-----------------------------------------------------------------------------
(* Properties. *)

\* The variables have their types, the second pass stays within a bundle, bundles start at
\* multiples of their size, and nothing is reported unless the caller gave a reporter.
TypeOK ==
    /\ \E c \in Calls : opts = c.opts /\ code = c.code /\ base = c.base
    /\ pc \in {"bdd", "bundle", "inst", "pass", "fail", "assert"}
    /\ bdd_count \in 0..(code.n + 254) /\ bdd_ninstr \in 0..bdd_count
    /\ off \in Nat /\ off % BundleSize = 0 /\ off < code.n + BundleSize
    /\ pc = "inst" => off < code.n
    /\ count \in 0..BundleSize
    /\ ninstr \in Nat /\ failed \in BOOLEAN /\ addr \in Nat
    /\ reports \subseteq Nat /\ starts \subseteq Offset
    /\ reports # {} => opts.err

\* lfiv_verify_x64 accepts -- and gets as far as its assertion -- exactly when the code is
\* valid, whether the passes stopped at the first error or went on with a reporter.
VerdictExact == Done => (pc \in {"pass", "assert"} <=> Valid(opts, code, base))

\* The assertion that the two passes saw the same number of instructions can fail only
\* when the BDD and fd_decode disagree on a length: the instruction counts of the
\* macro-instructions, which only the assertion reads, are right.
AssertMeansDisagreement == DecodersAgree(code) => pc # "assert"

\* Until something fails v.addr, which the alignment checks of branches, calls and return
\* addresses go by, is the address of the unit under consideration.
AddrTracks == pc = "inst" /\ ~failed => addr = base + At

\* "Verify the given code buffer, assuming a start address of vaddr."
\* (src/src/include/lfiv.h, struct LFIVerifier): the instruction at an offset of the code
\* is judged, and reported, as being at vaddr plus that offset.
AddrIsVaddrPlusOffset == pc = "inst" => addr = base + At

\* Where control may go from the unit at p, other than through a masked pointer: to the
\* next unit, to a direct target, or to the return address of a runtime call.
Arrivals(p) ==
    LET d == code.fd[p]
        isMacro == IsMacro(opts, code, p, base + p)
    IN  {p + Unit(opts, code, p, base + p).size}
          \cup {q \in {Target(d, base + p) - base} : ~isMacro /\ Direct(d)}
          \cup {q \in {p + d.size + d.ops[1].val} :
                  isMacro /\ d.type = "LEA" /\ d.ops[0].reg = R11}

\* In accepted code loaded at a bundle boundary, whatever control can reach inside the code
\* -- a bundle start, through a masked pointer; a branch target; the return address of a
\* runtime call; the next instruction -- is the start of a unit the pass has checked, never
\* the inside of an instruction or of a macro-instruction.
ArrivalsAreUnits ==
    pc = "pass" /\ base % BundleSize = 0 =>
      /\ \A p \in Offset : p % BundleSize = 0 => p \in starts
      /\ \A p \in starts : Arrivals(p) \cap Offset \subseteq starts

\* In accepted code a call through a register ends its bundle: the callee returns through a
\* masked pointer, which would miss any other return address.
CallsReturn ==
    pc = "pass" =>
      \A p \in starts :
        LET end == p + Unit(opts, code, p, base + p).size IN
        IsMacro(opts, code, p, base + p)
            /\ (\E q \in InstStarts(code, p, end) : fd_decode(code, q).type = "CALL")
          => (base + end) % BundleSize = 0

\* Code accepted for the full sandbox is accepted for the stores-only one.
BoxMonotone == pc = "pass" => Valid([opts EXCEPT !.box = "STORES"], code, base)

\* The code before and after offset m, on their own: fd_decode sees no bytes past the cut.
Before(c, m) ==
    [n |-> m, bdd |-> [p \in 0..(m - 1) |-> c.bdd[p]],
     fd |-> [p \in 0..(m - 1) |-> IF Second(c, p) <= m THEN c.fd[p] ELSE Undecodable]]

After(c, m) ==
    [n |-> c.n - m, fd |-> [p \in 0..(c.n - m - 1) |-> c.fd[m + p]],
     bdd |-> [p \in 0..(c.n - m - 1) |-> c.bdd[m + p]]]

\* Accepted code, cut between two bundles, consists of two pieces that take apart as
\* well: the look-ahead of the recognisers never made the verdict on one bundle depend on
\* the bytes of the next.
CutsPass ==
    pc = "pass" =>
      \A m \in {m \in Offset : m % BundleSize = 0} :
        \A piece \in {[code |-> Before(code, m), base |-> base],
                      [code |-> After(code, m), base |-> base + m]} :
          ValidUnits(opts, piece.code, piece.base)

ValidCall(c) == Valid(c.opts, c.code, c.base)

\* The passes implement the promise of lfiv_verify, and on code whose instructions the two
\* decoders agree on -- elsewhere the assertion may end the process -- they always answer.
Verdict == INSTANCE VerdictSpec WITH
             Truth   <- ValidCall,
             input   <- [opts |-> opts, code |-> code, base |-> base],
             verdict <- IF pc \in {"pass", "fail"} THEN pc ELSE "none"
ImplementsVerdict == Verdict!Spec /\ (DecodersAgree(code) => Verdict!Answers)
=============================================================================
