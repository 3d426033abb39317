------------------------------ MODULE Arm64Exec ------------------------------
(***************************************************************************)
(* What the ARM64 verifier is for: a CPU executing regions of code that    *)
(* each passed lfiv_verify_arm64 under the same options, entered and left  *)
(* through the runtime.  The CPU and the runtime are external; they are    *)
(* modelled from what src/src/arm64/verify.c takes them to do, and not     *)
(* from its checks: which values the reserved registers get follows here   *)
(* from what an instruction computes, whatever okmod makes of it, and      *)
(* where it reaches from the registers, whatever okmemop makes of it.      *)
(*                                                                         *)
(* A register is known by the class of its value:                          *)
(*   "base"    the sandbox base, whose page is the runtime's;              *)
(*   "entry"   an entry point of the runtime;                              *)
(*   "box"     an address in the sandbox (or in its guard pages);          *)
(*   "ctx"     the context;                                                *)
(*   "any"     anything else.                                              *)
(***************************************************************************)
EXTENDS Arm64Code

CONSTANT Programs   \* options, and the regions of code verified under them

ASSUME ProgramsAssumption == Programs \subseteq [opts : Options, regions : Seq(Seq(Word))]

VARIABLES
    opts,      \* the options of the verification
    regions,   \* the regions of code in the sandbox
    where,     \* who executes: "box", "runtime", or "outside" what was verified
    at,        \* the word executed next in the sandbox: <<region, index>>
    regs       \* the class of each reserved register

vars == <<opts, regions, where, at, regs>>

Reserved == {REG_CTX, REG_BASE, REG_ADDR, REG_RET, 31}   \* 31 is sp
Class    == {"base", "entry", "box", "ctx", "any"}
Clean    == {"entry", "box"}   \* where control may go

\* The registers as the runtime leaves them, but for x30.
Arrival(x30) == [r \in Reserved |-> CASE r = REG_BASE -> "base"
                                      [] r = REG_RET -> x30
                                      [] r = REG_CTX -> IF opts.ctxreg THEN "ctx" ELSE "any"
                                      [] OTHER -> "box"]

Places == UNION {{r} \X (1..Len(regions[r])) : r \in DOMAIN regions}

-----------------------------------------------------------------------------
(* What an instruction computes. *)

\* The stores that write no register and that nmod does not list.
OtherStores == {"STURX", "STPW_POST", "STPW", "STP_FP_POST", "STR_IMM_FP"}

\* The register operands d loads or computes, by the instruction set: atomics return what
\* was in memory, compare-and-swap in the register it compares, and stores nothing, but for
\* the status of an exclusive one.
Destinations(d) ==
    IF d.group \in BranchGroups THEN {}
    ELSE IF d.group \in {"LDATOMIC", "SWP"} THEN {1}
    ELSE IF d.group = "CASP" \/ d.mnem \in PairLoads THEN {0, 1}
    ELSE IF d.mnem \in PlainStores \cup OtherStores THEN {}
    ELSE {0}

\* The registers d writes; 31 names xzr unless the operand is a stack pointer.
Written(d) == {d.ops[k].reg : k \in {k \in Destinations(d) :
                  /\ d.ops[k].type \in RegOps
                  /\ d.ops[k].reg = 31 => d.ops[k].type = "REGSP"}}

\* The registers d moves by a small immediate, and those it moves by a register.
Stepped(d) == {d.ops[k].reg : k \in {k \in OpIndex :
                  d.ops[k].type \in {"MEMSOFFPRE", "MEMSOFFPOST", "MEMINC"}}}
Moved(d)   == {d.ops[k].reg : k \in {k \in OpIndex : d.ops[k].type = "MEMREGPOST"}}

\* The 32 low bits of a register added to the base: the sandbox is 4GiB at the base.
AddsLowToBase(d) ==
    /\ d.mnem = "ADD_EXT" /\ d.ops[0].sf = 1
    /\ d.ops[1].reg = REG_BASE /\ regs[REG_BASE] = "base"
    /\ d.ops[2].ext = "UXTW" /\ d.ops[2].sf = 0 /\ d.ops[2].amt = 0

\* The runtime keeps its entry points, read-only, in the eight words around the base.
Table == {8 * n : n \in (-4)..3}

\* Scaled offsets are unsigned.
MemOffset(op) == IF op.type = "MEMUOFF" THEN op.imm ELSE SImm16(op.imm)

LoadsEntry(d) ==
    /\ \/ d.mnem = "LDR_IMM" /\ d.ops[1].type = "MEMUOFF"
       \/ d.mnem = "LDURX" /\ d.ops[1].type = "MEMSOFF"
    /\ d.ops[1].reg = REG_BASE /\ regs[REG_BASE] = "base"
    /\ MemOffset(d.ops[1]) \in Table

Result(d) == IF AddsLowToBase(d) THEN "box" ELSE IF LoadsEntry(d) THEN "entry" ELSE "any"

\* An address stepped out of the sandbox is in a guard page: the access traps.
Effect(d) ==
    [r \in Reserved |-> IF r \in Written(d) THEN Result(d)
                        ELSE IF r \in Moved(d) \/ (r \in Stepped(d) /\ regs[r] # "box")
                             THEN "any" ELSE regs[r]]

\* Where a branch to a value of the class leads.
Destination(class) == CASE class = "box" -> "box"
                        [] class \in {"base", "entry"} -> "runtime"
                        [] OTHER -> "outside"

Target(d) == IF d.mnem \in IndirectBranches /\ d.ops[0].reg \in Reserved \ {31}
             THEN regs[d.ops[0].reg] ELSE "any"

-----------------------------------------------------------------------------
(* Where an instruction reaches. *)

\* The instructions that store: what memory they write is that of their memory operand,
\* and for dc zva that of its register.
Stores(d) == d.mnem \in (PlainStores \cup OtherStores \cup
    {"STXRX", "SYS", "CASPAL", "CAS", "SWPAL", "SWPLB", "LDADDX", "LDADDW"})

MemTypes == {"MEMUOFF", "MEMSOFF", "MEMSOFFPRE", "MEMSOFFPOST", "MEMREG", "MEMREGPOST", "MEMINC"}

ClassOf(r) == IF r \in Reserved THEN regs[r] ELSE "any"

\* The sandbox, with guard pages wide enough for every offset; the runtime's table, and
\* what lies 32KiB or more behind the base; the 64-bit word the context register is for.
AddressInside(d, op) ==
    \/ op.type # "MEMREG" /\ ClassOf(op.reg) = "box"
    \/ op.type = "MEMREG" /\ ClassOf(op.reg) = "base" /\ op.ext = "UXTW" /\ op.amt = 0
    \/ /\ op.type \in {"MEMUOFF", "MEMSOFF"}
       /\ \/ /\ ClassOf(op.reg) = "base"
             /\ MemOffset(op) \in Table \/ MemOffset(op) >= 32768
          \/ /\ ClassOf(op.reg) = "ctx"
             /\ d.mnem \in {"LDR_IMM", "STR_IMM"} /\ MemOffset(op) = CTXREG_TP_OFFSET

Reaches(d) == /\ \A k \in OpIndex : d.ops[k].type \in MemTypes => AddressInside(d, d.ops[k])
              /\ d.mnem = "SYS" => ClassOf(d.ops[1].reg) = "box"

-----------------------------------------------------------------------------
(* Execution. *)

Init ==
    /\ \E p \in Programs :
         /\ \A r \in DOMAIN p.regions : Valid(p.opts, p.regions[r])
         /\ opts = p.opts /\ regions = p.regions
    /\ Places # {}
    /\ where = "runtime" /\ at \in Places
    /\ regs = Arrival("box")

\* The runtime starts the sandbox, or returns to it, with the registers set up.
Enter ==
    /\ where = "runtime" /\ where' = "box"
    /\ at' \in Places
    /\ \E x30 \in Clean : regs' = Arrival(x30)
    /\ UNCHANGED <<opts, regions>>

word == regions[at[1]][at[2]]
inst == da64_decode[word]

Executes == where = "box" /\ UNCHANGED <<opts, regions>>

\* Mutant: the end of a region is not the end of its code.
Falls_past == where' = where /\ at' = <<at[1], at[2] + 1>>

\* To the next word, or from the end of a region into the one that follows it.
Falls == /\ where' = where
         /\ IF at[2] < Len(regions[at[1]]) THEN at' = <<at[1], at[2] + 1>>
            ELSE at' \in {p \in Places : p[2] = 1}

\* An address with a wrong authentication code traps when it is used.
ExecHint == Executes /\ word \in HintWords /\ Falls /\ UNCHANGED regs

ExecPlain ==
    /\ Executes /\ word \notin HintWords /\ inst.group \notin BranchGroups
    /\ regs' = Effect(inst)
    /\ Falls

Link == regs' = IF inst.mnem \in {"BL", "BLR"} THEN [regs EXCEPT ![REG_RET] = "box"] ELSE regs

\* A direct branch reaches any word of the sandbox.
ExecDirect ==
    /\ Executes /\ word \notin HintWords /\ inst.group \in {"BRANCH", "BCOND"}
    /\ where' = where /\ at' \in Places /\ Link

ExecNotTaken ==
    /\ Executes /\ word \notin HintWords /\ inst.group = "BCOND"
    /\ Falls /\ UNCHANGED regs

ExecIndirect ==
    /\ Executes /\ word \notin HintWords /\ inst.group = "BRANCHREG"
    /\ where' = Destination(Target(inst))
    /\ at' \in (IF where' = "box" THEN Places ELSE {at})
    /\ Link

\* What executes outside of verified code is not modelled.
Lost == where = "outside" /\ UNCHANGED vars

Next == Enter \/ ExecHint \/ ExecPlain \/ ExecDirect \/ ExecNotTaken \/ ExecIndirect \/ Lost

Spec == Init /\ [][Next]_vars

-----------------------------------------------------------------------------
(* What okmod leaves to the code. *)

\* okmod looks at the operands an instruction writes, not at the writeback of its memory
\* operand, and takes any load of x30 from the base for one from the table; in the
\* stores-only sandbox okmemop asks neither of a load.  That d does not step x30, and
\* loads it from the base at the offsets of the table only, is then up to who writes d.
KeepsX30(d) ==
    /\ REG_RET \notin Stepped(d)
    /\ ModifiesX30(d) /\ SetsX30Guarded(d) /\ ~is_x30_guard(d) => MemOffset(d.ops[1]) \in Table

X30Kept ==
    \A r \in DOMAIN regions : \A k \in 1..Len(regions[r]) : KeepsX30(da64_decode[regions[r][k]])

-----------------------------------------------------------------------------
(* Properties. *)

\* The variables have their types, and at names a word of a region.
TypeOK == /\ opts \in Options /\ regions \in Seq(Seq(Word))
          /\ where \in {"box", "runtime", "outside"} /\ at \in Places
          /\ regs \in [Reserved -> Class]

\* While accepted code runs the base register holds the base, the address register and sp
\* an address in the sandbox, and the context register in use the context: okmod and
\* okmemop together, under every combination of options, over every path the program may
\* take, jumps into the middle of a guarded sequence included.
ReservedKept ==
    /\ regs[REG_BASE] = "base" /\ regs[REG_ADDR] = "box" /\ regs[31] = "box"
    /\ opts.ctxreg => regs[REG_CTX] = "ctx"

\* Every access accepted code makes, in the stores-only sandbox every store, is to the
\* sandbox, to the runtime's table or, with 64 bits, to the context.  The read of [x30]
\* is apart: it is there to find out whether x30 points to readable memory.
AccessesInside ==
    /\ where = "box" /\ word \notin HintWords /\ ~is_x30_ldr_guard(inst)
    /\ opts.box = "FULL" \/ Stores(inst)
    => Reaches(inst)

\* x30 is clean wherever the verifier takes it to be guarded: "Any other modification to
\* x30 unguards it" (okmod).  Not so in the stores-only sandbox, where a load may step it.
CleanWhereGuarded ==
    where = "box" /\ GuardedBefore(regions[at[1]], at[2]) => regs[REG_RET] \in Clean

StaysInside == where # "outside"

\* Control arrives other than from the word before: by a branch, from the runtime or from
\* another region.
Arrives == where' = "box" /\ (where = "box" => at' # <<at[1], at[2] + 1>>)

\* Accepted code never gets out of what was verified, in the full sandbox: chkbranch,
\* okmod, okmemop and the end-of-code check together.
FullStaysInside == opts.box = "FULL" => StaysInside

\* In the full sandbox x30 is clean wherever control arrives, as the verifier assumes at
\* the start of the code and for every word it has no guard before.
FullLandsClean == [][opts.box = "FULL" /\ Arrives => regs'[REG_RET] \in Clean]_vars

\* In the stores-only sandbox accepted code stays inside if it keeps x30: the two forms
\* KeepsX30 names are the only ones by which a guard fails.
StoresStayInsideIfX30Kept == opts.box = "STORES" /\ X30Kept => StaysInside
=============================================================================
