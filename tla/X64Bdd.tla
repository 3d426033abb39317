------------------------------- MODULE X64Bdd -------------------------------
(***************************************************************************)
(* The first pass of lfiv_verify_x64 (src/src/x64/verify.c) with the walk  *)
(* of the table that lfi_x86_bdd makes at every offset (src/src/x64/bdd.c).*)
(*                                                                         *)
(* Within BUF bytes of the end the walk reads a copy of what is left; the  *)
(* rest of insn_buf is what earlier copies left there.  A read outside of  *)
(* the bytes it is given may find either bit.  v.addr and the report of an *)
(* unknown instruction are in X64Verifier.                                 *)
(***************************************************************************)
EXTENDS X64Table

CONSTANTS Tables,   \* the tables considered; the code has one
          Codes     \* the code considered

ASSUME TablesAssumption == \A t \in Tables : IsTable(t)

ASSUME CodesAssumption == Codes \subseteq Seq(Byte)

VARIABLES
    table, code,
    pc,                      \* "loop", "lookup", "length", then "pass" or "fail"
    bdd_count, bdd_ninstr,   \* bytes and instructions so far
    insn_buf,
    copied,        \* whether insn is &insn_buf[0] or &insns[bdd_count]
    node,          \* the node lookup is at
    depth,         \* the calls of lookup on the stack, less one
    n,             \* what lfi_x86_bdd returned
    visited        \* history: the nodes where lookup has been at this offset

inputs == <<table, code>>
vars == <<table, code, pc, bdd_count, bdd_ninstr, insn_buf, copied, node, depth, n, visited>>

Left == Len(code) - bdd_count
AllZero == [q \in 0..(BUF - 1) |-> [k \in 0..(BITS - 1) |-> 0]]

Init ==
    /\ table \in Tables /\ code \in Codes
    /\ pc = "loop" /\ bdd_count = 0 /\ bdd_ninstr = 0
    /\ insn_buf = AllZero
    /\ copied = FALSE /\ node = table.entry /\ depth = 0 /\ n = 0 /\ visited = {}

\* memcpy to insn_buf from an offset of the code.
Copy(from) ==
    [q \in 0..(BUF - 1) |-> IF q < Left THEN code[from + q + 1] ELSE insn_buf[q]]

\* Mutant: the copy is made only when nothing at all is left.
StartLookup_nocopy ==
    /\ pc = "loop" /\ bdd_count < Len(code)
    /\ copied' = FALSE
    /\ pc' = "lookup" /\ node' = table.entry /\ depth' = 0 /\ visited' = {}
    /\ UNCHANGED <<inputs, bdd_count, bdd_ninstr, insn_buf, n>>

\* Mutant: the copy is made from the start of the code.
StartLookup_first ==
    /\ pc = "loop" /\ bdd_count < Len(code)
    /\ copied' = (Left < BUF)
    /\ insn_buf' = IF Left < BUF THEN Copy(0) ELSE insn_buf
    /\ pc' = "lookup" /\ node' = table.entry /\ depth' = 0 /\ visited' = {}
    /\ UNCHANGED <<inputs, bdd_count, bdd_ninstr, n>>

\* Mutant: the loop goes once round with nothing left.
StartLookup_once ==
    /\ pc = "loop" /\ bdd_count <= Len(code)
    /\ copied' = (Left < BUF)
    /\ insn_buf' = IF Left < BUF THEN Copy(bdd_count) ELSE insn_buf
    /\ pc' = "lookup" /\ node' = table.entry /\ depth' = 0 /\ visited' = {}
    /\ UNCHANGED <<inputs, bdd_count, bdd_ninstr, n>>

StartLookup ==
    /\ pc = "loop" /\ bdd_count < Len(code)
    /\ copied' = (Left < BUF)
    /\ insn_buf' = IF Left < BUF THEN Copy(bdd_count) ELSE insn_buf
    /\ pc' = "lookup" /\ node' = table.entry /\ depth' = 0 /\ visited' = {}
    /\ UNCHANGED <<inputs, bdd_count, bdd_ninstr, n>>

-----------------------------------------------------------------------------
(* lookup. *)

v == table.nodes[node].v

\* Whether insn holds the byte that the node asks for, and what it may find there.
Held == IF copied THEN v \div BITS < BUF ELSE bdd_count + v \div BITS < Len(code)

Read == IF ~Held THEN Bit
        ELSE IF copied THEN {insn_buf[v \div BITS][v % BITS]}
        ELSE {code[bdd_count + v \div BITS + 1][v % BITS]}

\* Mutant: terminal_lo is not looked at, and the length is taken for the number of a node.
Descend_lo ==
    /\ pc = "lookup"
    /\ \E bit \in Read :
         /\ bit = 1 => ~table.nodes[node].terminal[bit]
         /\ table.nodes[node].to[bit] \in DOMAIN table.nodes
         /\ node' = table.nodes[node].to[bit]
    /\ depth' = depth + 1 /\ visited' = visited \cup {node}
    /\ UNCHANGED <<inputs, pc, bdd_count, bdd_ninstr, insn_buf, copied, n>>

\* The call of lookup for the next node.
Descend ==
    /\ pc = "lookup"
    /\ \E bit \in Read :
         /\ ~table.nodes[node].terminal[bit]
         /\ node' = table.nodes[node].to[bit]
    /\ depth' = depth + 1 /\ visited' = visited \cup {node}
    /\ UNCHANGED <<inputs, pc, bdd_count, bdd_ninstr, insn_buf, copied, n>>

\* All the calls return the length.
Return ==
    /\ pc = "lookup"
    /\ \E bit \in Read :
         /\ table.nodes[node].terminal[bit]
         /\ n' = table.nodes[node].to[bit]
    /\ pc' = "length" /\ visited' = visited \cup {node}
    /\ UNCHANGED <<inputs, bdd_count, bdd_ninstr, insn_buf, copied, node, depth>>

-----------------------------------------------------------------------------
(* The loop of lfiv_verify_x64, and how it ends. *)

Advance ==
    /\ pc = "length" /\ n # 0
    /\ bdd_count' = bdd_count + n /\ bdd_ninstr' = bdd_ninstr + 1
    /\ pc' = "loop"
    /\ UNCHANGED <<inputs, insn_buf, copied, node, depth, n, visited>>

\* Mutant: an unknown instruction is tried once more.
Unknown_again ==
    /\ pc = "length" /\ n = 0
    /\ pc' = "loop"
    /\ UNCHANGED <<inputs, bdd_count, bdd_ninstr, insn_buf, copied, node, depth, n, visited>>

Unknown ==
    /\ pc = "length" /\ n = 0
    /\ pc' = "fail"
    /\ UNCHANGED <<inputs, bdd_count, bdd_ninstr, insn_buf, copied, node, depth, n, visited>>

Finish ==
    /\ pc = "loop" /\ bdd_count >= Len(code)
    /\ pc' = "pass"
    /\ UNCHANGED <<inputs, bdd_count, bdd_ninstr, insn_buf, copied, node, depth, n, visited>>

Next == StartLookup \/ Descend \/ Return \/ Advance \/ Unknown \/ Finish

Spec == Init /\ [][Next]_vars

\* A single-threaded call that is left to run.
FairSpec == Spec /\ WF_vars(Next)

-----------------------------------------------------------------------------
(* Properties. *)

\* The variables have their types; the pass overruns the code by less than an instruction.
TypeOK ==
    /\ table \in Tables /\ code \in Codes
    /\ pc \in {"loop", "lookup", "length", "pass", "fail"}
    /\ bdd_count \in 0..(Len(code) + BUF - 1) /\ bdd_ninstr \in 0..bdd_count
    /\ pc \in {"lookup", "length"} => bdd_count < Len(code)
    /\ insn_buf \in Inputs /\ copied \in BOOLEAN
    /\ node \in DOMAIN table.nodes /\ visited \subseteq DOMAIN table.nodes
    /\ depth \in Nat /\ n \in 0..BUF

\* lookup reads no byte outside of insn_buf or of the code, wherever the table leads it.
ReadsInBounds == pc = "lookup" => Held

\* The recursion of lookup, which only the table bounds, is never deeper than an
\* instruction has bits.
StackBounded == depth < BITS * BUF

\* What lfi_x86_bdd returns for a complete instruction is its length, and for anything else
\* 0 or a length that leads out of the code: what earlier copies left in insn_buf never
\* makes or changes an instruction.
LengthsExact ==
    pc = "length" =>
      IF n # 0 /\ bdd_count + n <= Len(code) THEN Lengths(table, code, bdd_count) = {n}
      ELSE Lengths(table, code, bdd_count) = {}

\* The pass keeps its promise to the second one, and always ends.
Pass == INSTANCE LengthSpec WITH
          count  <- bdd_count, ninstr <- bdd_ninstr,
          answer <- IF pc \in {"pass", "fail"} THEN pc ELSE "none"
ImplementsLengths == Pass!LiveSpec
=============================================================================
