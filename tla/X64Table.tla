------------------------------- MODULE X64Table -------------------------------
(***************************************************************************)
(* The decision diagram of x86 instructions (src/src/x64/x86-all.bdd.h, a  *)
(* generated table of nodes; x86-all.bdd.c holds the same nodes as code)   *)
(* and what it means, apart from how src/src/x64/bdd.c walks it.           *)
(*                                                                         *)
(* A byte is given by its bits, the most significant first.  A node tests  *)
(* bit v % BITS of byte v \div BITS; for either value of the bit it has an *)
(* edge, to another node or, if terminal, to the length of the instruction *)
(* (0: there is none).  Edge 1 is hi and terminal_hi, edge 0 lo and        *)
(* terminal_lo.                                                            *)
(***************************************************************************)
EXTENDS Integers, Sequences

CONSTANTS BITS,   \* the bits of a byte, 8
          BUF     \* sizeof(insn_buf), 15: the length of the longest instruction

ASSUME SizesAssumption == BITS \in Nat \ {0} /\ BUF \in Nat \ {0}

Bit == {0, 1}
Byte == [0..(BITS - 1) -> Bit]

Node == [v : Nat, to : [Bit -> Nat], terminal : [Bit -> BOOLEAN]]

Inputs == [0..(BUF - 1) -> Byte]

\* The table is ordered: along an edge v grows.  A length is at most BUF and is found
\* without looking at a byte past it; need[i] is the shortest length that node i leads to,
\* BUF + 1 if there is none.
IsTable(t) ==
    /\ t.nodes \in [DOMAIN t.nodes -> Node] /\ DOMAIN t.nodes \subseteq Nat
    /\ t.entry \in DOMAIN t.nodes
    /\ \A i \in DOMAIN t.nodes :
         /\ t.nodes[i].v < BITS * BUF
         /\ \A b \in Bit :
              IF t.nodes[i].terminal[b] THEN t.nodes[i].to[b] <= BUF
              ELSE /\ t.nodes[i].to[b] \in DOMAIN t.nodes
                   /\ t.nodes[i].v < t.nodes[t.nodes[i].to[b]].v
    /\ \E need \in [DOMAIN t.nodes -> 1..(BUF + 1)] :
         \A i \in DOMAIN t.nodes :
           /\ t.nodes[i].v \div BITS < need[i]
           /\ \A b \in Bit :
                IF t.nodes[i].terminal[b]
                THEN t.nodes[i].to[b] # 0 => need[i] <= t.nodes[i].to[b]
                ELSE need[i] <= need[t.nodes[i].to[b]]

-----------------------------------------------------------------------------
(* What the table says of an input. *)

\* The edge of node i that an input takes.
BitOf(in, v) == in[v \div BITS][v % BITS]
IsLeaf(t, in, i) == t.nodes[i].terminal[BitOf(in, t.nodes[i].v)]
Follow(t, in, i) == t.nodes[i].to[BitOf(in, t.nodes[i].v)]

\* S holds the entry, and with a node the one that the input leads to.
Closed(t, in, S) ==
    /\ t.entry \in S
    /\ \A i \in S : ~IsLeaf(t, in, i) => Follow(t, in, i) \in S

\* The input leads from the entry to a terminal edge with the length len.
Gives(t, in, len) ==
    \A S \in SUBSET DOMAIN t.nodes :
      Closed(t, in, S) => \E i \in S : IsLeaf(t, in, i) /\ Follow(t, in, i) = len

\* The bytes of the code s from offset p, as many as there are of the first len.
Agrees(in, s, p, len) == \A q \in 0..(len - 1) : p + q < Len(s) => in[q] = s[p + q + 1]

\* The lengths of the complete instructions at offset p of the code s.
Lengths(t, s, p) ==
    {len \in 1..BUF : /\ p + len <= Len(s)
                      /\ \E in \in Inputs : Agrees(in, s, p, len) /\ Gives(t, in, len)}
=============================================================================
