------------------------------ MODULE MCX64Bdd ------------------------------
(***************************************************************************)
(* X64Bdd over every ordered table of three nodes that test a bit of the   *)
(* first, second and third byte -- bytes of two bits, instructions of up   *)
(* to three bytes -- and every code of up to four bytes, so that the last  *)
(* two offsets read copies and the last of them what the one before left.  *)
(***************************************************************************)
EXTENDS X64Bdd, SequencesExt

Leaf(len) == [to |-> len, terminal |-> TRUE]
Edge(i) == [to |-> i, terminal |-> FALSE]

MkNode(var, lo, hi) ==
    [v        |-> var,
     to       |-> [b \in Bit |-> IF b = 1 THEN hi.to ELSE lo.to],
     terminal |-> [b \in Bit |-> IF b = 1 THEN hi.terminal ELSE lo.terminal]]

Third == {MkNode(5, Leaf(0), Leaf(3)), MkNode(5, Leaf(3), Leaf(0))}

SecondEdges == {Leaf(0), Leaf(2), Edge(0)}
Second == {MkNode(2, lo, hi) : lo \in SecondEdges, hi \in SecondEdges}

FirstEdges == {Leaf(0), Leaf(1), Leaf(3), Edge(0), Edge(1)}
First == {MkNode(1, lo, hi) : lo \in FirstEdges, hi \in FirstEdges}

MCTables ==
    {[entry |-> 2, nodes |-> [i \in 0..2 |-> <<c, b, a>>[i + 1]]] :
       a \in First, b \in Second, c \in Third}

B(hi, lo) == [k \in 0..1 |-> IF k = 0 THEN hi ELSE lo]

MCCodes == BoundedSeq({B(0, 1), B(1, 0)}, 4)
=============================================================================
