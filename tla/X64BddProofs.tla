---------------------------- MODULE X64BddProofs ----------------------------
(***************************************************************************)
(* Theorems about X64Bdd, for every table that IsTable describes and every *)
(* code.  What the table gives for an input is defined by the sets of      *)
(* nodes that are closed under it; the walk is in all of them, and the     *)
(* nodes where it has been, once it ends, are one.                         *)
(***************************************************************************)
EXTENDS X64Bdd, TLAPS

LEMMA DivMod ==
    ASSUME NEW a \in Nat, NEW b \in Nat \ {0}
    PROVE  /\ a \div b \in Nat /\ a % b \in 0..(b - 1)
           /\ a = b * (a \div b) + (a % b)
  OBVIOUS

LEMMA DivBound ==
    ASSUME NEW a \in Nat, NEW b \in Nat \ {0}, NEW c \in Nat, a < b * c
    PROVE  a \div b \in 0..(c - 1) /\ a % b \in 0..(b - 1)
<1> DEFINE q == a \div b
<1>1. a = b * q + (a % b) /\ a % b \in 0..(b - 1) /\ q \in Nat
  BY DivMod
<1>2. q < c
  <2>1. SUFFICES ASSUME q >= c PROVE FALSE
    BY <1>1
  <2>2. b * q >= b * c
    BY <1>1, <2>1
  <2> QED
    BY <1>1, <2>2
<1> QED
  BY <1>1, <1>2

-----------------------------------------------------------------------------
(* What the table gives. *)

\* A node of a table asks for a bit of one of the first BUF bytes.
LEMMA NodeAsks ==
    ASSUME NEW t, IsTable(t), NEW i \in DOMAIN t.nodes
    PROVE  /\ t.nodes[i] \in Node
           /\ t.nodes[i].v \div BITS \in 0..(BUF - 1) /\ t.nodes[i].v % BITS \in 0..(BITS - 1)
<1>1. t.nodes[i] \in Node /\ t.nodes[i].v < BITS * BUF
  BY DEF IsTable
<1>2. t.nodes[i].v \in Nat
  BY <1>1 DEF Node
<1> QED
  BY <1>1, <1>2, SizesAssumption, DivBound

LEMMA BitTyped ==
    ASSUME NEW t, IsTable(t), NEW i \in DOMAIN t.nodes, NEW in \in Inputs
    PROVE  BitOf(in, t.nodes[i].v) \in Bit
BY NodeAsks DEF BitOf, Inputs, Byte

\* The bytes after an instruction do not matter: two inputs that agree on its bytes lead to
\* the same length.
LEMMA OnlyItsBytes ==
    ASSUME NEW t, IsTable(t), NEW in \in Inputs, NEW other \in Inputs,
           NEW len \in 1..BUF, \A q \in 0..(len - 1) : in[q] = other[q],
           Gives(t, in, len)
    PROVE  Gives(t, other, len)
<1> DEFINE N == DOMAIN t.nodes
<1>1. PICK need \in [N -> 1..(BUF + 1)] :
         \A i \in N :
           /\ t.nodes[i].v \div BITS < need[i]
           /\ \A b \in Bit :
                IF t.nodes[i].terminal[b]
                THEN t.nodes[i].to[b] # 0 => need[i] <= t.nodes[i].to[b]
                ELSE need[i] <= need[t.nodes[i].to[b]]
  BY DEF IsTable
<1> SUFFICES ASSUME NEW S \in SUBSET N, Closed(t, other, S)
             PROVE  \E i \in S : IsLeaf(t, other, i) /\ Follow(t, other, i) = len
  BY DEF Gives
<1> DEFINE Wide == S \cup {i \in N : need[i] > len}
<1>2. ASSUME NEW i \in N, need[i] <= len PROVE BitOf(in, t.nodes[i].v) = BitOf(other, t.nodes[i].v)
  <2>1. t.nodes[i].v \div BITS \in 0..(len - 1)
    BY <1>1, <1>2, NodeAsks
  <2> QED
    BY <2>1 DEF BitOf
<1>3. ASSUME NEW i \in Wide, ~IsLeaf(t, in, i) PROVE Follow(t, in, i) \in Wide
  <2> DEFINE b == BitOf(in, t.nodes[i].v)
  <2>1. i \in N /\ b \in Bit
    BY BitTyped
  <2>2. /\ ~t.nodes[i].terminal[b] /\ Follow(t, in, i) = t.nodes[i].to[b]
    BY <1>3 DEF IsLeaf, Follow
  <2>3. /\ t.nodes[i].to[b] \in N /\ need[i] <= need[t.nodes[i].to[b]]
    BY <1>1, <2>1, <2>2 DEF IsTable
  <2>4. CASE need[i] > len
    BY <2>1, <2>2, <2>3, <2>4
  <2>5. CASE need[i] <= len
    <3>1. i \in S /\ BitOf(other, t.nodes[i].v) = b
      BY <1>2, <2>1, <2>5
    <3> QED
      BY <2>2, <3>1 DEF Closed, IsLeaf, Follow
  <2> QED
    BY <2>1, <2>4, <2>5
<1>4. Wide \in SUBSET N /\ Closed(t, in, Wide)
  BY <1>3 DEF Closed
<1>5. PICK i \in Wide : IsLeaf(t, in, i) /\ Follow(t, in, i) = len
  BY <1>4 DEF Gives
<1>6. need[i] <= len
  <2> DEFINE b == BitOf(in, t.nodes[i].v)
  <2>1. i \in N /\ b \in Bit
    BY BitTyped
  <2>2. t.nodes[i].terminal[b] /\ t.nodes[i].to[b] = len
    BY <1>5 DEF IsLeaf, Follow
  <2> QED
    BY <1>1, <2>1, <2>2
<1>7. i \in S /\ BitOf(in, t.nodes[i].v) = BitOf(other, t.nodes[i].v)
  BY <1>2, <1>6
<1> QED
  BY <1>5, <1>7 DEF IsLeaf, Follow

-----------------------------------------------------------------------------
(* Types, reads and the stack. *)

\* What the walk is given to read.
Seen == [q \in 0..(BUF - 1) |-> IF copied THEN insn_buf[q] ELSE code[bdd_count + q + 1]]

\* Until the walk returns it has gone no deeper than the table is ordered, and reads either
\* a copy of all that is left or at least BUF bytes of the code.
ReadInv ==
    /\ depth < BITS * BUF
    /\ pc = "lookup" => depth <= table.nodes[node].v
    /\ pc \in {"lookup", "length"} =>
         /\ copied <=> Left < BUF
         /\ copied => \A q \in 0..(Left - 1) : insn_buf[q] = code[bdd_count + q + 1]

TypeInv == TypeOK /\ ReadInv

LEMMA TableTyped ==
    TypeOK => /\ IsTable(table) /\ code \in Seq(Byte) /\ Len(code) \in Nat
              /\ table.nodes[node] \in Node /\ v \in Nat
              /\ v \div BITS \in 0..(BUF - 1) /\ v % BITS \in 0..(BITS - 1)
<1> SUFFICES ASSUME TypeOK
             PROVE  /\ IsTable(table) /\ code \in Seq(Byte) /\ Len(code) \in Nat
                    /\ table.nodes[node] \in Node /\ v \in Nat
                    /\ v \div BITS \in 0..(BUF - 1) /\ v % BITS \in 0..(BITS - 1)
  OBVIOUS
<1>1. IsTable(table) /\ code \in Seq(Byte) /\ node \in DOMAIN table.nodes
  BY TablesAssumption, CodesAssumption DEF TypeOK
<1>2. table.nodes[node] \in Node
  BY <1>1, NodeAsks
<1> QED
  BY <1>1, <1>2, NodeAsks DEF v, Node

LEMMA HeldThere == TypeInv /\ pc = "lookup" => Held
<1> SUFFICES ASSUME TypeInv, pc = "lookup" PROVE Held
  OBVIOUS
<1>1. TypeOK /\ v \div BITS \in 0..(BUF - 1) /\ Len(code) \in Nat
  BY TableTyped DEF TypeInv
<1>2. copied <=> Left < BUF
  BY DEF TypeInv, ReadInv
<1> QED
  BY <1>1, <1>2, SizesAssumption DEF Held, Left, TypeOK

\* In bounds, the walk reads the bit of what it is given.
LEMMA ReadsSeen ==
    TypeInv /\ pc = "lookup" =>
      /\ Seen \in Inputs /\ Read = {BitOf(Seen, v)} /\ BitOf(Seen, v) \in Bit
<1> SUFFICES ASSUME TypeInv, pc = "lookup"
             PROVE  Seen \in Inputs /\ Read = {BitOf(Seen, v)} /\ BitOf(Seen, v) \in Bit
  OBVIOUS
<1>1. TypeOK /\ v \div BITS \in 0..(BUF - 1) /\ v % BITS \in 0..(BITS - 1)
      /\ Len(code) \in Nat /\ code \in Seq(Byte) /\ Held
  BY TableTyped, HeldThere DEF TypeInv
<1>2. copied <=> Left < BUF
  BY DEF TypeInv, ReadInv
<1>3. Seen \in Inputs
  <2>1. ASSUME NEW q \in 0..(BUF - 1) PROVE Seen[q] \in Byte
    <3>1. CASE copied
      BY <1>1, <2>1, <3>1 DEF Seen, TypeOK, Inputs
    <3>2. CASE ~copied
      <4>1. bdd_count + q + 1 \in 1..Len(code)
        BY <1>1, <1>2, <2>1, <3>2, SizesAssumption DEF Left, TypeOK
      <4> QED
        BY <1>1, <2>1, <3>2, <4>1 DEF Seen
    <3> QED
      BY <3>1, <3>2
  <2> QED
    BY <2>1 DEF Seen, Inputs
<1>4. Read = {BitOf(Seen, v)}
  BY <1>1 DEF Read, BitOf, Seen
<1>5. BitOf(Seen, v) \in Bit
  BY <1>1, <1>3 DEF BitOf, Inputs, Byte
<1> QED
  BY <1>3, <1>4, <1>5

LEMMA InitTyped == Init => TypeInv
<1> SUFFICES ASSUME Init PROVE TypeInv
  OBVIOUS
<1>1. table.entry \in DOMAIN table.nodes /\ Len(code) \in Nat
  BY TablesAssumption, CodesAssumption DEF Init, IsTable
<1>2. AllZero \in Inputs
  BY DEF AllZero, Inputs, Byte, Bit
<1>3. BITS * BUF > 0
  BY SizesAssumption
<1>4. 0 \in 0..(Len(code) + BUF - 1) /\ 0 \in 0..BUF /\ 0 \in 0..0
  BY <1>1, SizesAssumption
<1> QED
  <2>1. TypeOK
    BY <1>1, <1>2, <1>4 DEF Init, TypeOK
  <2>2. ReadInv
    BY <1>3 DEF Init, ReadInv
  <2> QED
    BY <2>1, <2>2 DEF TypeInv

LEMMA TypePreserved == TypeInv /\ [Next]_vars => TypeInv'
<1> SUFFICES ASSUME TypeInv, [Next]_vars PROVE TypeInv'
  OBVIOUS
<1>0. TypeOK /\ IsTable(table) /\ code \in Seq(Byte) /\ Len(code) \in Nat /\ v \in Nat
  BY TableTyped DEF TypeInv
<1>1. CASE StartLookup
  <2>1. Left \in Nat \ {0} /\ Left' = Left
    BY <1>0, <1>1 DEF StartLookup, Left, TypeOK, inputs
  <2>2. Copy(bdd_count) \in Inputs
    <3>1. ASSUME NEW q \in 0..(BUF - 1), q < Left PROVE code[bdd_count + q + 1] \in Byte
      BY <1>0, <3>1 DEF Left, TypeOK
    <3> QED
      BY <1>0, <3>1 DEF Copy, TypeOK, Inputs
  <2>3. TypeOK'
    BY <1>0, <1>1, <2>2 DEF StartLookup, inputs, TypeOK, IsTable
  <2>4. ReadInv'
    <3>1. depth' = 0 /\ node' = table.entry /\ table' = table /\ table.nodes[table.entry].v \in Nat
      BY <1>0, <1>1 DEF StartLookup, inputs, IsTable, Node
    <3>2. 0 < BITS * BUF
      BY SizesAssumption
    <3>3. copied' <=> Left' < BUF
      BY <1>1, <2>1 DEF StartLookup
    <3>4. copied' => \A q \in 0..(Left' - 1) : insn_buf'[q] = code'[bdd_count' + q + 1]
      BY <1>1, <2>1, SizesAssumption DEF StartLookup, inputs, Copy
    <3> QED
      BY <3>1, <3>2, <3>3, <3>4 DEF ReadInv
  <2> QED
    BY <2>3, <2>4 DEF TypeInv
<1>2. CASE Descend
  <2>1. PICK bit \in Bit : ~table.nodes[node].terminal[bit] /\ node' = table.nodes[node].to[bit]
    BY <1>2, ReadsSeen DEF Descend
  <2>2. node' \in DOMAIN table.nodes /\ v < table.nodes[node'].v
        /\ table.nodes[node'].v < BITS * BUF /\ table.nodes[node'].v \in Nat
    <3>1. node' \in DOMAIN table.nodes /\ v < table.nodes[node'].v
      BY <1>0, <2>1 DEF IsTable, TypeOK, v
    <3> QED
      BY <1>0, <3>1 DEF IsTable, Node
  <2>3. TypeOK'
    BY <1>0, <1>2, <2>2 DEF Descend, inputs, TypeOK
  <2>4. ReadInv'
    <3>1. depth' = depth + 1 /\ depth <= v /\ depth \in Nat
      BY <1>0, <1>2 DEF Descend, TypeInv, ReadInv, TypeOK, v
    <3>2. depth' <= table.nodes[node'].v /\ depth' < BITS * BUF
      BY <1>0, <2>2, <3>1, SizesAssumption
    <3>3. Left' = Left
      BY <1>2 DEF Descend, inputs, Left
    <3> QED
      BY <1>2, <3>2, <3>3 DEF Descend, inputs, TypeInv, ReadInv
  <2> QED
    BY <2>3, <2>4 DEF TypeInv
<1>3. CASE Return
  <2>1. PICK bit \in Bit : table.nodes[node].terminal[bit] /\ n' = table.nodes[node].to[bit]
    BY <1>3, ReadsSeen DEF Return
  <2>2. n' \in 0..BUF
    <3>1. table.nodes[node].to[bit] <= BUF /\ table.nodes[node] \in Node
      BY <1>0, <2>1 DEF IsTable, TypeOK
    <3> QED
      BY <2>1, <3>1, SizesAssumption DEF Node
  <2>3. TypeOK'
    BY <1>0, <1>3, <2>2 DEF Return, inputs, TypeOK
  <2>4. ReadInv'
    BY <1>3 DEF Return, inputs, TypeInv, ReadInv, Left
  <2> QED
    BY <2>3, <2>4 DEF TypeInv
<1>4. CASE Advance
  <2>1. TypeOK'
    BY <1>0, <1>4, SizesAssumption DEF Advance, inputs, TypeOK
  <2> QED
    BY <1>4, <2>1 DEF Advance, inputs, TypeInv, ReadInv
<1>5. CASE Unknown \/ Finish
  <2>1. TypeOK'
    BY <1>0, <1>5 DEF Unknown, Finish, inputs, TypeOK
  <2> QED
    BY <1>5, <2>1 DEF Unknown, Finish, inputs, TypeInv, ReadInv
<1>6. CASE UNCHANGED vars
  BY <1>6 DEF vars, inputs, TypeInv, TypeOK, ReadInv, Left
<1> QED
  BY <1>1, <1>2, <1>3, <1>4, <1>5, <1>6 DEF Next

LEMMA TypeInvariance == Spec => []TypeInv
BY InitTyped, TypePreserved, PTL DEF Spec

\* The variables of the pass have their types (lfiv_verify_x64, lookup).
THEOREM TypeCorrect == Spec => []TypeOK
<1>1. TypeInv => TypeOK
  BY DEF TypeInv
<1> QED
  BY <1>1, TypeInvariance, PTL

\* lookup stays within the bytes it is given, for any ordered table (bdd.c and the copy
\* that lfiv_verify_x64 makes near the end).
THEOREM ReadsCorrect == Spec => []ReadsInBounds
<1>1. TypeInv => ReadsInBounds
  BY HeldThere DEF ReadsInBounds
<1> QED
  BY <1>1, TypeInvariance, PTL

\* lookup recurses no deeper than an instruction has bits.
THEOREM StackCorrect == Spec => []StackBounded
<1>1. TypeInv => StackBounded
  BY DEF TypeInv, ReadInv, StackBounded
<1> QED
  BY <1>1, TypeInvariance, PTL

-----------------------------------------------------------------------------
(* What the walk finds. *)

\* Every set of nodes that is closed under what the walk reads holds the node it is at; and
\* the nodes where it has been lead to each other and to that node.
WalkInv ==
    /\ pc \in {"lookup", "length"} =>
         /\ \A S \in SUBSET DOMAIN table.nodes : Closed(table, Seen, S) => node \in S
         /\ table.entry \in visited \cup {node}
         /\ \A i \in visited \ {node} :
              ~IsLeaf(table, Seen, i) /\ Follow(table, Seen, i) \in visited \cup {node}
    /\ pc = "lookup" => node \notin visited /\ \A i \in visited : table.nodes[i].v < v
    /\ pc = "length" => /\ node \in visited /\ IsLeaf(table, Seen, node)
                        /\ Follow(table, Seen, node) = n

LEMMA WalkInitially == Init => WalkInv
  BY DEF Init, WalkInv

LEMMA WalkPreserved == TypeInv /\ TypeInv' /\ WalkInv /\ [Next]_vars => WalkInv'
<1> SUFFICES ASSUME TypeInv, TypeInv', WalkInv, [Next]_vars PROVE WalkInv'
  OBVIOUS
<1>0. TypeOK /\ IsTable(table) /\ v \in Nat /\ node \in DOMAIN table.nodes
      /\ \A i \in DOMAIN table.nodes : table.nodes[i].v \in Nat
  BY TableTyped, NodeAsks DEF TypeInv, TypeOK, Node
<1>1. CASE StartLookup
  BY <1>1 DEF StartLookup, inputs, WalkInv, Closed, v
<1>2. CASE Descend \/ Return
  <2>1. Seen' = Seen /\ table' = table /\ visited' = visited \cup {node} /\ pc = "lookup"
    BY <1>2 DEF Descend, Return, inputs, Seen
  <2> DEFINE bit == BitOf(Seen, v)
  <2>2. Read = {bit}
    BY <2>1, ReadsSeen
  <2>3. CASE Descend
    <3>1. /\ pc' = "lookup" /\ ~IsLeaf(table, Seen, node) /\ node' = Follow(table, Seen, node)
      BY <2>2, <2>3 DEF Descend, IsLeaf, Follow, v
    <3>2. node' \in DOMAIN table.nodes /\ v < table.nodes[node'].v
      <4>1. bit \in Bit
        BY <2>1, ReadsSeen
      <4> QED
        BY <1>0, <3>1, <4>1 DEF IsTable, IsLeaf, Follow, v
    <3>3. \A S \in SUBSET DOMAIN table.nodes : Closed(table, Seen, S) => node' \in S
      BY <2>1, <3>1 DEF WalkInv, Closed
    <3>4. \A i \in visited' : table.nodes[i].v < table.nodes[node'].v
      <4>1. ASSUME NEW i \in visited' PROVE table.nodes[i].v < table.nodes[node'].v
        <5>1. i \in DOMAIN table.nodes /\ table.nodes[i].v <= v
          BY <1>0, <2>1, <4>1 DEF WalkInv, TypeOK, v
        <5> QED
          BY <1>0, <3>2, <5>1
      <4> QED
        BY <4>1
    <3>5. node' \notin visited'
      <4>1. ~(table.nodes[node'].v < table.nodes[node'].v)
        BY <1>0, <3>2
      <4> QED
        BY <3>4, <4>1
    <3>6. \A i \in visited' \ {node'} :
            ~IsLeaf(table, Seen, i) /\ Follow(table, Seen, i) \in visited' \cup {node'}
      BY <2>1, <3>1 DEF WalkInv
    <3>7. table.entry \in visited'
      BY <2>1 DEF WalkInv
    <3> QED
      BY <2>1, <3>1, <3>3, <3>4, <3>5, <3>6, <3>7 DEF WalkInv, v
  <2>4. CASE Return
    <3>1. /\ pc' = "length" /\ IsLeaf(table, Seen, node) /\ n' = Follow(table, Seen, node)
          /\ node' = node
      BY <2>2, <2>4 DEF Return, IsLeaf, Follow, v
    <3> QED
      BY <2>1, <3>1 DEF WalkInv
  <2> QED
    BY <1>2, <2>3, <2>4
<1>3. CASE Advance \/ Unknown \/ Finish
  BY <1>3 DEF Advance, Unknown, Finish, WalkInv
<1>4. CASE UNCHANGED vars
  BY <1>4 DEF vars, inputs, WalkInv, Seen, v
<1> QED
  BY <1>1, <1>2, <1>3, <1>4 DEF Next

\* When the walk has ended the table gives what it found, and nothing else.
LEMMA WalkGives ==
    ASSUME TypeInv, WalkInv, pc = "length"
    PROVE  Gives(table, Seen, n) /\ \A len : Gives(table, Seen, len) => len = n
<1>1. Gives(table, Seen, n)
  BY DEF WalkInv, Gives
<1>2. visited \in SUBSET DOMAIN table.nodes /\ Closed(table, Seen, visited)
  BY DEF TypeInv, TypeOK, WalkInv, Closed
<1>3. ASSUME NEW len, Gives(table, Seen, len) PROVE len = n
  <2>1. PICK i \in visited : IsLeaf(table, Seen, i) /\ Follow(table, Seen, i) = len
    BY <1>2, <1>3 DEF Gives
  <2>2. i = node
    BY <2>1 DEF WalkInv
  <2> QED
    BY <2>1, <2>2 DEF WalkInv
<1> QED
  BY <1>1, <1>3

LEMMA SeenTyped ==
    TypeInv /\ pc = "length" =>
      /\ Seen \in Inputs
      /\ \A q \in 0..(BUF - 1) : q < Left => Seen[q] = code[bdd_count + q + 1]
<1> SUFFICES ASSUME TypeInv, pc = "length"
             PROVE  /\ Seen \in Inputs
                    /\ \A q \in 0..(BUF - 1) : q < Left => Seen[q] = code[bdd_count + q + 1]
  OBVIOUS
<1>1. TypeOK /\ Len(code) \in Nat /\ code \in Seq(Byte) /\ Left \in Nat
  BY TableTyped DEF TypeInv, TypeOK, Left
<1>2. /\ copied <=> Left < BUF
      /\ copied => \A q \in 0..(Left - 1) : insn_buf[q] = code[bdd_count + q + 1]
  BY DEF TypeInv, ReadInv
<1>3. ASSUME NEW q \in 0..(BUF - 1) PROVE Seen[q] \in Byte
  <2>1. CASE copied
    BY <1>1, <1>3, <2>1 DEF Seen, TypeOK, Inputs
  <2>2. CASE ~copied
    <3>1. bdd_count + q + 1 \in 1..Len(code)
      BY <1>1, <1>2, <1>3, <2>2, SizesAssumption DEF Left, TypeOK
    <3> QED
      BY <1>1, <1>3, <2>2, <3>1 DEF Seen
  <2> QED
    BY <2>1, <2>2
<1>4. Seen \in Inputs
  BY <1>3 DEF Seen, Inputs
<1>5. ASSUME NEW q \in 0..(BUF - 1), q < Left PROVE Seen[q] = code[bdd_count + q + 1]
  BY <1>1, <1>2, <1>5 DEF Seen
<1> QED
  BY <1>4, <1>5

LEMMA LengthsFound == TypeInv /\ WalkInv => LengthsExact
<1> SUFFICES ASSUME TypeInv, WalkInv, pc = "length"
             PROVE  IF n # 0 /\ bdd_count + n <= Len(code)
                    THEN Lengths(table, code, bdd_count) = {n}
                    ELSE Lengths(table, code, bdd_count) = {}
  BY DEF LengthsExact
<1>1. TypeOK /\ IsTable(table) /\ Len(code) \in Nat /\ Left \in Nat /\ n \in 0..BUF
      /\ bdd_count \in Nat
  BY TableTyped DEF TypeInv, TypeOK, Left
<1>2. ASSUME NEW len \in Lengths(table, code, bdd_count)
      PROVE  len = n /\ len \in 1..BUF /\ bdd_count + len <= Len(code)
  <2>1. len \in 1..BUF /\ bdd_count + len <= Len(code)
    BY <1>2 DEF Lengths
  <2>2. PICK in \in Inputs : Agrees(in, code, bdd_count, len) /\ Gives(table, in, len)
    BY <1>2 DEF Lengths
  <2>3. ASSUME NEW q \in 0..(len - 1) PROVE in[q] = Seen[q]
    <3>1. q \in 0..(BUF - 1) /\ q < Left /\ bdd_count + q < Len(code)
      BY <1>1, <2>1, <2>3, SizesAssumption DEF Left
    <3> QED
      BY <2>2, <2>3, <3>1, SeenTyped DEF Agrees
  <2>4. Gives(table, Seen, len)
    BY <1>1, <2>1, <2>2, <2>3, SeenTyped, OnlyItsBytes
  <2> QED
    BY <2>1, <2>4, WalkGives
<1>3. ASSUME n # 0, bdd_count + n <= Len(code) PROVE n \in Lengths(table, code, bdd_count)
  <2>1. n \in 1..BUF
    BY <1>1, <1>3, SizesAssumption
  <2>2. Agrees(Seen, code, bdd_count, n)
    <3>1. ASSUME NEW q \in 0..(n - 1), bdd_count + q < Len(code)
          PROVE  Seen[q] = code[bdd_count + q + 1]
      <4>1. q \in 0..(BUF - 1) /\ q < Left
        BY <1>1, <2>1, <3>1, SizesAssumption DEF Left
      <4> QED
        BY <4>1, SeenTyped
    <3> QED
      BY <3>1 DEF Agrees
  <2> QED
    BY <1>3, <2>1, <2>2, SeenTyped, WalkGives DEF Lengths
<1>4. CASE n # 0 /\ bdd_count + n <= Len(code)
  BY <1>2, <1>3, <1>4
<1>5. CASE ~(n # 0 /\ bdd_count + n <= Len(code))
  <2>1. \A len \in Lengths(table, code, bdd_count) : FALSE
    BY <1>1, <1>2, <1>5, SizesAssumption
  <2> QED
    BY <1>5, <2>1
<1> QED
  BY <1>4, <1>5

\* What lfi_x86_bdd returns is the length of the complete instruction at the offset; where
\* there is none it is 0 or leads out of the code, whatever insn_buf held before.
THEOREM LengthsCorrect == Spec => []LengthsExact
  BY TypeInvariance, InitTyped, TypePreserved, WalkInitially, WalkPreserved, LengthsFound,
     PTL DEF Spec

-----------------------------------------------------------------------------
(* The promise of the pass. *)

\* The pass implements LengthSpec, liveness aside.
THEOREM ImplementsLengthsSafely == Spec => Pass!Spec
<1>1. Init => Pass!Init
  BY DEF Init, Pass!Init
<1>2. \A t, s, p : Pass!Lengths(t, s, p) = Lengths(t, s, p)
  BY DEF Pass!Lengths, Lengths, Pass!Agrees, Agrees, Pass!Inputs, Inputs, Pass!Byte, Byte,
         Pass!Bit, Bit, Pass!Gives, Gives, Pass!Closed, Closed, Pass!IsLeaf, IsLeaf,
         Pass!Follow, Follow, Pass!BitOf, BitOf
<1>3. TypeInv /\ LengthsExact /\ [Next]_vars => [Pass!Next]_Pass!vars
  <2> SUFFICES ASSUME TypeInv, LengthsExact, [Next]_vars PROVE [Pass!Next]_Pass!vars
    OBVIOUS
  <2>0. TypeOK /\ Len(code) \in Nat /\ n \in 0..BUF /\ bdd_count \in Nat
    BY TableTyped DEF TypeInv, TypeOK
  <2>1. CASE StartLookup \/ Descend \/ Return \/ UNCHANGED vars
    BY <2>1 DEF StartLookup, Descend, Return, vars, inputs, Pass!vars
  <2>2. CASE Advance
    <3>1. bdd_count < Len(code) /\ n # 0
      BY <2>2 DEF Advance, TypeInv, TypeOK
    <3>2. \/ bdd_count' \in {bdd_count + len : len \in Pass!Here}
          \/ Pass!Here = {} /\ bdd_count' \in (Len(code) + 1)..(bdd_count + BUF)
      <4>1. CASE bdd_count + n <= Len(code)
        <5>1. Pass!Here = {n}
          BY <1>2, <2>2, <3>1, <4>1 DEF Advance, LengthsExact, Pass!Here
        <5> QED
          BY <2>2, <5>1 DEF Advance
      <4>2. CASE ~(bdd_count + n <= Len(code))
        <5>1. Pass!Here = {}
          BY <1>2, <2>2, <4>2 DEF Advance, LengthsExact, Pass!Here
        <5> QED
          BY <2>0, <2>2, <4>2, <5>1, SizesAssumption DEF Advance
      <4> QED
        BY <4>1, <4>2
    <3>3. Pass!Take
      BY <2>2, <3>1, <3>2 DEF Advance, inputs, Pass!Take
    <3> QED
      BY <3>3 DEF Pass!Next
  <2>3. CASE Unknown
    <3>1. bdd_count < Len(code) /\ Pass!Here = {}
      BY <1>2, <2>3 DEF Unknown, LengthsExact, TypeInv, TypeOK, Pass!Here
    <3>2. Pass!Fail
      BY <2>3, <3>1 DEF Unknown, inputs, Pass!Fail
    <3> QED
      BY <3>2 DEF Pass!Next
  <2>4. CASE Finish
    BY <2>4 DEF Finish, inputs, Pass!Pass, Pass!Next
  <2> QED
    BY <2>1, <2>2, <2>3, <2>4 DEF Next
<1> QED
  BY <1>1, <1>3, TypeInvariance, LengthsCorrect, PTL DEF Spec, Pass!Spec
=============================================================================
