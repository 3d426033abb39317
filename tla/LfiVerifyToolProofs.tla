------------------------- MODULE LfiVerifyToolProofs -------------------------
(***************************************************************************)
(* Theorems about LfiVerifyTool, for every build, every limit, every       *)
(* verifier and every command line.                                        *)
(***************************************************************************)
EXTENDS LfiVerifyTool, FiniteSetTheorems, TLAPS

-----------------------------------------------------------------------------
(* Types. *)

\* What getopt_long and the file system deliver is what the model says they may.
LEMMA CmdTyped ==
    ASSUME TypeOK
    PROVE  /\ cmd.options \in Seq(Option) /\ cmd.inputs \in Seq(File)
           /\ Inputs = DOMAIN cmd.inputs /\ Len(cmd.inputs) \in Nat
           /\ \A j \in Inputs : cmd.inputs[j] \in File
  BY CommandLinesAssumption DEF TypeOK, CommandLine, Inputs

LEMMA FileTyped ==
    ASSUME TypeOK, k \in Inputs
    PROVE  /\ file \in File /\ file.machine \in Machine \cup {"other"}
           /\ file.shnum \in Nat /\ Len(file.phdrs) \in Nat
           /\ \A p \in 1..Len(file.phdrs) : file.phdrs[p] \in Phdr
<1>1. file \in File
  BY CmdTyped DEF file
<1>2. file.phdrs \in Seq(Phdr)
  BY <1>1 DEF File
<1>3. /\ Len(file.phdrs) \in Nat
      /\ \A p \in 1..Len(file.phdrs) : file.phdrs[p] \in Phdr
  BY <1>2
<1>4. file.machine \in Machine \cup {"other"} /\ file.shnum \in Nat
  BY <1>1 DEF File
<1> QED
  BY <1>1, <1>3, <1>4

\* A block is allocated while a segment is being looked at, so freeing it is no second free.
TypeInv == TypeOK /\ (pc = "loaded" => blocks > 0)

LEMMA InitTyped == Init => TypeInv
<1> SUFFICES ASSUME Init PROVE TypeInv
  OBVIOUS
<1>1. cmd.options \in Seq(Option) /\ cmd.inputs \in Seq(File)
  BY CommandLinesAssumption DEF Init, CommandLine
<1>2. opts \in Options /\ args \in [arch : Machine \cup {"none"}, n : Int]
  BY DEF Init, Options
<1>3. /\ at \in 1..(Len(cmd.options) + 1) /\ Len(outcomes) <= Len(cmd.inputs)
      /\ outcomes \in Seq(BOOLEAN) /\ Len(outcomes) = 0 /\ segments \in 0..(UintSpan - 1)
  BY <1>1, BoundsAssumption DEF Init
<1> QED
  BY <1>2, <1>3 DEF Init, TypeInv, TypeOK, Inputs

LEMMA OptionsTyped ==
    ASSUME TypeInv,
           SetArch \/ SetN \/ SetSandbox \/ SetNoBdd \/ SetCtxreg \/ UnknownOption
    PROVE  TypeInv'
<1>1. pc = "options" /\ at \in 1..Len(cmd.options) /\ cmd.options[at] \in Option
  BY CmdTyped DEF TypeInv, TypeOK, SetArch, SetN, SetSandbox, SetNoBdd, SetCtxreg,
                  UnknownOption, Given
<1>2. args' \in [arch : Machine \cup {"none"}, n : Int] /\ opts' \in Options
  <2>0. args \in [arch : Machine \cup {"none"}, n : Int] /\ opts \in Options
    BY DEF TypeInv, TypeOK
  <2>1. CASE SetArch
    BY <1>1, <2>0, <2>1, ArchesAssumption DEF SetArch, archname
  <2>2. CASE SetN
    BY <1>1, <2>0, <2>2 DEF SetN, Given, Option
  <2>3. CASE SetSandbox
    BY <1>1, <2>0, <2>3 DEF SetSandbox, Given, Option, Options
  <2>4. CASE SetNoBdd \/ SetCtxreg \/ UnknownOption
    BY <2>0, <2>4 DEF SetNoBdd, SetCtxreg, UnknownOption, Options
  <2> QED
    BY <2>1, <2>2, <2>3, <2>4
<1>3. NextOption
  BY DEF SetArch, SetN, SetSandbox, SetNoBdd, SetCtxreg, UnknownOption
<1>4. at' \in 1..(Len(cmd'.options) + 1)
  BY <1>1, <1>3, CmdTyped DEF NextOption, TypeInv
<1> QED
  BY <1>1, <1>2, <1>3, <1>4
     DEF NextOption, TypeInv, TypeOK, history, Inputs, k, file

\* Returning from verify() adds one outcome, and leaves the file behind.
LEMMA ReturnTyped ==
    ASSUME TypeOK, k \in Inputs, pc # "exit", NEW b \in BOOLEAN, Return(b),
           open' \subseteq Inputs, blocks' \in Nat, rejected' \subseteq Inputs,
           faulted' \subseteq Inputs, UNCHANGED <<verify, n, i, segments>>
    PROVE  TypeInv'
<1>1. outcomes' \in Seq(BOOLEAN) /\ Len(outcomes') = Len(outcomes) + 1 /\ Len(outcomes) \in Nat
  BY DEF TypeOK, Return
<1>2. Len(outcomes') <= Len(cmd.inputs)
  BY <1>1, CmdTyped DEF Inputs, k
<1> QED
  BY <1>1, <1>2 DEF TypeInv, TypeOK, Return, config, Inputs

LEMMA NextTyped == TypeInv /\ [Next]_vars => TypeInv'
<1> SUFFICES ASSUME TypeInv, [Next]_vars PROVE TypeInv'
  OBVIOUS
<1>0. TypeOK
  BY DEF TypeInv
<1>1. CASE SetArch \/ SetN \/ SetSandbox \/ SetNoBdd \/ SetCtxreg \/ UnknownOption
  BY <1>1, OptionsTyped
<1>2. CASE RefuseOption \/ RefuseInputs
  BY <1>2, <1>0 DEF RefuseOption, RefuseInputs, Exit, config, history, Given, OptionsRead,
                   TypeInv, TypeOK, Inputs
<1>3. CASE StartFiles
  BY <1>3, <1>0 DEF StartFiles, config, history, OptionsRead, TypeInv, TypeOK, Inputs
<1>4. CASE OpenFile
  BY <1>4, <1>0 DEF OpenFile, config, history, TypeInv, TypeOK, Inputs, k
<1>5. CASE OpenFails
  BY <1>5, <1>0, ReturnTyped DEF OpenFails, Fault, TypeOK
<1>6. CASE PickVerifier
  <2>1. k \in Inputs
    BY <1>6, <1>0 DEF PickVerifier, TypeOK
  <2>2. file.machine \in Machine /\ file.shnum \in Nat
    BY <1>6, <1>0, <2>1, FileTyped, ArchesAssumption DEF PickVerifier, Supported
  <2> QED
    BY <1>6, <1>0, <2>1, <2>2
       DEF PickVerifier, config, history, TypeInv, TypeOK, Inputs, k, file
<1>7. CASE RefuseHeader
  BY <1>7, <1>0, ReturnTyped DEF RefuseHeader, Close, history, TypeOK
<1>8. CASE NextSection
  <2>1. file.shnum \in Nat
    BY <1>8, <1>0, FileTyped DEF NextSection, TypeOK
  <2>2. i' \in Nat /\ i' <= file.shnum
    BY <1>8, <1>0, <2>1 DEF NextSection, TypeOK
  <2>3. file' = file /\ k' = k /\ Inputs' = Inputs /\ pc' = "sections"
    BY <1>8 DEF NextSection, config, file, k, Inputs
  <2> QED
    BY <1>8, <1>0, <2>2, <2>3 DEF NextSection, config, history, TypeInv, TypeOK
<1>9. CASE StartRounds
  <2>1. Len(file.phdrs) \in Nat
    BY <1>9, <1>0, FileTyped DEF StartRounds, TypeOK
  <2> QED
    BY <1>9, <1>0, <2>1, BoundsAssumption DEF StartRounds, config, history, TypeInv, TypeOK, Inputs, k, file
<1>10. CASE ClockFails
  BY <1>10, <1>0 DEF ClockFails, Exit, Fault, config, TypeInv, TypeOK, Inputs, k
<1>11. CASE SkipHeader
  <2>1. Len(file.phdrs) \in Nat
    BY <1>11, <1>0, FileTyped DEF SkipHeader, InRound, TypeOK
  <2>2. i' \in Nat /\ i' <= Len(file'.phdrs) /\ k' \in Inputs'
    BY <1>11, <1>0, <2>1 DEF SkipHeader, InRound, config, TypeOK, Inputs, k, file
  <2> QED
    BY <1>11, <1>0, <2>2 DEF SkipHeader, InRound, config, history, TypeInv, TypeOK, Inputs
<1>12. CASE Allocate
  <2>1. Len(file.phdrs) \in Nat
    BY <1>12, <1>0, FileTyped DEF Allocate, InRound, TypeOK
  <2> QED
    BY <1>12, <1>0, <2>1
       DEF Allocate, InRound, config, history, TypeInv, TypeOK, Inputs, k, file
<1>13. CASE IOFails
  BY <1>13, <1>0, ReturnTyped DEF IOFails, InRound, Close, Fault, TypeOK
<1>14. CASE LoadFails
  <2>1. blocks' \in Nat
    BY <1>14 DEF LoadFails, TypeInv, TypeOK
  <2> QED
    BY <1>14, <1>0, <2>1, ReturnTyped DEF LoadFails, Close, Fault, TypeOK
<1>15. CASE AcceptSegment
  <2>1. Len(file.phdrs) \in Nat
    BY <1>15, <1>0, FileTyped DEF AcceptSegment, TypeOK
  <2>2. blocks' \in Nat
    BY <1>15 DEF AcceptSegment, TypeInv, TypeOK
  <2>3. segments' \in 0..(UintSpan - 1)
    BY <1>15, <1>0, BoundsAssumption DEF AcceptSegment, TypeOK
  <2>4. i' \in Nat /\ i' <= Len(file'.phdrs) /\ k' \in Inputs'
    BY <1>15, <1>0, <2>1 DEF AcceptSegment, config, TypeOK, Inputs, k, file
  <2> QED
    BY <1>15, <1>0, <2>2, <2>3, <2>4
       DEF AcceptSegment, config, history, TypeInv, TypeOK, Inputs
<1>16. CASE RejectSegment
  BY <1>16, <1>0, ReturnTyped DEF RejectSegment, TypeOK
<1>17. CASE EndRound
  <2>1. Len(file.phdrs) \in Nat
    BY <1>17, <1>0, FileTyped DEF EndRound, InRound, TypeOK
  <2> QED
    BY <1>17, <1>0, <2>1
       DEF EndRound, InRound, config, history, TypeInv, TypeOK, Inputs, k, file
<1>18. CASE EndFile
  BY <1>18, <1>0, ReturnTyped DEF EndFile, Close, history, TypeOK
<1>19. CASE Report
  BY <1>19, <1>0 DEF Report, Exit, config, history, TypeInv, TypeOK, Inputs
<1>20. CASE Ended \/ UNCHANGED vars
  BY <1>20, <1>0 DEF Ended, vars, TypeInv, TypeOK, Inputs, k, file
<1> QED
  BY <1>1, <1>2, <1>3, <1>4, <1>5, <1>6, <1>7, <1>8, <1>9, <1>10, <1>11, <1>12, <1>13,
     <1>14, <1>15, <1>16, <1>17, <1>18, <1>19, <1>20 DEF Next

\* The variables of the tool always have their types; in particular no segment is freed
\* twice and no loop leaves the tables of its file.
THEOREM TypeCorrect == Spec => []TypeOK
<1>1. TypeInv => TypeOK
  BY DEF TypeInv
<1> QED
  BY <1>1, InitTyped, NextTyped, PTL DEF Spec

-----------------------------------------------------------------------------
(* The options: what has been read so far is what the last option of each  *)
(* kind says.                                                              *)

LEMMA GivenAtNext ==
    ASSUME NEW os, NEW kind, NEW t \in Nat
    PROVE  GivenAt(os, kind, t + 1) = IF os[t + 1].opt = kind
                                      THEN GivenAt(os, kind, t) \cup {t + 1}
                                      ELSE GivenAt(os, kind, t)
  BY DEF GivenAt

LEMMA MaxIs ==
    ASSUME NEW S, S \subseteq Int, NEW x \in S, \A m \in S : m <= x
    PROVE  Max(S) = x
<1> DEFINE top == CHOOSE y \in S : \A m \in S : y >= m
<1>1. top \in S /\ \A m \in S : top >= m
  <2>1. \A m \in S : x >= m
    OBVIOUS
  <2> QED
    BY <2>1
<1> HIDE DEF top
<1>2. top = x
  BY <1>1
<1> QED
  BY <1>2 DEF Max, top

LEMMA LastGivenNext ==
    ASSUME NEW os, NEW kind, NEW t \in Nat, NEW default
    PROVE  LastGiven(os, kind, t + 1, default) =
             IF os[t + 1].opt = kind THEN os[t + 1].arg ELSE LastGiven(os, kind, t, default)
<1>1. CASE os[t + 1].opt = kind
  <2> DEFINE js == GivenAt(os, kind, t + 1)
  <2>1. t + 1 \in js /\ \A m \in js : m <= t + 1
    BY <1>1 DEF GivenAt
  <2>2. js \subseteq Int
    BY DEF GivenAt
  <2> HIDE DEF js
  <2>3. Max(js) = t + 1
    BY <2>1, <2>2, MaxIs
  <2> QED
    BY <1>1, <2>1, <2>3 DEF LastGiven, js
<1>2. CASE os[t + 1].opt # kind
  <2>1. GivenAt(os, kind, t + 1) = GivenAt(os, kind, t)
    BY <1>2, GivenAtNext
  <2> QED
    BY <1>2, <2>1 DEF LastGiven
<1> QED
  BY <1>1, <1>2

LEMMA NoneGiven ==
    ASSUME NEW os
    PROVE  /\ ArgsGiven(os, 0) = [arch |-> "none", n |-> 1]
           /\ OptsGiven(os, 0) = [box |-> "FULL", no_bdd |-> FALSE, ctxreg |-> FALSE]
<1>1. \A kind : GivenAt(os, kind, 0) = {}
  BY DEF GivenAt
<1> QED
  BY <1>1 DEF ArgsGiven, OptsGiven, LastGiven

Running == pc \notin {"options", "exit"}

UsageInv ==
    /\ pc = "options" =>
         /\ args = ArgsGiven(cmd.options, at - 1) /\ opts = OptsGiven(cmd.options, at - 1)
         /\ \A j \in 1..(at - 1) : OptionOK(cmd.options[j])
         /\ outcomes = <<>> /\ failed = FALSE
         /\ open = {} /\ blocks = 0 /\ rejected = {} /\ faulted = {}
    /\ Running => UsageOK /\ args = Asked /\ opts = Under
    /\ pc = "exit" => \/ UsageOK
                      \/ ~UsageOK /\ outcomes = <<>> /\ status = "1" /\ failed = FALSE
                           /\ open = {} /\ blocks = 0 /\ rejected = {} /\ faulted = {}

LEMMA UsageInitially == Init => UsageInv
<1> SUFFICES ASSUME Init PROVE UsageInv
  OBVIOUS
<1>1. at - 1 = 0
  BY DEF Init
<1>2. args = ArgsGiven(cmd.options, at - 1) /\ opts = OptsGiven(cmd.options, at - 1)
  BY <1>1, NoneGiven DEF Init
<1>3. 1..(at - 1) = {}
  BY <1>1
<1> QED
  BY <1>1, <1>2, <1>3 DEF Init, UsageInv, Running

\* One more option that main does not refuse.
LEMMA OptionRead ==
    ASSUME TypeInv, UsageInv,
           SetArch \/ SetN \/ SetSandbox \/ SetNoBdd \/ SetCtxreg \/ UnknownOption
    PROVE  UsageInv'
<1> DEFINE op == cmd.options[at]
<1>1. pc = "options" /\ at \in 1..Len(cmd.options) /\ op \in Option /\ at - 1 \in Nat
      /\ at = (at - 1) + 1
  <2>1. pc = "options" /\ at <= Len(cmd.options)
    BY DEF SetArch, SetN, SetSandbox, SetNoBdd, SetCtxreg, UnknownOption, Given
  <2>2. cmd.options \in Seq(Option) /\ at \in 1..(Len(cmd.options) + 1)
    BY CmdTyped DEF TypeInv, TypeOK
  <2>3. Len(cmd.options) \in Nat /\ at \in 1..Len(cmd.options) /\ at - 1 \in Nat
    BY <2>1, <2>2
  <2> QED
    BY <2>1, <2>2, <2>3
<1>2. /\ UNCHANGED <<cmd, pc, outcomes, failed, open, blocks, rejected, faulted>>
      /\ at' = at + 1
  BY DEF SetArch, SetN, SetSandbox, SetNoBdd, SetCtxreg, UnknownOption, NextOption, history
<1>3. OptionOK(op)
  <2>1. CASE SetArch
    BY <2>1 DEF SetArch, Given, archname, OptionOK
  <2>2. CASE ~SetArch
    BY <2>2, <1>1 DEF SetN, SetSandbox, SetNoBdd, SetCtxreg, UnknownOption, Given, OptionOK
  <2> QED
    BY <2>1, <2>2
<1>4. /\ args = ArgsGiven(cmd.options, at - 1) /\ opts = OptsGiven(cmd.options, at - 1)
      /\ \A j \in 1..(at - 1) : OptionOK(cmd.options[j])
  BY <1>1 DEF UsageInv
<1>5. /\ \A kind, default :
           LastGiven(cmd.options, kind, at, default) =
             IF op.opt = kind THEN op.arg ELSE LastGiven(cmd.options, kind, at - 1, default)
      /\ \A kind : GivenAt(cmd.options, kind, at) =
                     IF op.opt = kind THEN GivenAt(cmd.options, kind, at - 1) \cup {at}
                     ELSE GivenAt(cmd.options, kind, at - 1)
  <2> DEFINE t == at - 1
  <2>0. t \in Nat /\ t + 1 = at
    BY <1>1
  <2> HIDE DEF t
  <2>1. \A kind, default :
           LastGiven(cmd.options, kind, t + 1, default) =
             IF cmd.options[t + 1].opt = kind THEN cmd.options[t + 1].arg
             ELSE LastGiven(cmd.options, kind, t, default)
    BY <2>0, LastGivenNext
  <2>2. \A kind : GivenAt(cmd.options, kind, t + 1) =
                     IF cmd.options[t + 1].opt = kind
                     THEN GivenAt(cmd.options, kind, t) \cup {t + 1}
                     ELSE GivenAt(cmd.options, kind, t)
    BY <2>0, GivenAtNext
  <2>4. \A kind, default :
           LastGiven(cmd.options, kind, at, default) =
             IF op.opt = kind THEN op.arg ELSE LastGiven(cmd.options, kind, at - 1, default)
    BY <2>0, <2>1 DEF t
  <2>5. \A kind : GivenAt(cmd.options, kind, at) =
                     IF op.opt = kind THEN GivenAt(cmd.options, kind, at - 1) \cup {at}
                     ELSE GivenAt(cmd.options, kind, at - 1)
    BY <2>0, <2>2 DEF t
  <2> QED
    BY <2>4, <2>5
<1>6. args' = ArgsGiven(cmd.options, at) /\ opts' = OptsGiven(cmd.options, at)
  <2>1. CASE SetArch
    BY <1>4, <1>5, <2>1 DEF SetArch, Given, archname, ArgsGiven, OptsGiven
  <2>2. CASE SetN
    BY <1>4, <1>5, <2>2 DEF SetN, Given, ArgsGiven, OptsGiven
  <2>3. CASE SetSandbox
    BY <1>4, <1>5, <2>3 DEF SetSandbox, Given, ArgsGiven, OptsGiven
  <2>4. CASE SetNoBdd
    BY <1>4, <1>5, <2>4 DEF SetNoBdd, Given, ArgsGiven, OptsGiven
  <2>5. CASE SetCtxreg
    BY <1>4, <1>5, <2>5 DEF SetCtxreg, Given, ArgsGiven, OptsGiven
  <2>6. CASE UnknownOption
    BY <1>4, <1>5, <2>6 DEF UnknownOption, Given, ArgsGiven, OptsGiven
  <2> QED
    BY <2>1, <2>2, <2>3, <2>4, <2>5, <2>6
<1>7. at' - 1 = at
  BY <1>1, <1>2
<1>8. \A j \in 1..(at' - 1) : OptionOK(cmd'.options[j])
  BY <1>1, <1>2, <1>3, <1>4
<1> QED
  BY <1>1, <1>2, <1>6, <1>7, <1>8 DEF UsageInv, Running

\* main refuses only what is not in order.
LEMMA RefusalsRight ==
    ASSUME TypeOK, RefuseOption \/ RefuseInputs
    PROVE  ~UsageOK'
<1>1. CASE RefuseOption
  <2>1. at \in 1..Len(cmd.options) /\ ~OptionOK(cmd.options[at])
    BY CmdTyped, <1>1, ArchesAssumption
       DEF RefuseOption, Given, archname, OptionOK, TypeOK, Machine
  <2> QED
    BY <1>1, <2>1 DEF RefuseOption, UsageOK, config
<1>2. CASE RefuseInputs
  BY <1>2 DEF RefuseInputs, UsageOK, config
<1> QED
  BY <1>1, <1>2

LEMMA UsagePreserved == TypeInv /\ UsageInv /\ [Next]_vars => UsageInv'
<1> SUFFICES ASSUME TypeInv, UsageInv, [Next]_vars PROVE UsageInv'
  OBVIOUS
<1>0. TypeOK /\ Len(cmd.options) \in Nat
  BY CmdTyped DEF TypeInv, CommandLine
<1>1. CASE SetArch \/ SetN \/ SetSandbox \/ SetNoBdd \/ SetCtxreg \/ UnknownOption
  BY <1>1, OptionRead
<1>2. CASE RefuseOption \/ RefuseInputs
  <2>1. ~UsageOK'
    BY <1>0, <1>2, RefusalsRight
  <2> QED
    BY <1>2, <2>1
       DEF RefuseOption, RefuseInputs, OptionsRead, UsageInv, Running, Exit, history, Given
<1>4. CASE StartFiles
  <2>1. at - 1 = Len(cmd.options)
    BY <1>0, <1>4 DEF StartFiles, OptionsRead, TypeOK
  <2>2. UsageOK /\ args = Asked /\ opts = Under
    BY <1>4, <2>1 DEF StartFiles, OptionsRead, UsageInv, UsageOK, Asked, Under
  <2>3. UsageOK' /\ args' = Asked' /\ opts' = Under'
    BY <1>4, <2>2 DEF StartFiles, config, UsageOK, Asked, Under
  <2> QED
    BY <1>4, <2>3 DEF StartFiles, UsageInv, Running
<1>5. CASE Running /\ UNCHANGED <<cmd, args, opts>> /\ pc' # "options"
  <2>1. UsageOK' /\ args' = Asked' /\ opts' = Under'
    BY <1>5 DEF UsageInv, UsageOK, Asked, Under
  <2> QED
    BY <1>5, <2>1 DEF UsageInv, Running
<1>6. CASE OpenFile \/ OpenFails \/ PickVerifier \/ RefuseHeader \/ NextSection \/ StartRounds
           \/ ClockFails \/ SkipHeader \/ Allocate
  BY <1>5, <1>6
     DEF OpenFile, OpenFails, PickVerifier, RefuseHeader, NextSection, StartRounds, ClockFails,
         SkipHeader, Allocate, InRound, Return, Close, Exit, config, Running
<1>7. CASE IOFails \/ LoadFails \/ AcceptSegment \/ RejectSegment \/ EndRound \/ EndFile \/ Report
  BY <1>5, <1>7
     DEF IOFails, LoadFails, AcceptSegment, RejectSegment, EndRound, EndFile, Report, InRound,
         Return, Close, Exit, config, Running
<1>8. CASE Ended \/ UNCHANGED vars
  <2>1. UNCHANGED vars
    BY <1>8 DEF Ended
  <2> QED
    BY <2>1 DEF vars, UsageInv, Running, UsageOK, Asked, Under
<1> QED
  BY <1>1, <1>2, <1>4, <1>6, <1>7, <1>8 DEF Next

-----------------------------------------------------------------------------
(* The outcome of each file. *)

LEMMA UintDivMod ==
    ASSUME NEW a \in Nat
    PROVE  /\ a \div UintSpan \in Nat /\ a % UintSpan \in 0..(UintSpan - 1)
           /\ a = UintSpan * (a \div UintSpan) + (a % UintSpan)
  BY BoundsAssumption

LEMMA UintModUnique ==
    ASSUME NEW q \in Nat, NEW r \in 0..(UintSpan - 1)
    PROVE  (UintSpan * q + r) % UintSpan = r
<1> DEFINE a == UintSpan * q + r
<1>1. a \in Nat
  BY BoundsAssumption
<1>2. /\ a \div UintSpan \in Nat /\ a % UintSpan \in 0..(UintSpan - 1)
      /\ a = UintSpan * (a \div UintSpan) + (a % UintSpan)
  BY <1>1, UintDivMod
<1>3. ASSUME NEW d \in Nat, NEW e \in 0..(UintSpan - 1), UintSpan * q + r = UintSpan * d + e
      PROVE  e = r
  BY <1>3, BoundsAssumption
<1> QED
  BY <1>2, <1>3

\* Counting with an unsigned is counting, reduced at the end.
LEMMA CountWraps ==
    ASSUME NEW a \in Nat
    PROVE  ((a % UintSpan) + 1) % UintSpan = (a + 1) % UintSpan
<1> DEFINE q == a \div UintSpan  r == a % UintSpan
<1>1. q \in Nat /\ r \in 0..(UintSpan - 1) /\ a = UintSpan * q + r
  BY UintDivMod
<1> HIDE DEF q, r
<1>2. CASE r + 1 < UintSpan
  <2>1. r + 1 \in 0..(UintSpan - 1) /\ 0 \in Nat
    BY <1>1, <1>2, BoundsAssumption
  <2>2. (UintSpan * q + (r + 1)) % UintSpan = r + 1
    BY <1>1, <2>1, UintModUnique
  <2>3. (UintSpan * 0 + (r + 1)) % UintSpan = r + 1
    BY <2>1, UintModUnique
  <2>4. a + 1 = UintSpan * q + (r + 1) /\ r + 1 = UintSpan * 0 + (r + 1)
    BY <1>1, BoundsAssumption
  <2> QED
    BY <2>2, <2>3, <2>4 DEF r
<1>3. CASE r + 1 = UintSpan
  <2>1. 0 \in 0..(UintSpan - 1) /\ 1 \in Nat /\ q + 1 \in Nat
    BY <1>1, BoundsAssumption
  <2>2. (UintSpan * (q + 1) + 0) % UintSpan = 0
    BY <2>1, UintModUnique
  <2>3. (UintSpan * 1 + 0) % UintSpan = 0
    BY <2>1, UintModUnique
  <2>4. a + 1 = UintSpan * (q + 1) + 0 /\ r + 1 = UintSpan * 1 + 0
    BY <1>1, <1>3, BoundsAssumption
  <2> QED
    BY <2>2, <2>3, <2>4 DEF r
<1> QED
  BY <1>1, <1>2, <1>3, BoundsAssumption

\* The executable segments of a file among its first t headers.
ExecsUpTo(f, t) == {p \in Execs(f) : p <= t}

LEMMA ExecsFinite ==
    ASSUME NEW f, Len(f.phdrs) \in Nat, NEW t
    PROVE  /\ IsFiniteSet(Execs(f)) /\ Cardinality(Execs(f)) \in Nat
           /\ IsFiniteSet(ExecsUpTo(f, t)) /\ Cardinality(ExecsUpTo(f, t)) \in Nat
<1>1. IsFiniteSet(1..Len(f.phdrs))
  BY FS_Interval
<1>2. Execs(f) \subseteq 1..Len(f.phdrs) /\ ExecsUpTo(f, t) \subseteq 1..Len(f.phdrs)
  BY DEF Execs, ExecsUpTo
<1>3. IsFiniteSet(Execs(f)) /\ IsFiniteSet(ExecsUpTo(f, t))
  BY <1>1, <1>2, FS_Subset
<1> QED
  BY <1>3, FS_CardinalityType

LEMMA ExecsNext ==
    ASSUME NEW f, Len(f.phdrs) \in Nat, NEW t \in Nat, t < Len(f.phdrs)
    PROVE  /\ f.phdrs[t + 1].exec =>
                 Cardinality(ExecsUpTo(f, t + 1)) = Cardinality(ExecsUpTo(f, t)) + 1
           /\ ~f.phdrs[t + 1].exec => ExecsUpTo(f, t + 1) = ExecsUpTo(f, t)
<1>1. ASSUME f.phdrs[t + 1].exec
      PROVE  Cardinality(ExecsUpTo(f, t + 1)) = Cardinality(ExecsUpTo(f, t)) + 1
  <2>1. ExecsUpTo(f, t + 1) = ExecsUpTo(f, t) \cup {t + 1}
    BY <1>1 DEF ExecsUpTo, Execs
  <2>2. t + 1 \notin ExecsUpTo(f, t) /\ IsFiniteSet(ExecsUpTo(f, t))
    <3>1. IsFiniteSet(ExecsUpTo(f, t))
      BY ExecsFinite
    <3>2. t + 1 \notin ExecsUpTo(f, t)
      BY DEF ExecsUpTo
    <3> QED
      BY <3>1, <3>2
  <2> QED
    BY <2>1, <2>2, FS_AddElement
<1>2. ASSUME ~f.phdrs[t + 1].exec PROVE ExecsUpTo(f, t + 1) = ExecsUpTo(f, t)
  BY <1>2 DEF ExecsUpTo, Execs
<1> QED
  BY <1>1, <1>2

LEMMA ExecsEnds ==
    ASSUME NEW f, Len(f.phdrs) \in Nat
    PROVE  /\ ExecsUpTo(f, Len(f.phdrs)) = Execs(f)
           /\ ExecsUpTo(f, 0) = {} /\ Cardinality(ExecsUpTo(f, 0)) = 0
<1>1. ExecsUpTo(f, Len(f.phdrs)) = Execs(f) /\ ExecsUpTo(f, 0) = {}
  BY DEF ExecsUpTo, Execs
<1> QED
  BY <1>1, FS_EmptySet

\* What verify() knows of the file at hand: v->verify is the verifier of its machine, and
\* what the rounds have been through so far was accepted and counted.
FileInv ==
    /\ pc \in {"sections", "segments", "loaded"} => verify = file.machine /\ Supported
    /\ pc \in {"segments", "loaded"} =>
         /\ segments = (n * Cardinality(Execs(file)) + Cardinality(ExecsUpTo(file, i))) % UintSpan
         /\ \A p \in Execs(file) :
              n >= 1 \/ p <= i => file.phdrs[p].code \in lfiv_verify[file.machine][opts]
    /\ pc = "segments" => /\ n = 0 \/ n <= args.n
                          /\ n >= args.n => i = 0
    /\ pc = "loaded" => n < args.n /\ phdr.exec

LEMMA FileInitially == Init => FileInv
  BY DEF Init, FileInv

LEMMA FilePreserved == TypeInv /\ UsageInv /\ FileInv /\ [Next]_vars => FileInv'
<1> SUFFICES ASSUME TypeInv, FileInv, [Next]_vars PROVE FileInv'
  OBVIOUS
<1>0. TypeOK
  BY DEF TypeInv
<1>1. CASE pc' \notin {"sections", "segments", "loaded"}
  BY <1>1 DEF FileInv
<1>2. CASE PickVerifier
  BY <1>2 DEF PickVerifier, FileInv, Supported, config, file, k
<1>3. CASE NextSection
  BY <1>3 DEF NextSection, FileInv, Supported, config, file, k
<1>4. CASE StartRounds
  <2>1. Len(file.phdrs) \in Nat
    BY <1>0, <1>4, FileTyped DEF StartRounds, TypeOK
  <2>2. UNCHANGED <<verify, args, opts>> /\ file' = file /\ Supported' = Supported
    BY <1>4 DEF StartRounds, config, file, k, Supported
  <2>3. verify = file.machine /\ Supported
    BY <1>4 DEF StartRounds, FileInv
  <2>4. Cardinality(ExecsUpTo(file, 0)) = 0 /\ Cardinality(Execs(file)) \in Nat
    BY <2>1, ExecsEnds, ExecsFinite
  <2>5. segments' = (n' * Cardinality(Execs(file)) + Cardinality(ExecsUpTo(file, i'))) % UintSpan
    <3>1. 0 * Cardinality(Execs(file)) + 0 = 0
      BY <2>4
    <3>2. 0 % UintSpan = 0
      BY BoundsAssumption
    <3> QED
      BY <1>4, <2>4, <3>1, <3>2 DEF StartRounds
  <2>6. \A p \in Execs(file) : ~(n' >= 1 \/ p <= i')
    BY <1>4 DEF StartRounds, Execs
  <2> QED
    BY <1>4, <2>2, <2>3, <2>5, <2>6 DEF StartRounds, FileInv
<1>5. CASE SkipHeader \/ Allocate
  <2>1. Len(file.phdrs) \in Nat /\ i \in Nat
    BY <1>0, <1>5, FileTyped DEF SkipHeader, Allocate, InRound, TypeOK
  <2>2. UNCHANGED <<verify, args, opts, n, segments>> /\ file' = file /\ Supported' = Supported
    BY <1>5 DEF SkipHeader, Allocate, config, file, k, Supported
  <2>3. pc = "segments" /\ n < args.n /\ i < Len(file.phdrs)
    BY <1>5 DEF SkipHeader, Allocate, InRound
  <2>4. ExecsUpTo(file, i') = ExecsUpTo(file, i)
    BY <1>5, <2>1, <2>3, ExecsNext DEF SkipHeader, Allocate, phdr
  <2>5. \A p \in Execs(file) : n >= 1 \/ p <= i' => file.phdrs[p].code \in lfiv_verify[file.machine][opts]
    BY <2>3, <2>4 DEF FileInv, ExecsUpTo
  <2>6. pc' = "loaded" => phdr'.exec
    BY <1>5, <2>2 DEF SkipHeader, Allocate, phdr, InRound
  <2>7. n \in Nat /\ args.n \in Int
    BY <1>0 DEF TypeOK
  <2> QED
    BY <2>2, <2>3, <2>4, <2>5, <2>6, <2>7 DEF FileInv
<1>6. CASE AcceptSegment
  <2> DEFINE c == Cardinality(Execs(file))
  <2>1. Len(file.phdrs) \in Nat /\ i \in Nat /\ n \in Nat /\ i < Len(file.phdrs)
    BY <1>0, <1>6, FileTyped DEF AcceptSegment, TypeOK
  <2>2. UNCHANGED <<verify, args, opts, n>> /\ file' = file /\ Supported' = Supported
        /\ i' = i + 1 /\ pc' = "segments"
    BY <1>6 DEF AcceptSegment, config, file, k, Supported
  <2>3. pc = "loaded" /\ n < args.n /\ phdr.exec /\ verify = file.machine /\ Supported
    BY <1>6 DEF AcceptSegment, FileInv
  <2>4. Cardinality(ExecsUpTo(file, i + 1)) = Cardinality(ExecsUpTo(file, i)) + 1
    BY <2>1, <2>3, ExecsNext DEF phdr
  <2>5. c \in Nat /\ Cardinality(ExecsUpTo(file, i)) \in Nat
    BY <2>1, ExecsFinite
  <2>6. segments' = (n * c + Cardinality(ExecsUpTo(file, i + 1))) % UintSpan
    <3> DEFINE a == n * c + Cardinality(ExecsUpTo(file, i))
    <3>1. a \in Nat
      BY <2>1, <2>5
    <3>2. a + 1 = n * c + Cardinality(ExecsUpTo(file, i + 1))
      BY <2>1, <2>4, <2>5
    <3>3. segments' = (segments + 1) % UintSpan /\ segments = a % UintSpan
      BY <1>6, <2>3 DEF AcceptSegment, FileInv
    <3> HIDE DEF a
    <3> QED
      BY <3>1, <3>2, <3>3, CountWraps
  <2>7. \A p \in Execs(file) :
           n >= 1 \/ p <= i + 1 => file.phdrs[p].code \in lfiv_verify[file.machine][opts]
    <3>1. file.phdrs[i + 1].code \in lfiv_verify[file.machine][opts]
      BY <1>6, <2>3 DEF AcceptSegment, phdr
    <3>2. \A p \in Execs(file) : p \in Nat /\ (p <= i + 1 => p <= i \/ p = i + 1)
      BY <2>1 DEF Execs
    <3> QED
      BY <2>3, <3>1, <3>2 DEF FileInv
  <2>8. n <= args.n /\ ~(n >= args.n)
    BY <1>0, <2>1, <2>3 DEF TypeOK
  <2> QED
    BY <2>2, <2>3, <2>6, <2>7, <2>8 DEF FileInv
<1>7. CASE EndRound
  <2> DEFINE c == Cardinality(Execs(file))
  <2>1. Len(file.phdrs) \in Nat /\ i \in Nat /\ n \in Nat /\ i = Len(file.phdrs) /\ args.n \in Int
    BY <1>0, <1>7, FileTyped DEF EndRound, InRound, TypeOK
  <2>2. UNCHANGED <<verify, args, opts, segments>> /\ file' = file /\ Supported' = Supported
        /\ i' = 0 /\ n' = n + 1 /\ pc' = "segments"
    BY <1>7 DEF EndRound, InRound, config, file, k, Supported
  <2>3. pc = "segments" /\ n < args.n /\ verify = file.machine /\ Supported
    BY <1>7 DEF EndRound, InRound, FileInv
  <2>4. ExecsUpTo(file, i) = Execs(file) /\ Cardinality(ExecsUpTo(file, 0)) = 0 /\ c \in Nat
    BY <2>1, ExecsEnds, ExecsFinite
  <2>5. segments = ((n + 1) * c + Cardinality(ExecsUpTo(file, 0))) % UintSpan
    <3>1. segments = (n * c + c) % UintSpan
      BY <2>3, <2>4 DEF FileInv
    <3>2. n * c + c = (n + 1) * c + 0
      BY <2>1, <2>4
    <3> HIDE DEF c
    <3> QED
      BY <2>4, <3>1, <3>2
  <2>6. \A p \in Execs(file) : file.phdrs[p].code \in lfiv_verify[file.machine][opts]
    <3>1. \A p \in Execs(file) : p <= i
      BY <2>4 DEF ExecsUpTo
    <3> QED
      BY <2>3, <3>1 DEF FileInv
  <2>7. n + 1 <= args.n
    BY <2>1, <2>3
  <2> QED
    BY <2>2, <2>3, <2>5, <2>6, <2>7 DEF FileInv
<1>8. CASE Ended \/ UNCHANGED vars
  BY <1>8 DEF Ended, vars, FileInv, Supported, file, k, phdr
<1> QED
  BY <1>1, <1>2, <1>3, <1>4, <1>5, <1>6, <1>7, <1>8
     DEF Next, SetArch, SetN, SetSandbox, SetNoBdd, SetCtxreg, UnknownOption, NextOption,
         Given, RefuseOption, RefuseInputs, StartFiles, OptionsRead, OpenFile, OpenFails,
         RefuseHeader, ClockFails, IOFails, LoadFails, RejectSegment, EndFile, Report, Exit,
         Return, Close

Good(j) == Deserves(cmd.inputs[j]) /\ ~WrapsToZero(cmd.inputs[j])

LEMMA GoodStays ==
    ASSUME UNCHANGED cmd
    PROVE  (UsageOK' <=> UsageOK) /\ \A j : Good(j)' <=> Good(j)
  BY DEF UsageOK, Good, Deserves, WrapsToZero, Asked, Under

OutcomesInv ==
    /\ \A j \in 1..Len(outcomes) : outcomes[j] <=> Good(j) /\ j \notin faulted
    /\ failed <=> \E j \in 1..Len(outcomes) : ~outcomes[j]
    /\ pc # "exit" => faulted \subseteq 1..Len(outcomes)
    /\ pc = "exit" /\ UsageOK =>
         \/ k \in faulted /\ k \in Inputs /\ status = "1"
         \/ Len(outcomes) = Len(cmd.inputs) /\ (status = "0" <=> ~failed)

LEMMA OutcomesInitially == Init => OutcomesInv
  BY DEF Init, OutcomesInv

LEMMA OutcomesStay ==
    ASSUME OutcomesInv, UNCHANGED <<cmd, outcomes, failed, faulted>>, pc # "exit", pc' # "exit"
    PROVE  OutcomesInv'
  BY GoodStays DEF OutcomesInv

\* verify() returns what the file at hand is worth.
LEMMA ReturnRight ==
    ASSUME TypeOK, OutcomesInv, pc # "exit", NEW b \in BOOLEAN, Return(b),
           faulted' \in {faulted, faulted \cup {k}},
           b <=> Good(k) /\ k \notin faulted'
    PROVE  OutcomesInv'
<1>1. /\ outcomes' = Append(outcomes, b) /\ pc' = "open" /\ failed' = (failed \/ ~b)
      /\ UNCHANGED cmd
  BY DEF Return, config
<1>2. /\ Len(outcomes) \in Nat /\ Len(outcomes') = k /\ k = Len(outcomes) + 1
      /\ outcomes'[k] = b /\ \A j \in 1..Len(outcomes) : outcomes'[j] = outcomes[j]
  BY <1>1 DEF TypeOK, k
<1>3. \A j : Good(j)' <=> Good(j)
  BY <1>1, GoodStays
<1>4. \A j \in 1..Len(outcomes') : j \in 1..Len(outcomes) \/ j = k
  BY <1>2
<1>5. k \notin 1..Len(outcomes) /\ k \in 1..Len(outcomes') /\ 1..Len(outcomes) \subseteq 1..Len(outcomes')
  BY <1>2
<1>6. \A j \in 1..Len(outcomes) : j \in faulted' <=> j \in faulted
  BY <1>5
<1>7. \A j \in 1..Len(outcomes') : outcomes'[j] <=> Good(j)' /\ j \notin faulted'
  <2> TAKE j \in 1..Len(outcomes')
  <2>1. CASE j = k
    BY <1>2, <1>3, <2>1
  <2>2. CASE j \in 1..Len(outcomes)
    BY <1>2, <1>3, <1>6, <2>2 DEF OutcomesInv
  <2> QED
    BY <1>4, <2>1, <2>2
<1>8. failed' <=> \E j \in 1..Len(outcomes') : ~outcomes'[j]
  BY <1>1, <1>2, <1>4, <1>5 DEF OutcomesInv
<1>9. faulted' \subseteq 1..Len(outcomes')
  BY <1>5 DEF OutcomesInv
<1> QED
  BY <1>1, <1>7, <1>8, <1>9 DEF OutcomesInv

LEMMA OutcomesPreserved ==
    TypeInv /\ UsageInv /\ FileInv /\ OutcomesInv /\ [Next]_vars => OutcomesInv'
<1> SUFFICES ASSUME TypeInv, UsageInv, FileInv, OutcomesInv, [Next]_vars PROVE OutcomesInv'
  OBVIOUS
<1>0. TypeOK
  BY DEF TypeInv
<1>1. CASE SetArch \/ SetN \/ SetSandbox \/ SetNoBdd \/ SetCtxreg \/ UnknownOption \/ StartFiles
           \/ OpenFile \/ PickVerifier \/ NextSection \/ StartRounds \/ SkipHeader \/ Allocate
           \/ AcceptSegment \/ EndRound
  BY <1>1, OutcomesStay
     DEF SetArch, SetN, SetSandbox, SetNoBdd, SetCtxreg, UnknownOption, NextOption, Given,
         StartFiles, OptionsRead, OpenFile, PickVerifier, NextSection, StartRounds,
         SkipHeader, Allocate, AcceptSegment, EndRound, InRound, config, history
<1>2. CASE RefuseOption \/ RefuseInputs
  <2>1. ~UsageOK' /\ UNCHANGED <<cmd, outcomes, failed, faulted>> /\ pc' = "exit" /\ pc = "options"
    BY <1>0, <1>2, RefusalsRight
       DEF RefuseOption, RefuseInputs, OptionsRead, Given, Exit, config, history
  <2> QED
    BY <2>1, GoodStays DEF OutcomesInv
<1>3. k \notin 1..Len(outcomes)
  BY <1>0 DEF TypeOK, k
<1>4. CASE OpenFails \/ IOFails \/ LoadFails
  <2>1. Return(FALSE) /\ faulted' = faulted \cup {k} /\ pc # "exit"
    BY <1>4 DEF OpenFails, IOFails, LoadFails, Close, Fault, InRound
  <2> QED
    BY <1>0, <2>1, ReturnRight
<1>5. CASE RefuseHeader
  <2>1. Return(FALSE) /\ faulted' = faulted /\ pc = "header" /\ ~Supported
    BY <1>5 DEF RefuseHeader, Close, history
  <2>2. args = Asked
    BY <2>1 DEF UsageInv, Running
  <2>3. ~Good(k)
    BY <2>1, <2>2 DEF Supported, Good, Deserves, file
  <2> QED
    BY <1>0, <2>1, <2>3, ReturnRight
<1>6. CASE RejectSegment
  <2>1. Return(FALSE) /\ faulted' = faulted /\ pc = "loaded"
        /\ phdr.code \notin lfiv_verify[verify][opts]
    BY <1>6 DEF RejectSegment
  <2>2. opts = Under /\ verify = file.machine /\ phdr.exec
    BY <2>1 DEF UsageInv, Running, FileInv
  <2>3. i + 1 \in Execs(file)
    BY <1>0, <2>1, <2>2, FileTyped DEF TypeOK, Execs, phdr
  <2>4. ~Good(k)
    BY <2>1, <2>2, <2>3 DEF Good, Deserves, file, phdr
  <2> QED
    BY <1>0, <2>1, <2>4, ReturnRight
<1>7. CASE EndFile
  <2> DEFINE c == Cardinality(Execs(file))
  <2>1. Return(segments # 0) /\ faulted' = faulted /\ pc = "segments" /\ n >= args.n
    BY <1>7 DEF EndFile, Close, history
  <2>2. args = Asked /\ opts = Under /\ verify = file.machine /\ Supported /\ UsageOK
    BY <2>1 DEF UsageInv, Running, FileInv
  <2>3. n \in Nat /\ args.n \in Int /\ Len(file.phdrs) \in Nat
    BY <1>0, <2>1, FileTyped DEF TypeOK
  <2>4. c \in Nat /\ Cardinality(ExecsUpTo(file, 0)) = 0
    BY <2>3, ExecsFinite, ExecsEnds
  <2>5. segments = (n * c) % UintSpan
    <3>1. segments = (n * c + 0) % UintSpan
      BY <2>1, <2>4 DEF FileInv
    <3>2. n * c + 0 = n * c
      BY <2>3, <2>4
    <3> HIDE DEF c
    <3> QED
      BY <3>1, <3>2
  <2>6. ASSUME segments # 0 PROVE Good(k)
    <3>1. 0 % UintSpan = 0
      BY BoundsAssumption
    <3>2. n * c # 0
      BY <2>5, <2>6, <3>1
    <3>3. n # 0 /\ c # 0
      <4>1. 0 * c = 0 /\ n * 0 = 0
        BY <2>3, <2>4
      <4> HIDE DEF c
      <4> QED
        BY <3>2, <4>1
    <3>4. n = args.n /\ n >= 1
      BY <2>1, <2>3, <3>3 DEF FileInv
    <3>5. Execs(file) # {}
      BY <3>3, FS_EmptySet
    <3>6. \A p \in Execs(file) : file.phdrs[p].code \in lfiv_verify[file.machine][opts]
      BY <2>1, <3>4 DEF FileInv
    <3> QED
      BY <2>2, <2>3, <2>5, <2>6, <3>4, <3>5, <3>6
         DEF Good, Deserves, WrapsToZero, Supported, file
  <2>7. ASSUME Good(k) PROVE segments # 0
    <3>1. Asked.n > 0 /\ (Asked.n * c) % UintSpan # 0
      BY <2>7 DEF Good, Deserves, WrapsToZero, file
    <3>2. n = args.n
      BY <2>1, <2>2, <2>3, <3>1 DEF FileInv
    <3> QED
      BY <2>2, <2>5, <3>1, <3>2
  <2> QED
    BY <1>0, <1>3, <2>1, <2>6, <2>7, ReturnRight DEF OutcomesInv
<1>8. CASE ClockFails
  <2>1. /\ UNCHANGED <<cmd, outcomes, failed>> /\ faulted' = faulted \cup {k}
        /\ pc' = "exit" /\ status' = "1" /\ pc \in {"sections", "segments"}
    BY <1>8 DEF ClockFails, Exit, Fault, config
  <2>2. k \in Inputs
    BY <1>0, <2>1 DEF TypeOK
  <2>3. \A j \in 1..Len(outcomes) : j \in faulted' <=> j \in faulted
    BY <1>3, <2>1
  <2>4. k' = k /\ Inputs' = Inputs
    BY <2>1 DEF k, Inputs
  <2> QED
    BY <2>1, <2>2, <2>3, <2>4, GoodStays DEF OutcomesInv
<1>9. CASE Report
  <2>1. /\ UNCHANGED <<cmd, outcomes, failed, faulted>> /\ pc' = "exit"
        /\ status' = IF failed THEN "1" ELSE "0"
    BY <1>9 DEF Report, Exit, config, history
  <2>2. Len(outcomes) = Len(cmd.inputs)
    BY <1>0, <1>9, CmdTyped DEF Report, TypeOK, Inputs, k
  <2> QED
    BY <2>1, <2>2, GoodStays DEF OutcomesInv
<1>10. CASE Ended \/ UNCHANGED vars
  <2>1. UNCHANGED <<cmd, pc, outcomes, failed, faulted, status>> /\ k' = k /\ Inputs' = Inputs
    BY <1>10 DEF Ended, vars, k, Inputs
  <2> QED
    BY <2>1, GoodStays DEF OutcomesInv
<1> QED
  BY <1>1, <1>2, <1>4, <1>5, <1>6, <1>7, <1>8, <1>9, <1>10 DEF Next

Inv == TypeInv /\ UsageInv /\ FileInv /\ OutcomesInv

LEMMA Invariance == Spec => []Inv
<1>1. Init => Inv
  BY InitTyped, UsageInitially, FileInitially, OutcomesInitially DEF Inv
<1>2. Inv /\ [Next]_vars => Inv'
  BY NextTyped, UsagePreserved, FilePreserved, OutcomesPreserved DEF Inv
<1> QED
  BY <1>1, <1>2, PTL DEF Spec

\* Every file is judged on its own merits: under all the options, by the verifier of its
\* machine, whatever the files before it left behind in the state verify() keeps.
THEOREM OutcomesCorrect == Spec => []OutcomesExact
<1>1. Inv => OutcomesExact
  BY DEF Inv, TypeInv, TypeOK, OutcomesInv, OutcomesExact, Good
<1> QED
  BY <1>1, Invariance, PTL

\* The exit status is 0 exactly if the command line was in order and every file passed.
THEOREM StatusCorrect == Spec => []StatusExact
<1>1. Inv => StatusExact
  <2> SUFFICES ASSUME Inv, pc = "exit"
               PROVE  status = "0" <=> UsageOK /\ \A j \in Inputs : Good(j) /\ j \notin faulted
    BY DEF StatusExact, Good
  <2>1. CASE ~UsageOK
    BY <2>1 DEF Inv, UsageInv
  <2>2. CASE UsageOK /\ k \in faulted /\ k \in Inputs /\ status = "1"
    BY <2>2
  <2>3. CASE UsageOK /\ Len(outcomes) = Len(cmd.inputs) /\ (status = "0" <=> ~failed)
    <3>1. Inputs = 1..Len(outcomes)
      BY <2>3 DEF Inputs
    <3> QED
      BY <2>3, <3>1 DEF Inv, OutcomesInv
  <2> QED
    BY <2>1, <2>2, <2>3 DEF Inv, OutcomesInv
<1> QED
  BY <1>1, Invariance, PTL

\* No file keeps a later one from being judged.
THEOREM AllJudged == Spec => []EveryFileJudged
<1>1. Inv => EveryFileJudged
  BY DEF Inv, OutcomesInv, EveryFileJudged
<1> QED
  BY <1>1, Invariance, PTL

-----------------------------------------------------------------------------
(* What is left behind. *)

LeakInv ==
    /\ rejected \subseteq 1..Len(outcomes)
    /\ pc \in {"options", "open"} => open = rejected
    /\ pc \in {"header", "sections", "segments", "loaded"} => open = rejected \cup {k}
    /\ blocks = IF pc = "loaded" THEN Cardinality(rejected) + 1 ELSE Cardinality(rejected)

LEMMA LeakInitially == Init => LeakInv
  BY FS_EmptySet DEF Init, LeakInv

LEMMA LeakPreserved == TypeInv /\ UsageInv /\ LeakInv /\ [Next]_vars => LeakInv'
<1> SUFFICES ASSUME TypeInv, UsageInv, LeakInv, [Next]_vars PROVE LeakInv'
  OBVIOUS
<1>0. TypeOK /\ Len(outcomes) \in Nat /\ k = Len(outcomes) + 1 /\ k \notin rejected
  BY DEF TypeInv, TypeOK, k, LeakInv
<1>1. IsFiniteSet(rejected) /\ Cardinality(rejected) \in Nat
  <2>1. IsFiniteSet(1..Len(outcomes))
    BY <1>0, FS_Interval
  <2>2. IsFiniteSet(rejected)
    BY <2>1, FS_Subset DEF LeakInv
  <2> QED
    BY <2>2, FS_CardinalityType
<1>2. Cardinality(rejected \cup {k}) = Cardinality(rejected) + 1
  BY <1>0, <1>1, FS_AddElement
<1>3. ASSUME NEW b \in BOOLEAN, Return(b)
      PROVE  /\ pc' = "open"
             /\ rejected' \subseteq rejected \cup {k} => rejected' \subseteq 1..Len(outcomes')
  <2>1. Len(outcomes') = Len(outcomes) + 1
    BY <1>0, <1>3 DEF Return, TypeOK
  <2>2. rejected \cup {k} \subseteq 1..Len(outcomes')
    <3>1. \A j \in rejected : j \in 1..(Len(outcomes) + 1)
      BY <1>0 DEF LeakInv
    <3>2. k \in 1..(Len(outcomes) + 1)
      BY <1>0
    <3> QED
      BY <2>1, <3>1, <3>2
  <2> QED
    BY <1>3, <2>2 DEF Return
<1>4. CASE SetArch \/ SetN \/ SetSandbox \/ SetNoBdd \/ SetCtxreg \/ UnknownOption \/ StartFiles
           \/ RefuseOption \/ RefuseInputs \/ Report
  BY <1>4
     DEF SetArch, SetN, SetSandbox, SetNoBdd, SetCtxreg, UnknownOption, NextOption, Given,
         StartFiles, OptionsRead, RefuseOption, RefuseInputs, Report, Exit, config, history,
         LeakInv
<1>5. CASE OpenFile \/ PickVerifier \/ NextSection \/ StartRounds \/ SkipHeader \/ EndRound
  BY <1>5 DEF OpenFile, PickVerifier, NextSection, StartRounds, SkipHeader, EndRound, InRound,
              config, history, LeakInv, k
<1>6. CASE Allocate
  BY <1>6 DEF Allocate, InRound, config, history, LeakInv, k
<1>7. CASE AcceptSegment
  BY <1>1, <1>7 DEF AcceptSegment, config, history, LeakInv, k
<1>8. CASE ClockFails
  BY <1>8 DEF ClockFails, Exit, Fault, LeakInv
<1>9. CASE OpenFails
  BY <1>3, <1>9 DEF OpenFails, Fault, LeakInv
<1>10. CASE RefuseHeader \/ IOFails \/ EndFile
  <2>1. /\ \E b \in BOOLEAN : Return(b)
        /\ open' = open \ {k} /\ rejected' = rejected /\ blocks' = blocks
        /\ pc \in {"header", "sections", "segments"}
    BY <1>10 DEF RefuseHeader, IOFails, EndFile, Close, Fault, history, InRound
  <2> QED
    BY <1>0, <1>3, <2>1 DEF LeakInv
<1>11. CASE LoadFails
  <2>1. Return(FALSE) /\ open' = open \ {k} /\ rejected' = rejected /\ blocks' = blocks - 1
        /\ pc = "loaded"
    BY <1>11 DEF LoadFails, Close, Fault
  <2>2. open' = rejected /\ pc' = "open" /\ rejected' \subseteq 1..Len(outcomes')
    BY <1>0, <1>3, <2>1 DEF LeakInv
  <2>3. blocks' = Cardinality(rejected)
    BY <1>1, <2>1 DEF LeakInv
  <2> QED
    BY <2>1, <2>2, <2>3 DEF LeakInv
<1>12. CASE RejectSegment
  <2>1. Return(FALSE) /\ open' = open /\ rejected' = rejected \cup {k} /\ blocks' = blocks
        /\ pc = "loaded"
    BY <1>12 DEF RejectSegment
  <2> QED
    BY <1>2, <1>3, <2>1 DEF LeakInv
<1>13. CASE Ended \/ UNCHANGED vars
  BY <1>13 DEF Ended, vars, LeakInv, k
<1> QED
  BY <1>4, <1>5, <1>6, <1>7, <1>8, <1>9, <1>10, <1>11, <1>12, <1>13 DEF Next

\* What is still open or allocated between two files belongs to those that lfiv_verify
\* turned down, and there are never more of either than INPUTMAX.
THEOREM LeaksCorrect == Spec => []LeaksAreRejections
<1>1. Inv /\ LeakInv => LeaksAreRejections
  <2> SUFFICES ASSUME Inv, LeakInv
               PROVE  Cardinality(open) <= INPUTMAX /\ blocks <= INPUTMAX
    BY DEF LeaksAreRejections, LeakInv
  <2>0. TypeOK
    BY DEF Inv, TypeInv
  <2>1. CASE UsageOK
    <3>1. Len(cmd.inputs) \in Nat /\ Len(cmd.inputs) <= INPUTMAX
      BY <2>1, BoundsAssumption DEF UsageOK
    <3>2. /\ IsFiniteSet(Inputs) /\ Cardinality(Inputs) = Len(cmd.inputs)
      BY <3>1, FS_Interval DEF Inputs
    <3>3. /\ IsFiniteSet(open) /\ Cardinality(open) <= Len(cmd.inputs)
          /\ Cardinality(open) \in Nat
      <4>1. open \subseteq Inputs
        BY <2>0 DEF TypeOK
      <4> QED
        BY <3>2, <4>1, FS_Subset, FS_CardinalityType
    <3>4. /\ IsFiniteSet(1..Len(outcomes)) /\ Cardinality(1..Len(outcomes)) = Len(outcomes)
          /\ Len(outcomes) \in Nat
      <4>1. Len(outcomes) \in Nat
        BY <2>0 DEF TypeOK
      <4>2. \A m \in Nat : IsFiniteSet(1..m) /\ Cardinality(1..m) = m
        <5> TAKE m \in Nat
        <5>1. 1 \in Int /\ m \in Int
          OBVIOUS
        <5>2. IsFiniteSet(1..m) /\ Cardinality(1..m) = IF 1 > m THEN 0 ELSE m - 1 + 1
          BY <5>1, FS_Interval
        <5> QED
          BY <5>2
      <4> QED
        BY <4>1, <4>2
    <3>5. Cardinality(rejected) <= Len(outcomes) /\ Cardinality(rejected) \in Nat
      BY <3>4, FS_Subset, FS_CardinalityType DEF LeakInv
    <3>6. blocks <= Len(cmd.inputs) /\ blocks \in Nat
      BY <2>0, <3>1, <3>4, <3>5 DEF LeakInv, TypeOK, Inputs, k
    <3> QED
      BY <3>1, <3>3, <3>6, BoundsAssumption
  <2>2. CASE ~UsageOK
    <3>1. open = {} /\ blocks = 0
      BY <2>0, <2>2 DEF Inv, UsageInv, Running
    <3> QED
      BY <3>1, FS_EmptySet, BoundsAssumption
  <2> QED
    BY <2>1, <2>2
<1>2. Init => LeakInv
  BY LeakInitially
<1>3. Inv /\ LeakInv /\ [Next]_vars => LeakInv'
  BY LeakPreserved DEF Inv
<1> QED
  BY <1>1, <1>2, <1>3, Invariance, PTL DEF Spec

-----------------------------------------------------------------------------
(* The promise of the program. *)

\* The tool implements BatchSpec, liveness aside: it says of no file that it passed that
\* does not deserve it, and its exit status is the conjunction of what it said.
THEOREM ImplementsBatchSafely == Spec => Batch!Spec
<1> DEFINE good == {j \in Inputs : Deserves(cmd.inputs[j])}
<1>1. Init => Batch!Init
  <2> SUFFICES ASSUME Init PROVE Batch!Init
    OBVIOUS
  <2>1. TypeOK
    BY InitTyped DEF TypeInv
  <2> QED
    BY <2>1, CmdTyped DEF Init, Batch!Init, Inputs
<1>2. Inv /\ Inv' /\ [Next]_vars => [Batch!Next]_Batch!vars
  <2> SUFFICES ASSUME Inv, Inv', [Next]_vars, ~UNCHANGED Batch!vars PROVE Batch!Next
    BY DEF Batch!vars
  <2>0. TypeOK /\ UNCHANGED cmd /\ Len(outcomes) \in Nat /\ Len(cmd.inputs) \in Nat
    <3>1. UNCHANGED cmd
      BY DEF Next, vars, SetArch, SetN, SetSandbox, SetNoBdd, SetCtxreg, UnknownOption,
             NextOption, RefuseOption, RefuseInputs, StartFiles, OpenFile, OpenFails,
             PickVerifier, RefuseHeader, NextSection, StartRounds, ClockFails, SkipHeader,
             Allocate, IOFails, LoadFails, AcceptSegment, RejectSegment, EndRound, EndFile,
             Report, Ended, Return, Close, config
    <3> QED
      BY <3>1, CmdTyped DEF Inv, TypeInv, TypeOK
  <2>1. Len(cmd'.inputs) = Len(cmd.inputs) /\ good' = good
    BY <2>0 DEF Inputs, Deserves, Asked, Under, UsageOK
  <2>2. ASSUME NEW b \in BOOLEAN, Return(b), k \in Inputs, pc # "exit" PROVE Batch!Next
    <3>1. outcomes' = Append(outcomes, b) /\ status' = status /\ status = "none"
      BY <2>0, <2>2 DEF Return, TypeOK
    <3>2. Len(outcomes') = k /\ outcomes'[k] = b
      BY <2>0, <3>1 DEF TypeOK, k
    <3>3. b => Deserves(cmd.inputs[k])
      <4>1. k \in DOMAIN outcomes'
        BY <2>0, <2>2, <3>1 DEF TypeOK, k, Inputs
      <4>2. \A j \in DOMAIN outcomes' : outcomes'[j] => Deserves(cmd.inputs[j])'
        BY <2>0, <2>2 DEF Inv, OutcomesInv, Good
      <4>3. \A j : Deserves(cmd.inputs[j])' <=> Deserves(cmd.inputs[j])
        BY <2>0 DEF Deserves, Asked, Under, UsageOK
      <4> QED
        BY <3>2, <4>1, <4>2, <4>3
    <3>4. Batch!Judge(b)
      BY <2>0, <2>1, <2>2, <3>1, <3>3 DEF Batch!Judge, Inputs, k
    <3> QED
      BY <3>4 DEF Batch!Next
  <2>3. ASSUME pc' = "exit", pc # "exit", UNCHANGED outcomes, status' \in {"0", "1"},
               status' = "0" <=> Batch!AllPassed
        PROVE  Batch!Next
    <3>1. status = "none"
      BY <2>0, <2>3 DEF TypeOK
    <3>2. Batch!End
      BY <2>1, <2>3, <3>1 DEF Batch!End
    <3> QED
      BY <3>2 DEF Batch!Next
  <2>4. CASE RefuseOption \/ RefuseInputs \/ ClockFails \/ Report
    <3>1. pc' = "exit" /\ pc # "exit" /\ UNCHANGED outcomes /\ status' \in {"0", "1"}
      BY <2>4 DEF RefuseOption, RefuseInputs, ClockFails, Report, OptionsRead, Given, Exit
    <3>2. status' = "0" <=> Batch!AllPassed
      <4>1. CASE Report
        <5>1. Len(outcomes) = Len(cmd.inputs)
          BY <2>0, <4>1, CmdTyped DEF Report, TypeOK, Inputs, k
        <5>2. UsageOK
          BY <4>1 DEF Report, Inv, UsageInv, Running
        <5>3. Len(cmd.inputs) > 0
          BY <5>2, BoundsAssumption DEF UsageOK
        <5>4. ~failed <=> \A j \in 1..Len(cmd.inputs) : outcomes[j]
          BY <5>1 DEF Inv, OutcomesInv
        <5> QED
          BY <4>1, <5>1, <5>3, <5>4 DEF Report, Exit, Batch!AllPassed
      <4>2. CASE ClockFails
        <5>1. k \in Inputs
          BY <2>0, <4>2 DEF ClockFails, TypeOK
        <5> QED
          BY <2>0, <4>2, <5>1 DEF ClockFails, Exit, Batch!AllPassed, Inputs, k
      <4>3. CASE RefuseOption \/ RefuseInputs
        <5>1. outcomes = <<>> /\ status' = "1"
          BY <4>3 DEF RefuseOption, RefuseInputs, OptionsRead, Given, Exit, Inv, UsageInv
        <5> QED
          BY <5>1 DEF Batch!AllPassed
      <4> QED
        BY <2>4, <4>1, <4>2, <4>3
    <3> QED
      BY <2>3, <3>1, <3>2
  <2>5. CASE OpenFails \/ RefuseHeader \/ IOFails \/ LoadFails \/ RejectSegment \/ EndFile
    <3>1. /\ \E b \in BOOLEAN : Return(b)
          /\ pc # "exit" /\ (pc = "open" => k \in Inputs) /\ pc # "options"
      BY <2>5 DEF OpenFails, RefuseHeader, IOFails, LoadFails, RejectSegment, EndFile, Close,
                  InRound
    <3>2. k \in Inputs
      BY <2>0, <3>1 DEF TypeOK
    <3> QED
      BY <2>2, <3>1, <3>2
  <2>6. CASE ~(RefuseOption \/ RefuseInputs \/ ClockFails \/ Report)
             /\ ~(OpenFails \/ RefuseHeader \/ IOFails \/ LoadFails \/ RejectSegment \/ EndFile)
    <3>1. UNCHANGED <<outcomes, status>>
      BY <2>6
         DEF Next, vars, SetArch, SetN, SetSandbox, SetNoBdd, SetCtxreg, UnknownOption,
             NextOption, StartFiles, OpenFile, PickVerifier, NextSection, StartRounds,
             SkipHeader, Allocate, AcceptSegment, EndRound, Ended
    <3> QED
      BY <2>1, <3>1 DEF Batch!vars
  <2> QED
    BY <2>4, <2>5, <2>6
<1> QED
  BY <1>1, <1>2, Invariance, PTL DEF Spec, Batch!Spec
=============================================================================
