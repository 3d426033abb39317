------------------------------- MODULE MCTool -------------------------------
(***************************************************************************)
(* LfiVerifyTool over small files, with a limit of three inputs.           *)
(*   OptionLines   every sequence of up to three options, with none, one,  *)
(*                 two or four inputs;                                     *)
(*   FileLines     every sequence of up to three files -- of either        *)
(*                 machine, damaged, without executable segments, with a   *)
(*                 segment that is turned down -- for up to two rounds.    *)
(* unsigned has four values, so that two segments wrap in two rounds.      *)
(***************************************************************************)
EXTENDS LfiVerifyTool, SequencesExt

MCCode == {"plain", "loads", "arm", "r15", "unknown to the BDD", "syscall"}

MCVerify ==
    [m \in Machine |-> [o \in Options |->
       {c \in MCCode :
          /\ c # "syscall"
          /\ c = "loads" => o.box = "STORES"
          /\ c = "arm" => m = "arm64"
          /\ c = "r15" => ~o.ctxreg
          /\ c = "unknown to the BDD" => o.no_bdd}]]

Opt(kind) == [opt |-> kind]
Arg(kind, arg) == [opt |-> kind, arg |-> arg]

OptionTokens ==
    {Opt(o) : o \in {"help", "no-bdd", "ctxreg", "?"}}
      \cup {Arg("arch", a) : a \in {"x64", "arm64", "other"}}
      \cup {Arg("n", x) : x \in {-1, 0, 2}}
      \cup {Arg("sandbox", b) : b \in {"FULL", "STORES", "other"}}

Exec(code) == [exec |-> TRUE, code |-> code]
Data == [exec |-> FALSE, code |-> "plain"]

Elf(machine, shnum, phdrs) ==
    [elf |-> TRUE, machine |-> machine, shnum |-> shnum, phdrs |-> phdrs]

OptionInputs ==
    {<<>>}
      \cup {<<Elf("x64", 0, <<Exec(c)>>)>> : c \in {"loads", "r15", "unknown to the BDD"}}
      \cup {<<Elf("arm64", 0, <<Exec("arm")>>), Elf("x64", 0, <<Exec("loads")>>)>>}
      \cup {<<Elf("arm64", 0, <<Exec("arm")>>), Elf("x64", 0, <<>>),
              Elf("arm64", 0, <<>>), Elf("x64", 0, <<>>)>>}

OptionLines == [options : BoundedSeq(OptionTokens, 3), inputs : OptionInputs]

Files ==
    {Elf("x64", 1, <<Data, Exec("plain")>>), Elf("arm64", 1, <<Exec("arm"), Exec("plain")>>),
     Elf("x64", 0, <<Exec("arm")>>), Elf("arm64", 0, <<Exec("plain"), Exec("syscall")>>),
     Elf("x64", 2, <<Data>>), Elf("other", 0, <<Exec("plain")>>),
     [Elf("x64", 0, <<Exec("plain")>>) EXCEPT !.elf = FALSE]}

FileLines ==
    [options : {<<>>, <<Arg("n", 2)>>, <<Arg("n", 0)>>, <<Arg("arch", "arm64")>>},
     inputs : BoundedSeq(Files, 3)]

MCCommandLines == OptionLines \cup FileLines
=============================================================================
