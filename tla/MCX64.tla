-------------------------------- MODULE MCX64 -------------------------------
(***************************************************************************)
(* X64Verifier in bundles of four bytes, so that a few short instructions  *)
(* cross several.                                                          *)
(*   LayoutCalls    every sequence of up to three instructions of one to   *)
(*                  three bytes, direct jumps, illegal, undecodable and    *)
(*                  cut-off ones, under every combination of no_bdd and    *)
(*                  err, and loaded where no bundle starts;                *)
(*   MacroCalls     every sequence of up to four parts of the indirect     *)
(*                  jump and call, and of the runtime call, of a byte      *)
(*                  each: in one bundle; at an address that is not a       *)
(*                  bundle start; and behind two nops, so that the         *)
(*                  recognisers look into the next bundle;                 *)
(*   DecoderCalls   the decoders give different lengths;                   *)
(*   AllCalls       all of these.                                          *)
(***************************************************************************)
EXTENDS X64Verifier, X64Code, SequencesExt

Opt(box, no_bdd, ctxreg, err) ==
    [box |-> box, no_bdd |-> no_bdd, ctxreg |-> ctxreg, err |-> err]

FullOpts == {Opt("FULL", b, FALSE, e) : b \in BOOLEAN, e \in BOOLEAN}

Nop == I("NOP", 1, <<>>)
Bad(bdd) == Token(Undecodable, bdd, Undecodable)

LayoutTokens ==
    {Plain(Nop), Plain(I("MOV", 2, <<Q(AX), Q(BX)>>)),
     Token(I("ADD", 3, <<Q(AX), Imm(8)>>), 3, Nop),   \* its immediate decodes as nops
     Plain(Jump(0)), Plain(Jump(2)),
     Plain(I("SYSCALL", 1, <<>>)),
     Bad(0), Bad(3)}   \* the second is cut off by the end of the code

CallsOf(os, tokens, n, bases) ==
    [opts : os, code : {CodeOf(s) : s \in BoundedSeq(tokens, n)}, base : bases]

LayoutCalls ==
    CallsOf(FullOpts, LayoutTokens, 3, {0})
      \cup CallsOf({Opt("FULL", FALSE, FALSE, TRUE)}, LayoutTokens, 3, {1})

JumpTokens ==
    {Plain(d) : d \in
       {Nop, I("AND", 1, <<E(AX), Imm(BundleMask)>>), I("ADD", 1, <<Q(AX), Q(R14)>>),
        I("JMP", 1, <<Q(AX)>>), I("CALL", 1, <<Q(AX)>>)}}

ReturnTokens ==
    {Plain(d) : d \in
       {Nop, I("LEA", 1, <<Q(R11), Mem(IP, 1)>>), I("LEA", 1, <<Q(R11), Mem(IP, 2)>>),
        I("JMP", 1, <<Mem(R14, 8)>>)}}

Parts == BoundedSeq(JumpTokens, 4) \cup BoundedSeq(ReturnTokens, 4)

MacroCalls ==
    LET o == Opt("FULL", FALSE, FALSE, FALSE) IN
    [opts : {o}, code : {CodeOf(s) : s \in Parts}, base : {0, 1}]
      \cup [opts : {o}, code : {CodeOf(<<Plain(Nop), Plain(Nop)>> \o s) : s \in Parts}, base : {0}]

DecoderTokens ==
    {Token(d, b, Nop) : d \in {Nop, I("MOV", 2, <<Q(AX), Q(BX)>>)}, b \in 0..2}

DecoderCalls ==
    CallsOf({Opt("FULL", FALSE, FALSE, TRUE)}, DecoderTokens, 3, {0})
      \cup CallsOf({Opt("FULL", FALSE, FALSE, FALSE)}, DecoderTokens, 4, {0})

AllCalls == LayoutCalls \cup MacroCalls \cup DecoderCalls
=============================================================================
