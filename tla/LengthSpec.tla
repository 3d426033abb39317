----------------------------- MODULE LengthSpec -----------------------------
(***************************************************************************)
(* What the first pass of lfiv_verify_x64 promises the second: it takes    *)
(* the code apart into complete instructions of the table, and fails at    *)
(* the first offset without one.  An instruction that the end of the code  *)
(* cuts short may be taken for one of any length that leads out of the     *)
(* code: the second pass turns it down.                                    *)
(***************************************************************************)
EXTENDS X64Table

VARIABLES table, code,
          count, ninstr,   \* the bytes and instructions of the code so far
          answer           \* "none" until the pass ends, then "pass" or "fail"

vars == <<table, code, count, ninstr, answer>>

Init == count = 0 /\ ninstr = 0 /\ answer = "none"

Here == Lengths(table, code, count)

Take == /\ answer = "none" /\ count < Len(code)
        /\ \/ count' \in {count + len : len \in Here}
           \/ Here = {} /\ count' \in (Len(code) + 1)..(count + BUF)
        /\ ninstr' = ninstr + 1
        /\ UNCHANGED <<table, code, answer>>

Fail == /\ answer = "none" /\ count < Len(code) /\ Here = {}
        /\ answer' = "fail"
        /\ UNCHANGED <<table, code, count, ninstr>>

Pass == /\ answer = "none" /\ count >= Len(code)
        /\ answer' = "pass"
        /\ UNCHANGED <<table, code, count, ninstr>>

Next == Take \/ Fail \/ Pass

Spec == Init /\ [][Next]_vars

\* The pass ends, whatever the code.
LiveSpec == Spec /\ <>(answer # "none")
=============================================================================
