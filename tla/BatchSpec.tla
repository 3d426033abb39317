------------------------------ MODULE BatchSpec ------------------------------
(***************************************************************************)
(* What lfi-verify promises whoever runs it on several inputs: they are    *)
(* judged one by one, in order, none passes that is not good, and the exit *)
(* status is 0 only if every one of them, and at least one, was judged and *)
(* passed.  Rejecting is always allowed: a file may be unreadable.         *)
(***************************************************************************)
EXTENDS Naturals, Sequences

VARIABLES count,      \* how many inputs there are
          good,       \* the numbers of those that deserve to pass
          outcomes,   \* what has been said of the inputs so far
          status      \* "none" until the program ends, then "0" or "1"

vars == <<count, good, outcomes, status>>

AllPassed == /\ count > 0 /\ Len(outcomes) = count
             /\ \A k \in 1..count : outcomes[k]

Init == /\ count \in Nat /\ good \subseteq 1..count
        /\ outcomes = <<>> /\ status = "none"

Judge(passes) ==
    /\ status = "none" /\ Len(outcomes) < count
    /\ passes => Len(outcomes) + 1 \in good
    /\ outcomes' = Append(outcomes, passes)
    /\ UNCHANGED <<count, good, status>>

End == /\ status = "none"
       /\ status' = IF AllPassed THEN "0" ELSE "1"
       /\ UNCHANGED <<count, good, outcomes>>

Next == (\E passes \in BOOLEAN : Judge(passes)) \/ End

Spec == Init /\ [][Next]_vars

\* The program ends: it reads finite files.
LiveSpec == Spec /\ <>(status # "none")
=============================================================================
