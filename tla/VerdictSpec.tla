----------------------------- MODULE VerdictSpec -----------------------------
(***************************************************************************)
(* What lfiv_verify promises its caller (src/src/include/lfiv.h): it       *)
(* answers once, and the answer is the truth about what it was given.      *)
(* Truth is a definition of validity; each verifier of the project         *)
(* implements this specification with its own.                             *)
(***************************************************************************)
CONSTANT Truth(_)   \* whether an input is valid code under its options

VARIABLES input,    \* the arguments of the call
          verdict   \* "none" until the call returns, then "pass" or "fail"

vars == <<input, verdict>>

Init == verdict = "none"

Decide == /\ verdict = "none" /\ verdict' \in {"pass", "fail"}
          /\ verdict' = "pass" <=> Truth(input)
          /\ UNCHANGED input

Spec == Init /\ [][Decide]_vars

\* The call returns: both verifiers are loops over a buffer of a known size.
Answers == <>(verdict # "none")

LiveSpec == Spec /\ Answers
=============================================================================
