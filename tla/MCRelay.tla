------------------------------ MODULE MCRelay -------------------------------
(* Instances of Relay for TLC.                                             *)
EXTENDS Relay, TLC

CONSTANTS s1, s2, s3, d1, e1

\* A state that is pushed, and one whose run has fallen silent.
PushReasons == {"ask", "end"} \X {FALSE} \cup {"run", "ask"} \X {TRUE}

\* Slots do nothing by name.
Symmetry == Permutations(Slots)
=============================================================================
