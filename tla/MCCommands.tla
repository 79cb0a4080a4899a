----------------------------- MODULE MCCommands -----------------------------
(* Instances of Commands for TLC.                                          *)
EXTENDS Commands, TLC

CONSTANTS ph1, ph2, p1, p2, p3, p4

\* Phones and processes do nothing by name.
Symmetry == Permutations(Phones) \cup Permutations(Procs)
=============================================================================
