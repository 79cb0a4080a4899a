------------------------------ MODULE MCHosts ------------------------------
(***************************************************************************)
(* Instances of Hosts: the processes and the rows are interchangeable.     *)
(***************************************************************************)
EXTENDS Hosts, TLC

Symmetry == Permutations(Hosts) \cup Permutations(Agents)
=============================================================================
