----------------------------- MODULE MCDevices ------------------------------
(* Instances of Devices for TLC.                                           *)
EXTENDS Devices, TLC

CONSTANTS s1, s2, d1, d2, c1, c2, e1, e2, t1

\* None of these does anything by name.
Symmetry ==
    Permutations(Slots) \cup Permutations(Devices) \cup Permutations(Codes)
        \cup Permutations(Endpoints)
=============================================================================
