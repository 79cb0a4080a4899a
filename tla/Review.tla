------------------------------- MODULE Review -------------------------------
(***************************************************************************)
(* What a phase promises of the tree it works on: a tree is committed only *)
(* when it has passed the gate and the judge has approved it after that,   *)
(* and a question for the owner about a missing verdict names the tree     *)
(* that has passed the gate.  Whatever sends the round back to the player  *)
(* takes the candidate away: nothing older is ever committed or asked      *)
(* about, and what is over stays as it ended.                              *)
(***************************************************************************)
CONSTANTS
    Trees,      \* contents the working tree can have
    NoTree,     \* none of them
    Rewrites    \* the last run of the tests may leave another tree

VARIABLES
    stage,      \* "work", "gated", "approved" or "over"
    candidate,  \* the tree that has passed the gate, in the two middle stages
    commit,     \* the tree committed, or NoTree
    asked       \* the tree the owner is asked about, or NoTree

vars == <<stage, candidate, commit, asked>>

Init ==
    /\ \/ stage = "work" /\ candidate = NoTree
       \/ stage = "gated" /\ candidate \in Trees
    /\ commit = NoTree /\ asked = NoTree

Pass ==
    /\ stage = "work" /\ stage' = "gated"
    /\ candidate' \in Trees
    /\ UNCHANGED <<commit, asked>>

Approve ==
    /\ stage = "gated" /\ stage' = "approved"
    /\ UNCHANGED <<candidate, commit, asked>>

Reject ==
    /\ stage \in {"gated", "approved"} /\ stage' = "work"
    /\ candidate' = NoTree
    /\ UNCHANGED <<commit, asked>>

Closes ==
    /\ stage # "over" /\ stage' = "over"
    /\ candidate' = NoTree

Commit ==
    /\ stage = "approved" /\ Closes
    /\ commit' \in Trees /\ (commit' = candidate \/ Rewrites)
    /\ UNCHANGED asked

Ask ==
    /\ stage = "gated" /\ Closes
    /\ asked' = candidate
    /\ UNCHANGED commit

End == Closes /\ UNCHANGED <<commit, asked>>

Next == Pass \/ Approve \/ Reject \/ Commit \/ Ask \/ End

Spec == Init /\ [][Next]_vars
=============================================================================
