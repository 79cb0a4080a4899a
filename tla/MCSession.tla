----------------------------- MODULE MCSession -----------------------------
(***************************************************************************)
(* Session for the model checker: its constants are numbers, and its       *)
(* configurations give them.                                               *)
(***************************************************************************)
EXTENDS Session
=============================================================================
