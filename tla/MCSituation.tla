---------------------------- MODULE MCSituation ----------------------------
(* Situation with the values that Situation.cfg takes by name.             *)
EXTENDS Situation

Both == {TRUE, FALSE}
=============================================================================
