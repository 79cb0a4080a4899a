------------------------------ MODULE MCAgents ------------------------------
(* Agents with the numbers of Agents.cfg: one retry of the network, a       *)
(* player that is kicked after two tools, and children of which only the    *)
(* job holds the pipes of its CLI, and only the shell hides its environment *)
(* (a sweep that fails sees neither).                                       *)
EXTENDS Agents

JobOnly == {"job"}
ShellOnly == {"shell"}
=============================================================================
