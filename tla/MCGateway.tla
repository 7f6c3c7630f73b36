---------------------------- MODULE MCGateway ----------------------------
(***************************************************************************)
(* Terminals that come one after the other, each numbering its request     *)
(* from the start; one of them opens the thread in which everything is     *)
(* asked.                                                                  *)
(***************************************************************************)
EXTENDS Gateway
MCOpener == CHOOSE t \in Terminals : TRUE
MCIdOf == [t \in Terminals |-> 1]
MCMethod == [t \in Terminals |-> IF t = MCOpener THEN "start" ELSE "other"]
MCThreadOf == [a \in Asks |-> MCOpener]
=============================================================================
