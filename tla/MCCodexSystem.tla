-------------------------- MODULE MCCodexSystem --------------------------
(***************************************************************************)
(* Small instances of CodexSystem.  Sessions, requests, faults and bounds  *)
(* are in the .cfg files; here are the values that depend on them.         *)
(***************************************************************************)
EXTENDS CodexSystem

MCTurns == Sessions \X (1 .. MaxTurns)

\* Every app-server numbers its requests from the same start.
SameIds == [h \in Hosts |-> Requests]

\* The managed app-server and the native ones happen to use different numbers.
ApartIds == [h \in Hosts |-> IF h = Managed THEN {"a"} ELSE {"c"}]
=============================================================================
