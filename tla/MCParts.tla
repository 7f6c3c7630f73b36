------------------------------ MODULE MCParts ------------------------------
(***************************************************************************)
(* Five components that share no state and are small enough for one run:   *)
(* each behaviour is one of a single component, while the others rest.     *)
(***************************************************************************)
EXTENDS
    InteractiveManager, SessionLock, LarkConnection, ProbeResources, NotificationCooldown

VARIABLE part

\* The last call is for another session.
MCSessionOf == [t \in Tasks |-> IF t = Max(Tasks) THEN 2 ELSE 1]

Init ==
    /\ part \in {"manager", "lock", "lark", "probe", "cooldown"}
    /\ ManagerInit /\ LockInit /\ LarkInit /\ ProbeInit /\ CooldownInit

restVars == <<larkVars, probeVars, cooldownVars>>
ManagerStep == part = "manager" /\ ManagerNext /\ UNCHANGED <<lockVars, restVars>>
LockStep == part = "lock" /\ LockNext /\ UNCHANGED <<managerVars, restVars>>
LarkStep ==
    part = "lark" /\ LarkNext /\ UNCHANGED <<managerVars, lockVars, probeVars, cooldownVars>>
ProbeStep ==
    part = "probe" /\ ProbeNext /\ UNCHANGED <<managerVars, lockVars, larkVars, cooldownVars>>
CooldownStep ==
    part = "cooldown" /\ CooldownNext /\ UNCHANGED <<managerVars, lockVars, larkVars, probeVars>>

Next ==
    /\ ManagerStep \/ LockStep \/ LarkStep \/ ProbeStep \/ CooldownStep
    /\ UNCHANGED part

vars == <<part, managerVars, lockVars, restVars>>

\* What is fair is not enabled in a component that rests.
FairSpec == Init /\ [][Next]_vars /\ ManagerFairness /\ LockFairness /\ LarkFairness
=============================================================================
