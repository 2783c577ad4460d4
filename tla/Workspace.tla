------------------------------- MODULE Workspace -------------------------------
(* An organization and those who work in it at the same time: its team, its       *)
(* subscription, its social accounts with the rotation of the key of their tokens, *)
(* and what its publications make at the platforms.  The plan of the subscription  *)
(* gives the seats of the team.                                                   *)
EXTENDS Teams, Connections, PlatformAdapters

vars == <<requestVars, billingVars, teamVars, connectionVars, adapterVars>>

Init ==
  /\ RequestsInit /\ SubscriptionInit /\ TeamsInit /\ ConnectionsInit /\ AdaptersInit

\* What goes on at a component nobody works at is of no interest.
Staffed(component) == \E r \in Requests : desk[r] = component

Next ==
  \/ Staffed("billing") /\ SubscriptionStep /\ UNCHANGED <<teamVars, connectionVars, adapterVars>>
  \/ Staffed("team") /\ TeamsStep /\ UNCHANGED <<connectionVars, adapterVars>>
  \/ Staffed("social") /\ ConnectionsStep /\ UNCHANGED <<billingVars, teamVars, adapterVars>>
  \/ Staffed("platform") /\ AdaptersStep /\ UNCHANGED <<billingVars, teamVars, connectionVars>>

Spec == Init /\ [][Next]_vars
================================================================================
