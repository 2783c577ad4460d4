------------------------------- MODULE Knowledge -------------------------------
(* What an organization knows, and those who write it and draw from it at the     *)
(* same time: the memory of its brand, a piece of its content, the figures of a    *)
(* campaign, its product, and the review of what was made.                         *)
EXTENDS ContentStudio, Optimizer, ProductIntelligence, Moderation

vars == <<requestVars, memoryVars, studioVars, optimizerVars, productVars, moderationVars>>

Init == RequestsInit /\ MemoryInit /\ StudioInit /\ OptimizerInit /\ ProductInit /\ ModerationInit

\* What goes on at a component nobody works at is of no interest.
Staffed(component) == \E r \in Requests : desk[r] = component

Next ==
  \/ MemoryStep /\ UNCHANGED <<studioVars, optimizerVars, productVars, moderationVars>>
  \/ StudioStep /\ UNCHANGED <<optimizerVars, productVars, moderationVars>>
  \/ Staffed("optimizer") /\ OptimizerStep /\ UNCHANGED <<memoryVars, studioVars, productVars, moderationVars>>
  \/ Staffed("product") /\ ProductStep /\ UNCHANGED <<memoryVars, studioVars, optimizerVars, moderationVars>>
  \/ Staffed("review") /\ ModerationStep /\ UNCHANGED <<memoryVars, studioVars, optimizerVars, productVars>>

Spec == Init /\ [][Next]_vars
================================================================================
