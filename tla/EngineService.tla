--------------------------- MODULE EngineService ---------------------------
(***************************************************************************)
(* What the view model relies on of the local AI engine: a coroutine that  *)
(* asks is answered once, in any order with the others, until the owner    *)
(* closes the engine and with it abandons every request.                   *)
(***************************************************************************)
CONSTANT
  Jobs           \* the requests that can be under way at once

VARIABLES
  asked,         \* the requests that wait for their answer
  open           \* the owner has not closed the engine

svcVars == <<asked, open>>

SvcInit == asked = {} /\ open = TRUE

Ask(j)    == open /\ j \notin asked /\ asked' = asked \cup {j} /\ UNCHANGED open
Answer(j) == open /\ j \in asked /\ asked' = asked \ {j} /\ UNCHANGED open
Close     == open /\ open' = FALSE /\ asked' = {}

SvcNext == Close \/ \E j \in Jobs : Ask(j) \/ Answer(j)

SvcSpec     == SvcInit /\ [][SvcNext]_svcVars
SvcFairSpec == SvcSpec /\ \A j \in Jobs : WF_svcVars(Answer(j))
============================================================================
