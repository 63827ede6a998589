--------------------------- MODULE MCPlanCoordinator ---------------------------
(***************************************************************************)
(* Small instances for brand plans on both sides of the command boundary.  *)
(* The coordinator of the host: two tokens, one project and one source,    *)
(* and a session together with the four that differ from it in one respect *)
(* each.  Or the plan page; the part that does not run keeps its initial   *)
(* state.                                                                  *)
(***************************************************************************)
EXTENDS PlanCoordinator, PlanPage

CONSTANTS p, s

VARIABLE part  \* which of them

Session == [generation |-> 1, project |-> p, sources |-> {s}, raster |-> TRUE]

MCContexts ==
  {Session,
   [Session EXCEPT !.generation = 2],
   [Session EXCEPT !.project = NoProject],
   [Session EXCEPT !.sources = {}],
   [Session EXCEPT !.raster = FALSE]}

Init == part \in {"coordinator", "page"} /\ PlanInit /\ PageInit

InCoordinator(A) == part = "coordinator" /\ A /\ UNCHANGED <<part, pageVars>>
InPage(A) == part = "page" /\ A /\ UNCHANGED <<part, planVars>>

Next == InCoordinator(PlanNext) \/ InPage(PageNext)

vars == <<part, planVars, pageVars>>

\* The fairness of PlanSpec and of PlanPage.
Spec == /\ Init /\ [][Next]_vars
        /\ WF_vars(InCoordinator(ExpiryTurn)) /\ WF_vars(InCoordinator(Tick))
        /\ WF_vars(InPage(Serve \/ Continue))

-----------------------------------------------------------------------------
\* The plan page does not stay busy, however its operation was refused, cancelled or
\* abandoned (operate of PlanWorkspace.tsx).
PageSettles == <>[]NotBusy
=============================================================================
