------------------------------- MODULE MCPlanHost -------------------------------
(* Small instance: two callers, two tokens, one project and one source, two  *)
(* sessions.  A captured context may be that of any session so far.          *)
EXTENDS PlanHost

MCContexts ==
  [generation : 0..MaxSession, project : Projects \cup {NoProject},
   sources : SUBSET Sources, raster : {TRUE}]
=============================================================================
