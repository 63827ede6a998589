--------------------------- MODULE MCWorkbenches ---------------------------
(***************************************************************************)
(* One small instance for the workbenches that share nothing: a behaviour  *)
(* is of the vector graphics workbench, of the theme workbench, of the     *)
(* design exchange or of the brand workbench, and the others keep their    *)
(* initial state.                                                          *)
(***************************************************************************)
EXTENDS Naturals, Sequences

CONSTANTS None,
          Kinds, MaxActions, MaxRefreshes, MaxOps, AnswersUnread,  \* VectorGraphicsLab
          Files, Acts, MaxActs, MaxAll, MaxCalls,                  \* ThemeLab
          MaxEdits,                                                \* both
          Packets, MaxExchanges, MaxSwitches,                      \* DesignExchange
          MaxChanges, MaxVisits                                    \* BrandWorkbench

VARIABLES bench,                                                  \* which of them
          session, queues, ui, act, compiles, urls, made, lost,   \* VectorGraphicsLab
          page, sync, host, disk, calls, did,                     \* ThemeLab
          props, digest, handled, desk, epoch, alive, jobs, busy, started,  \* DesignExchange
          app, work, seen, reads, applies, picture, draws, live, count  \* BrandWorkbench

vectorVars == <<session, queues, ui, act, compiles, urls, made, lost>>
themeVars == <<page, sync, host, disk, calls, did>>
exchangeVars == <<props, digest, handled, desk, epoch, alive, jobs, busy, started>>
brandVars == <<app, work, seen, reads, applies, picture, draws, live, count>>

Vector == INSTANCE VectorGraphicsLab
Theme == INSTANCE ThemeLab
Exchange == INSTANCE DesignExchange
Brand == INSTANCE BrandWorkbench

Init == /\ bench \in {"vector", "theme", "exchange", "brand"}
        /\ Vector!Init /\ Theme!Init /\ Exchange!Init /\ Brand!Init
        /\ bench # "vector" => session.src = 0 /\ ~session.compiled  \* one of its initial states

\* An action of one workbench.
InVector(A) == bench = "vector" /\ A /\ UNCHANGED <<bench, themeVars, exchangeVars, brandVars>>
InTheme(A) == bench = "theme" /\ A /\ UNCHANGED <<bench, vectorVars, exchangeVars, brandVars>>
InExchange(A) == bench = "exchange" /\ A /\ UNCHANGED <<bench, vectorVars, themeVars, brandVars>>
InBrand(A) == bench = "brand" /\ A /\ UNCHANGED <<bench, vectorVars, themeVars, exchangeVars>>

Next == InVector(Vector!Next) \/ InTheme(Theme!Next) \/ InExchange(Exchange!Next)
        \/ InBrand(Brand!Next)

vars == <<bench, vectorVars, themeVars, exchangeVars, brandVars>>

\* But for the exchange: requests are served and answers are taken, in any order.
Spec == /\ Init /\ [][Next]_vars
        /\ WF_vars(\/ InVector(Vector!Serve \/ Vector!Continue)
                   \/ InTheme(Theme!Serve \/ Theme!Continue)
                   \/ InBrand(Brand!Continue))

-----------------------------------------------------------------------------
\* Edits leave the vector workbench one by one, in step with the session, and before the
\* action that follows them, whose request leaves after they were settled (edit-queue.ts).
EditsInStep == Vector!QueueInStep /\ Vector!SerialEditsAccepted /\ Vector!ActionsSeeEdits

\* The preview's URL is live, and nothing else is kept alive for it (blob-preview.ts).  The
\* pictures of candidates are live, nothing of an earlier identity is called matched but by
\* an import still under way when it ended, and the plan form has the proposal the exchange
\* says it has (DesignExchange.tsx, design-session-state.ts).  What the brand workbench shows
\* is of the identity of now, and it leaks no URL (BrandWorkbench.tsx).
ShownIsLive ==
  /\ Vector!ShownUrlIsLive
  /\ Brand!ViewIsCurrent /\ Brand!VisualIsCurrent /\ Brand!NoUrlLeaks
  /\ Exchange!KeptUrlsAreLive /\ Exchange!TrustIsSwept /\ Exchange!FormFollowsPage

\* A late preview does not replace a newer one (blob-preview.ts).
PreviewNeverGoesBack == Vector!PreviewNeverGoesBack

\* Edits and actions of the vector workbench end once the user stops (flush and pump of
\* edit-queue.ts), and the last theme draft is compiled, or an error says why not (the
\* debounced compile of ThemeLab.tsx).  A view of the brand workbench does not load for
\* ever, but for two ways to give up its read (selectQaProfile and reconcileAfterApply of
\* BrandWorkbench.tsx).
EverythingSettles == <>[](Vector!Settled /\ Brand!Settled) /\ Theme!DraftIsTried

\* The host of the theme workbench never runs ahead of the page, and the coalescing loop
\* does not drop the last edit (invalidateNativeDraft of ThemeLab.tsx).
HostInStep == Theme!PageAheadOfHost /\ Theme!HostLearnsEdits

\* Nothing but the user replaces the user's theme draft.
EditsAreNotOverwritten == Theme!EditsAreNotOverwritten
=============================================================================
