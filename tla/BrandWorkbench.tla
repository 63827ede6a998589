--------------------------- MODULE BrandWorkbench --------------------------
(***************************************************************************)
(* The brand workbench of the page: BrandWorkbench.tsx with its reducer    *)
(* (workbench-state.ts) and its object URLs (blob-manager.ts).  Reads are  *)
(* answered in any order while the host, the project and the sources of    *)
(* App.tsx change, the user moves between views, and applied plans ask for *)
(* the view to be read again.                                              *)
(*                                                                         *)
(* Of the eight views there are two, both paged: "qa", whose data grows by *)
(* the profile selected, and "consumer", which is read for the sources     *)
(* picked.  What was read is the identity and the page it was read for.    *)
(***************************************************************************)
EXTENDS Naturals, FiniteSets

CONSTANTS None,
          MaxChanges,  \* bound on the changes of host, project and source
          MaxVisits    \* bound on the user's steps, selections apart

VARIABLES app,      \* the props: is the host ready, which project, which source
          work,     \* WorkbenchState, and the consumer sources picked
          seen,     \* the identities whose effects have run
          reads,    \* reads of views and of QA profiles under way
          applies,  \* plans being applied, and the calls of reconcileAfterApply under way
          picture,  \* visual and visualLoading
          draws,    \* calls of renderVisual under way
          live,     \* the object URLs not revoked
          count     \* loadSeq and visualSeq; steps so far; has a read been given up

vars == <<app, work, seen, reads, applies, picture, draws, live, count>>

Views == {"qa", "consumer"}
LastPage == 2
Artifacts == 2

\* The refs follow every render: loadIdentityRef and visualIdentityRef.
LoadIdentity ==
  [ready |-> app.ready, project |-> app.project, source |-> app.source,
   picked |-> work.picked, view |-> work.active]
VisualIdentity ==
  [load |-> LoadIdentity, page |-> work.views[work.active].page, selection |-> work.selection]

Current == work.views[work.active]
Absent == [loading |-> FALSE, data |-> None, page |-> 0]
NoPicture == [shown |-> None, loading |-> FALSE]

Init == /\ app = [ready |-> FALSE, project |-> None, source |-> None]
        /\ work = [active |-> "qa", views |-> [v \in Views |-> Absent], selection |-> None,
                   picked |-> 0]
        /\ seen = [load |-> LoadIdentity, visual |-> VisualIdentity]
        /\ reads = {} /\ applies = {} /\ picture = NoPicture /\ draws = {} /\ live = {}
        /\ count = [load |-> 0, visual |-> 0, changes |-> 0, visits |-> 0, given |-> FALSE]

-----------------------------------------------------------------------------
(* The reducer.                                                            *)

Loading(w, v) ==
  [w EXCEPT !.views[v].loading = TRUE, !.views[v].page = IF @ = 0 THEN 1 ELSE @]
Loaded(w, v, data, page) ==
  [w EXCEPT !.views[v] = [loading |-> FALSE, data |-> data, page |-> page], !.selection = None]
\* An operator named Wrong... has a bug in it; only the test of a property uses it.
WrongRefused(w, v) == [w EXCEPT !.views[v].data = None, !.views[v].page = 1, !.selection = None]
Refused(w, v) == Loaded(w, v, None, 1)
Cleared(w) == [w EXCEPT !.views = [v \in Views |-> Absent], !.selection = None]

-----------------------------------------------------------------------------
(* Reads.                                                                  *)

Read(seq, kind, identity, page, base) ==
  [seq |-> seq, kind |-> kind, identity |-> identity, page |-> page, base |-> base]

\* runLoad, called by a render with this identity and with the state w and reads pending.
RunLoad(identity, page, w, pending) ==
  IF identity.project = None \/ ~identity.ready
  THEN work' = w /\ reads' = pending /\ UNCHANGED count
  ELSE /\ work' = Loading(w, identity.view)
       /\ reads' = pending \cup {Read(count.load + 1, "view", identity, page, None)}
       /\ count' = [count EXCEPT !.load = @ + 1, !.given = @ \/ identity # LoadIdentity]

IsCurrent(read) == read.seq = count.load /\ read.identity = LoadIdentity

\* The plan workspace is drawn beside data; removed, it no longer notices a new identity.
Unmount(w) ==
  IF w.views[w.active].data # None THEN applies
  ELSE {[plan EXCEPT !.mounted = FALSE] : plan \in applies}

\* A read ends: it is dropped, or shown, or refused; a page that is gone is read from the
\* start again; a QA profile that cannot be read is announced and no more.
Answered ==
  \E read \in reads :
    LET rest == reads \ {read}
        v == read.identity.view
    IN /\ \/ /\ ~IsCurrent(read)
             /\ reads' = rest /\ UNCHANGED <<work, count>>
          \/ /\ IsCurrent(read) /\ read.kind = "view"
             /\ \/ /\ work' = Loaded(work, v, [of |-> read.identity, profile |-> None], read.page)
                   /\ reads' = rest /\ UNCHANGED count
                \/ work' = Refused(work, v) /\ reads' = rest /\ UNCHANGED count
                \/ read.page > 1 /\ RunLoad(read.identity, 1, work, rest)
          \/ /\ IsCurrent(read) /\ read.kind = "profile"
             /\ reads' = rest
             /\ \/ /\ work' = Loaded(work, v, [read.base EXCEPT !.profile = read.identity], read.page)
                   /\ UNCHANGED count
                \/ count' = [count EXCEPT !.given = TRUE] /\ UNCHANGED work
       /\ applies' = Unmount(work')
       /\ UNCHANGED <<app, seen, picture, draws, live>>

-----------------------------------------------------------------------------
(* Effects and props.                                                      *)

\* The identity of PlanWorkspace: a plan applied for another one is not reconciled.
PlanIdentity(identity) == [identity EXCEPT !.view = None]
Abandoned(plan) ==
  plan.stage = "applying" /\ plan.mounted /\ PlanIdentity(plan.identity) # PlanIdentity(LoadIdentity)

Due == seen # [load |-> LoadIdentity, visual |-> VisualIdentity]

\* The effects of the last render, in their order.
Effects ==
  /\ Due
  /\ LET gone == \/ seen.load.ready /\ ~app.ready
                 \/ seen.load.project # app.project
                 \/ seen.load.source # app.source
         cleared == IF gone THEN Cleared(work) ELSE work
         kept == IF app.source = None THEN [cleared EXCEPT !.picked = 0] ELSE cleared
         drawn == seen.visual # VisualIdentity
         loads == seen.load # LoadIdentity /\ app.ready /\ app.project # None
     IN /\ work' = IF loads THEN Loading(kept, work.active) ELSE kept
        /\ reads' = IF loads
                    THEN reads \cup {Read(count.load + 1, "view", LoadIdentity, 1, None)}
                    ELSE reads
        /\ count' = [count EXCEPT !.load = IF loads THEN @ + 1 ELSE @,
                                  !.visual = IF drawn THEN @ + 1 ELSE @]
        /\ picture' = IF drawn THEN NoPicture ELSE picture
        /\ live' = IF drawn THEN {} ELSE live
  /\ applies' = {plan \in applies : ~Abandoned(plan)}
  /\ seen' = [load |-> LoadIdentity, visual |-> VisualIdentity]
  /\ UNCHANGED <<app, draws>>

\* App.tsx: the status is polled, the host stopped, a project or a source opened.
Change ==
  /\ ~Due /\ count.changes < MaxChanges
  /\ count' = [count EXCEPT !.changes = @ + 1]
  /\ \/ app' = [app EXCEPT !.ready = ~@]
     \/ app' = [app EXCEPT !.project = None, !.source = None]
     \/ app.ready /\ app' = [app EXCEPT !.project = count.changes + 1, !.source = None]
     \/ app.ready /\ app' = [app EXCEPT !.source = count.changes + 1]
  /\ UNCHANGED <<work, seen, reads, applies, picture, draws, live>>

-----------------------------------------------------------------------------
(* The user.                                                               *)

Visiting(loads, renders) ==
  /\ ~Due /\ count.visits < MaxVisits
  /\ count' = [count EXCEPT !.visits = @ + 1, !.load = @ + loads, !.visual = @ + renders]

Visit(v) ==
  /\ Visiting(0, 0)
  /\ work' = [work EXCEPT !.active = v, !.selection = None]
  /\ applies' = Unmount(work')
  /\ UNCHANGED <<app, seen, reads, picture, draws, live>>

\* A case of the QA profile shown; the consumer view has nothing to select.
Select ==
  /\ ~Due /\ work.selection = None
  /\ work.active = "qa" /\ Current.data # None /\ Current.data.profile # None
  /\ work' = [work EXCEPT !.selection = "evidence"]
  /\ UNCHANGED <<app, seen, reads, applies, picture, draws, live, count>>

\* onSourceSelection, in the form of a consumer plan.
Pick ==
  /\ Visiting(0, 0)
  /\ work.active = "consumer" /\ Current.data # None /\ app.source # None
  /\ work' = [work EXCEPT !.picked = count.visits + 1]
  /\ UNCHANGED <<app, seen, reads, applies, picture, draws, live>>

\* Refresh, and the previous and the next page.
Turn ==
  /\ Visiting(1, 0)
  /\ app.project # None /\ app.ready /\ ~Current.loading
  /\ \E page \in 1..LastPage :
       /\ \/ page \in {Current.page - 1, Current.page}
          \/ Current.page = 0 /\ page = 1
          \/ Current.data # None /\ page = Current.page + 1
       /\ reads' = reads \cup {Read(count.load + 1, "view", LoadIdentity, page, None)}
  /\ work' = Loading(work, work.active)
  /\ UNCHANGED <<app, seen, applies, picture, draws, live>>

\* selectQaProfile: a profile is read; without one, the profile shown is put away.
SelectProfile ==
  /\ work.active = "qa" /\ Current.data # None
  /\ \/ /\ Visiting(1, 0) /\ app.project # None
        /\ work' = Loading(work, "qa")
        /\ reads' = reads \cup {Read(count.load + 1, "profile", LoadIdentity, Current.page,
                                     Current.data)}
     \/ /\ Visiting(0, 0)
        /\ work' = Loaded(work, "qa", [Current.data EXCEPT !.profile = None], Current.page)
        /\ UNCHANGED reads
  /\ UNCHANGED <<app, seen, applies, picture, draws, live>>

\* renderVisual, up to its first answer.
RenderVisual ==
  /\ Visiting(0, 1)
  /\ work.selection # None /\ app.project # None /\ ~picture.loading
  /\ picture' = [picture EXCEPT !.loading = TRUE]
  /\ draws' = draws \cup {[seq |-> count.visual + 1, identity |-> VisualIdentity,
                           stage |-> "asked", urls |-> {}]}
  /\ UNCHANGED <<app, work, seen, reads, applies, live>>

\* A plan of this view is applied; one operation at a time.
Apply ==
  /\ Visiting(0, 0)
  /\ app.project # None /\ Current.data # None
  /\ \A plan \in applies : plan.stage # "applying"
  /\ applies' = applies \cup {[identity |-> LoadIdentity, page |-> Current.page,
                               stage |-> "applying", mounted |-> TRUE]}
  /\ UNCHANGED <<app, work, seen, reads, picture, draws, live>>

-----------------------------------------------------------------------------
(* The answers to an apply, to reconcileAfterApply and to renderVisual.    *)

\* Applied: what was selected and drawn is given up, and the project is asked for.
Reconcile ==
  \E plan \in applies :
    /\ plan.stage = "applying"
    /\ \/ /\ applies' = (applies \ {plan}) \cup {[plan EXCEPT !.stage = "checking"]}
          /\ work' = [work EXCEPT !.selection = None]
          /\ picture' = NoPicture /\ live' = {}
          /\ count' = [count EXCEPT !.visual = @ + 1]
       \/ applies' = applies \ {plan} /\ UNCHANGED <<work, picture, live, count>>
    /\ UNCHANGED <<app, seen, reads, draws>>

\* The view is read again for the render that applied the plan, whatever changed since.
Reconciled ==
  \E plan \in applies :
    /\ plan.stage = "checking"
    /\ applies' = applies \ {plan}
    /\ \/ RunLoad(plan.identity, plan.page, work, reads)
       \/ UNCHANGED <<work, reads, count>>
    /\ UNCHANGED <<app, seen, picture, draws, live>>

IsCurrentDraw(draw) == draw.seq = count.visual /\ draw.identity = VisualIdentity

\* The finally block.
Ended(draw) == IF IsCurrentDraw(draw) THEN [picture EXCEPT !.loading = FALSE] ELSE picture

\* The evidence arrives; what was shown is revoked before the new URLs are made.
Drawn ==
  \E draw \in draws :
    /\ draw.stage = "asked"
    /\ \/ /\ IsCurrentDraw(draw)
          /\ draws' = (draws \ {draw}) \cup {[draw EXCEPT !.stage = "making"]}
          /\ live' = {} /\ UNCHANGED picture
       \/ draws' = draws \ {draw} /\ picture' = Ended(draw) /\ UNCHANGED live
    /\ UNCHANGED <<app, work, seen, reads, applies, count>>

\* One URL more; after the last the visual is shown, or its URLs are revoked if it is late.
Made ==
  \E draw \in draws :
    LET urls == draw.urls \cup {<<draw.seq, Cardinality(draw.urls) + 1>>}
        others == draws \ {draw}
    IN /\ draw.stage = "making"
       /\ \/ /\ Cardinality(urls) < Artifacts
             /\ draws' = others \cup {[draw EXCEPT !.urls = urls]}
             /\ live' = live \cup (urls \ draw.urls)
             /\ UNCHANGED picture
          \/ /\ Cardinality(urls) = Artifacts /\ draws' = others
             /\ IF IsCurrentDraw(draw)
                THEN /\ picture' = [shown |-> [identity |-> draw.identity, urls |-> urls],
                                   loading |-> FALSE]
                     /\ live' = live \cup (urls \ draw.urls)
                ELSE live' = live \ urls /\ UNCHANGED picture
          \/ draws' = others /\ live' = {} /\ picture' = Ended(draw)
       /\ UNCHANGED <<app, work, seen, reads, applies, count>>

-----------------------------------------------------------------------------
User == \/ \E v \in Views : Visit(v)
        \/ Select \/ Pick \/ Turn \/ SelectProfile \/ RenderVisual \/ Apply
Continue == Effects \/ Answered \/ Reconcile \/ Reconciled \/ Drawn \/ Made

Next == User \/ Change \/ Continue

\* Effects run, and every read is answered or fails.
Spec == Init /\ [][Next]_vars /\ WF_vars(Continue)

-----------------------------------------------------------------------------
\* What a view says of the identity it is drawn for.
Relevant(identity) ==
  IF identity.view = "consumer" THEN identity ELSE [identity EXCEPT !.picked = 0]

\* Once the effects have run, a view that is not being read shows data of the project and
\* the sources of now, and a QA profile of the same, whatever was answered late
\* (runLoad and selectQaProfile of BrandWorkbench.tsx).
ViewIsCurrent ==
  ~Due /\ ~Current.loading /\ Current.data # None =>
    \A read \in {Current.data.of, Current.data.profile} \ {None} :
      Relevant(read) = Relevant(LoadIdentity)

\* A visual on the page is of the selection, page and project of now (renderVisual).
VisualIsCurrent ==
  ~Due /\ picture.shown # None => picture.shown.identity = VisualIdentity

\* Every URL alive is shown, or a render that may still show or revoke it has it.
NoUrlLeaks ==
  live \subseteq (IF picture.shown = None THEN {} ELSE picture.shown.urls)
                 \cup UNION {draw.urls : draw \in draws}

\* The view stops loading, unless a QA profile could not be read, or a plan was reconciled
\* for an identity that is gone: either gives up the read that would end the loading.
Settled == ~Due /\ (Current.loading \/ picture.loading => count.given)
=============================================================================
