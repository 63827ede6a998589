------------------------------ MODULE PlanPage -----------------------------
(***************************************************************************)
(* The plan workflow of the page: PlanWorkspace.tsx with its reducer       *)
(* (plan-state.ts), the host bridge that admits one plan operation at a    *)
(* time (studio-host-bridge.ts), and of the host what a page can tell:     *)
(* one operation, one retained plan, the events and the answer, which      *)
(* travel apart (host.rs, plan_coordinator.rs; PlanHost has their detail). *)
(*                                                                         *)
(* A plan is named by the operation that made it.  Progress is a position  *)
(* in the stages of its lane; the totals and the wording are left out.     *)
(***************************************************************************)
EXTENDS Naturals, Sequences

CONSTANTS None,
          MaxStarts,   \* bound on the operations started
          MaxLeaves,   \* bound on the identities after the first
          MaxPosition  \* bound on the progress of one operation

VARIABLES view,   \* PlanWorkspaceState
          run,    \* the refs of PlanWorkspace, its identity, and the operations so far
          call,   \* the operation that holds #planChannel
          after,  \* the answers whose onReconcile is awaited
          ask,    \* the cancellation the user asked for
          quiet,  \* the cancellations of operations that were abandoned
          kept    \* the retained plan of the host, and those it gave out for use

pageVars == <<view, run, call, after, ask, quiet, kept>>

Busy == {"planning", "applying", "discarding", "cancellation-requested"}
InitialPlanState ==
  [state |-> "idle", plan |-> None, handle |-> None, last |-> 0, at |-> None,
   checked |-> FALSE, refused |-> None]

PageInit == /\ view = InitialPlanState
        /\ run = [generation |-> 1, inFlight |-> FALSE, identity |-> 0, started |-> 0]
        /\ call = None /\ after = {} /\ ask = None /\ quiet = {}
        /\ kept = [plan |-> None, used |-> {}, mismatch |-> {}]

-----------------------------------------------------------------------------
(* The reducer.                                                            *)

\* Operators named Wrong... have a bug in them; only the tests of the properties use them.
WrongUnderway(lane) ==
  [view EXCEPT !.state = lane, !.handle = None, !.at = None, !.checked = FALSE, !.refused = None]
Underway(lane) ==
  [view EXCEPT !.state = lane, !.handle = None, !.last = 0, !.at = None, !.checked = FALSE,
               !.refused = None]

\* An event without progress forgets the progress shown, and with it the lane.
LaneOf(v) ==
  IF \/ v.state = "applying"
     \/ v.state = "cancellation-requested" /\ v.at # None /\ v.at.lane = "applying"
  THEN "applying" ELSE "planning"

Acceptable(event) ==
  /\ event.sequence > view.last
  /\ view.handle \in {None, event.op}
  /\ event.at # None =>
       /\ event.at.lane = LaneOf(view)
       /\ view.at # None => event.at.position > view.at.position

Shown(event) ==
  IF Acceptable(event)
  THEN [view EXCEPT !.state = IF event.cancelling THEN "cancellation-requested" ELSE @,
                    !.handle = event.op, !.last = event.sequence, !.at = event.at]
  ELSE [view EXCEPT !.state = "failed", !.checked = FALSE,
                    !.refused = [event |-> event, state |-> view.state]]

Reviewed(plan) == [view EXCEPT !.state = "ready", !.plan = plan, !.checked = FALSE]
Ended(state) ==
  [view EXCEPT !.state = state, !.plan = None, !.checked = FALSE, !.handle = None]
WrongPreserved ==
  IF view.plan = None THEN view ELSE [view EXCEPT !.state = "ready", !.checked = FALSE]
Preserved ==
  IF view.plan = None THEN [view EXCEPT !.state = "failed", !.checked = FALSE]
  ELSE [view EXCEPT !.state = "ready", !.checked = FALSE, !.handle = None, !.at = None]

\* publicPlanFailure and the catch block.
Failed(reason) == IF reason = "preserve" THEN Preserved ELSE Ended(reason)

-----------------------------------------------------------------------------
(* The page.                                                               *)

Called(op, kind, plan, generation) ==
  [op |-> op, kind |-> kind, plan |-> plan, generation |-> generation,
   identity |-> run.identity, stage |-> "sent", sequence |-> 0, position |-> 0,
   cancel |-> FALSE, told |-> FALSE, wire |-> <<>>, answer |-> None]

MayOperate(kind) ==
  CASE kind = "planning"   -> view.state \notin Busy \cup {"ready"}
    [] kind = "applying"   -> view.state = "ready" /\ view.checked
    [] kind = "discarding" -> view.state = "ready"

\* operate; the bridge throws at once while the channel is taken.
Operate(kind) ==
  /\ MayOperate(kind) /\ ~run.inFlight /\ run.started < MaxStarts
  /\ run' = [run EXCEPT !.generation = @ + 1, !.started = @ + 1, !.inFlight = call = None]
  /\ IF call = None
     THEN /\ view' = Underway(kind)
          /\ call' = Called(run.started + 1, kind, view.plan, run.generation + 1)
     ELSE view' = [Underway(kind) EXCEPT !.state = "failed", !.plan = None] /\ UNCHANGED call
  /\ UNCHANGED <<after, ask, quiet, kept>>

Acknowledge ==
  /\ view.state = "ready"
  /\ view' = [view EXCEPT !.checked = ~@]
  /\ UNCHANGED <<run, call, after, ask, quiet, kept>>

\* The timer of a plan under review.
Expire ==
  /\ view.state = "ready"
  /\ view' = [view EXCEPT !.state = "expired", !.plan = None, !.checked = FALSE]
  /\ UNCHANGED <<run, call, after, ask, quiet, kept>>

AskCancel ==
  /\ ask = None /\ view.handle # None
  /\ view.state \in Busy \ {"cancellation-requested"}
  /\ ask' = [op |-> view.handle, answer |-> None]
  /\ UNCHANGED <<view, run, call, after, quiet, kept>>

\* The identity changes, or the page is closed and opened again: abandon, then reset.
Leave ==
  /\ run.identity < MaxLeaves
  /\ LET cancels == view.state \in Busy /\ view.handle # None
         discards == ~cancels /\ view.plan # None /\ call = None
     IN /\ quiet' = IF cancels THEN quiet \cup {view.handle} ELSE quiet
        /\ call' = IF discards THEN Called(run.started + 1, "discarding", view.plan, 0) ELSE call
        /\ run' = [run EXCEPT !.generation = @ + 1, !.identity = @ + 1, !.inFlight = FALSE,
                              !.started = IF discards THEN @ + 1 ELSE @]
  /\ view' = InitialPlanState
  /\ ask' \in {ask, None}
  /\ UNCHANGED <<after, kept>>

\* Events reach the page in order and of the current generation only.
Deliver ==
  /\ call # None /\ call.wire # <<>>
  /\ view' = IF call.generation = run.generation THEN Shown(Head(call.wire)) ELSE view
  /\ call' = [call EXCEPT !.wire = Tail(@)]
  /\ UNCHANGED <<run, after, ask, quiet, kept>>

\* The answer frees the channel; the events still under way are dropped.
Answered ==
  /\ call # None /\ call.stage = "answered"
  /\ call' = None
  /\ LET mine == call.generation = run.generation
         reconciles == mine /\ call.answer \in {"applied", "indeterminate"}
     IN /\ view' = IF ~mine \/ reconciles THEN view
                   ELSE IF call.answer = "ready"
                        THEN Reviewed([op |-> call.op, identity |-> call.identity])
                   ELSE IF call.answer = "discarded" THEN Ended("discarded")
                   ELSE Failed(call.answer)
        /\ run' = [run EXCEPT !.inFlight = @ /\ (reconciles \/ ~mine)]
        /\ after' = IF reconciles
                    THEN after \cup {[generation |-> call.generation, answer |-> call.answer]}
                    ELSE after
  /\ UNCHANGED <<ask, quiet, kept>>

Reconciled ==
  \E done \in after :
    /\ after' = after \ {done}
    /\ IF done.generation = run.generation
       THEN view' = Ended(done.answer) /\ run' = [run EXCEPT !.inFlight = FALSE]
       ELSE UNCHANGED <<view, run>>
    /\ UNCHANGED <<call, ask, quiet, kept>>

\* The continuation of cancel compares no generation.
Asked ==
  /\ ask # None /\ ask.answer # None
  /\ view' = IF ask.answer = "accepted" THEN view ELSE Ended("failed")
  /\ ask' = None
  /\ UNCHANGED <<run, call, after, quiet, kept>>

-----------------------------------------------------------------------------
(* The host.                                                               *)

Emitted(at, cancelling) ==
  [call EXCEPT !.sequence = @ + 1,
     !.wire = Append(@, [op |-> call.op, sequence |-> call.sequence + 1, at |-> at,
                         cancelling |-> cancelling])]

Active == call # None /\ call.stage \in {"runs", "retained"}

\* begin: refused, or admitted with the plan it uses taken out.
HostBegins ==
  /\ call # None /\ call.stage = "sent"
  /\ \/ /\ \/ call.kind = "planning" /\ kept.plan = None /\ UNCHANGED kept
           \/ /\ call.kind # "planning" /\ kept.plan = call.plan
              /\ kept' = [kept EXCEPT !.plan = None, !.used = @ \cup {call.plan.op}]
        /\ call' = [Emitted(None, FALSE) EXCEPT !.stage = "runs"]
     \/ /\ call' = [call EXCEPT !.stage = "answered", !.answer = "failed"]
        /\ UNCHANGED kept
     \/ /\ call.kind # "planning"
        /\ call' = [call EXCEPT !.stage = "answered", !.answer = "stale"]
        /\ kept' = [kept EXCEPT !.plan = None]
  /\ UNCHANGED <<view, run, after, ask, quiet>>

HostProgresses ==
  /\ Active /\ call.stage = "runs" /\ call.position < MaxPosition
  /\ LET lane == IF call.kind = "applying" THEN "applying" ELSE "planning"
     IN call' = [Emitted([lane |-> lane, position |-> call.position + 1], FALSE)
                   EXCEPT !.position = @ + 1]
  /\ UNCHANGED <<view, run, after, ask, quiet, kept>>

\* The request loop sees the flag, forwards the cancellation and says so once.
HostTellsCancel ==
  /\ Active /\ call.stage = "runs" /\ call.cancel /\ ~call.told
  /\ call' = [Emitted(None, TRUE) EXCEPT !.told = TRUE]
  /\ UNCHANGED <<view, run, after, ask, quiet, kept>>

Outcomes == [planning   |-> {"ready"}, applying |-> {"applied", "indeterminate"},
             discarding |-> {"discarded"}]

\* The sidecar answers, refuses or fails; retain_created refuses a cancelled operation.
HostEnds ==
  /\ Active /\ call.stage = "runs"
  /\ \E answer \in Outcomes[call.kind] \cup {"failed", "stale", "cancelled", "preserve"} :
       /\ answer = "ready" => ~call.cancel
       /\ call' = [call EXCEPT !.stage = "retained", !.answer = answer]
       /\ kept' =
            IF answer = "ready"
            THEN [kept EXCEPT !.plan = [op |-> call.op, identity |-> call.identity]]
            ELSE IF answer = "preserve" /\ call.kind # "planning"
            THEN [kept EXCEPT !.mismatch = @ \cup {call.plan.op}] ELSE kept
  /\ UNCHANGED <<view, run, after, ask, quiet>>

HostFinishes ==
  /\ Active /\ call.stage = "retained"
  /\ call' = [call EXCEPT !.stage = "answered"]
  /\ UNCHANGED <<view, run, after, ask, quiet, kept>>

\* PlanCoordinator::cancel, for the user and for an abandoned operation.
HostCancels ==
  \/ /\ ask # None /\ ask.answer = None
     /\ ask' = [ask EXCEPT !.answer = IF Active /\ call.op = ask.op /\ ~call.cancel
                                      THEN "accepted" ELSE "refused"]
     /\ call' = IF Active /\ call.op = ask.op THEN [call EXCEPT !.cancel = TRUE] ELSE call
     /\ UNCHANGED <<view, run, after, quiet, kept>>
  \/ \E op \in quiet :
       /\ quiet' = quiet \ {op}
       /\ call' = IF Active /\ call.op = op THEN [call EXCEPT !.cancel = TRUE] ELSE call
       /\ UNCHANGED <<view, run, after, ask, kept>>

\* The plan expires, or the session ends and every operation is cancelled.
HostDrops ==
  /\ \/ kept.plan # None /\ UNCHANGED call
     \/ Active /\ ~call.cancel /\ call' = [call EXCEPT !.cancel = TRUE]
  /\ kept' = [kept EXCEPT !.plan = None]
  /\ UNCHANGED <<view, run, after, ask, quiet>>

-----------------------------------------------------------------------------
User == (\E kind \in DOMAIN Outcomes : Operate(kind)) \/ Acknowledge \/ AskCancel \/ Leave

Serve == HostBegins \/ HostTellsCancel \/ HostEnds \/ HostFinishes \/ HostCancels
Continue == Answered \/ Reconciled \/ Asked

PageNext == User \/ Expire \/ Serve \/ Continue \/ Deliver \/ HostProgresses \/ HostDrops

\* The host ends what it began, and the page takes its answers.
PageSpec == PageInit /\ [][PageNext]_pageVars /\ WF_pageVars(Serve \/ Continue)

-----------------------------------------------------------------------------
\* A plan the page holds was made under the identity the page has now, however late the
\* answer came (uiGeneration and the reset of PlanWorkspace.tsx).
PlanOfThisIdentity == view.plan # None => view.plan.identity = run.identity

\* A plan is not offered for use once the host has given it out, unless the sidecar itself
\* answered that its digest did not match: the page then believes the plan was preserved.
ReviewedPlanIsUnused ==
  view.state = "ready" /\ view.plan.op \in kept.used => view.plan.op \in kept.mismatch

\* An event of the operation on screen is never called invalid, whatever came before it,
\* except for the progress of an apply that is being cancelled (plan-state.ts:33 looks for
\* it among the planning stages).
GoodEventsAreShown ==
  view.refused # None =>
    /\ view.refused.event.at # None
    /\ view.refused.event.at.lane = "applying"
    /\ view.refused.state # "applying"

PageInStep == PlanOfThisIdentity /\ ReviewedPlanIsUnused /\ GoodEventsAreShown

NotBusy == view.state \notin Busy
=============================================================================
