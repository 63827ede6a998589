------------------------- MODULE VectorGraphicsLab ------------------------
(***************************************************************************)
(* The vector graphics workbench (src/features/vector-graphics) and the    *)
(* scene session it talks to (src-tauri/src/scene/session.rs and           *)
(* state/scene.rs).  Edits leave through a queue that sends one at a time; *)
(* every other action waits for the queue to drain, then sends a request   *)
(* that names the draft it expects.  The session serves requests in any    *)
(* order, one at a time under its lock, but leaves the lock while the      *)
(* engine compiles or a file dialog is open.                               *)
(*                                                                         *)
(* The identity of a draft is its revision and its source file.  Session   *)
(* id, digest and token snapshot change only together with the revision.   *)
(***************************************************************************)
EXTENDS Naturals, Sequences, FiniteSets

CONSTANTS None,
          Kinds,          \* the actions of the toolbar and panels a run uses
          MaxEdits,       \* bound on the edits a user makes
          MaxActions,     \* bound on the other actions
          MaxRefreshes,   \* bound on compiles the user asks for
          MaxOps,         \* bound on all three together
          AnswersUnread   \* may the bridge refuse the answer to an edit that was made?

Replacing == {"new", "open", "import"}
Publishing == {"save", "export"}
Planning == {"savePlan", "exportPlan"}
Applying == {"saveApply", "exportApply"}
AllKinds == Replacing \cup Planning \cup Applying \cup {"bind", "verify", "adopt"}

\* The publication a plan or an apply is about.
About(kind) == IF kind \in {"savePlan", "saveApply"} THEN "save" ELSE "export"

VARIABLES session,   \* the scene session of the host
          queues,    \* every SerializedEditQueue made; the last is editQueueRef.current
          ui,        \* the state of the component
          act,       \* the action under way, or None
          compiles,  \* compile requests, by number
          urls,      \* [live, lastGood]: object URLs and the BlobPreviewManager
          made,      \* how many [edits, actions, refreshes, files] there have been
          lost       \* has the answer to an edit that was made been refused?

vars == <<session, queues, ui, act, compiles, urls, made, lost>>

-----------------------------------------------------------------------------
Identity(s) == <<s.rev, s.src>>
Cur == queues[Len(queues)]
Idle(q) == q.tasks = <<>> /\ q.flight = None

NoPlans == [p \in Publishing |-> None]

\* initSession: a session restored by its status, or one that New has just made, in
\* step with the page.  A draft without a file is dirty, one with a file was saved.
Init ==
  /\ \E saved, compiled \in BOOLEAN :
       session = [rev |-> 1, src |-> IF saved THEN 1 ELSE 0, dirty |-> ~saved, intent |-> None,
                  compiled |-> compiled, ok |-> TRUE, plans |-> NoPlans, ver |-> None]
  /\ queues = <<[tasks |-> <<>>, flight |-> None, exp |-> Identity(session)]>>
  /\ ui = [revision |-> 1, latest |-> 1, dirty |-> session.dirty, preview |-> 0, shown |-> 0,
           receipt |-> FALSE, compiling |-> FALSE, error |-> FALSE,
           pending |-> NoPlans, ver |-> None]
  /\ act = None
  /\ compiles = <<>>
  /\ urls = [live |-> {}, lastGood |-> 0]
  /\ made = [edits |-> 0, actions |-> 0, refreshes |-> 0, files |-> 1]
  /\ lost = FALSE

-----------------------------------------------------------------------------
(* The edit queue.                                                         *)

\* The bound on what a user does.
MayDo(what, bound) == /\ made[what] < bound
                      /\ made.edits + made.actions + made.refreshes < MaxOps

\* An action is on the wire: its request was sent and its answer not yet seen.
Outstanding == act # None /\ act.stage # "flush"

\* pump: the next task leaves when nothing is in flight.
WrongPump(q) ==
  IF q.tasks = <<>> THEN q
  ELSE [q EXCEPT !.tasks = Tail(@),
                 !.flight = [edit |-> Head(q.tasks), exp |-> q.exp, answer |-> None,
                             raced |-> Outstanding]]
Pump(q) ==
  IF q.flight # None \/ q.tasks = <<>> THEN q
  ELSE [q EXCEPT !.tasks = Tail(@),
                 !.flight = [edit |-> Head(q.tasks), exp |-> q.exp, answer |-> None,
                             raced |-> Outstanding]]

\* flush: an action that waits for the queue is woken once it has drained and
\* then reads the expected draft from it.
Flushed(q) == Idle(q)
Wake(qs) ==
  IF act # None /\ act.stage = "flush" /\ Flushed(qs[Len(qs)])
    THEN [act EXCEPT !.stage = "sent", !.exp = qs[Len(qs)].exp]
    ELSE act

\* applyEditOperations: plans and verification are dropped, then the edit is queued.
Edit ==
  /\ MayDo("edits", MaxEdits)
  /\ made' = [made EXCEPT !.edits = @ + 1]
  /\ ui' = [ui EXCEPT !.pending = NoPlans, !.ver = None]
  /\ queues' = [queues EXCEPT ![Len(queues)] =
                  Pump([Cur EXCEPT !.tasks = Append(@, made.edits + 1)])]
  /\ UNCHANGED <<session, act, compiles, urls, lost>>

Draft(s) == [rev |-> s.rev, src |-> s.src, dirty |-> s.dirty]
\* Answers without a draft.
Said(what) == [said |-> what]
Refused == Said("refused")
Unread == Said("unread")
Cancelled == Said("cancelled")

\* invalidate_evidence, with the step of the revision that every caller makes.
Advance(s) == [s EXCEPT !.rev = @ + 1, !.compiled = FALSE, !.plans = NoPlans, !.ver = None]

\* check_expected
CheckExpected(exp) == Identity(session) = exp

\* studio_scene_edit: made, refused by the scene, or refused as stale.
ServeEdit(i) ==
  /\ queues[i].flight # None /\ queues[i].flight.answer = None
  /\ \E outcome \in {"made", "unread", "refused"} :
       /\ outcome = "unread" => AnswersUnread
       /\ ~CheckExpected(queues[i].flight.exp) => outcome = "refused"
       /\ IF outcome = "refused"
            THEN UNCHANGED session
            ELSE \E ok \in BOOLEAN :
                   session' = [Advance(session) EXCEPT !.dirty = TRUE, !.ok = ok]
       /\ queues' = [queues EXCEPT ![i].flight.answer =
                       IF outcome = "made" THEN Draft(session') ELSE Said(outcome)]
       /\ lost' = (lost \/ outcome = "unread")
  /\ UNCHANGED <<ui, act, compiles, urls, made>>

\* The acknowledgement: rebind, the continuation of applyEditOperations, and
\* the next pump, which ends a flush when nothing is left.
AnswerEdit(i) ==
  /\ queues[i].flight # None /\ queues[i].flight.answer # None
  /\ LET answer == queues[i].flight.answer
         good == answer \notin {Unread, Refused}
         bound == IF good THEN [queues[i] EXCEPT !.exp = <<answer.rev, answer.src>>] ELSE queues[i]
     IN /\ queues' = [queues EXCEPT ![i] = Pump([bound EXCEPT !.flight = None])]
        /\ ui' = IF good
                   THEN [ui EXCEPT !.revision = answer.rev, !.latest = answer.rev,
                                   !.dirty = answer.dirty]
                   ELSE [ui EXCEPT !.error = TRUE]
  /\ act' = Wake(queues')
  /\ UNCHANGED <<session, compiles, urls, made, lost>>

-----------------------------------------------------------------------------
(* Compilation and the preview.                                            *)

CanSaveOrExport ==
  ~ui.error /\ ~ui.compiling /\ ui.preview = ui.revision /\ ui.receipt

\* triggerCompile up to its request.
Request == [exp |-> Cur.exp, stage |-> "sent", ok |-> FALSE]

Refresh ==
  /\ ~ui.compiling
  /\ MayDo("refreshes", MaxRefreshes)
  /\ made' = [made EXCEPT !.refreshes = @ + 1]
  /\ compiles' = Append(compiles, Request)
  /\ ui' = [ui EXCEPT !.compiling = TRUE, !.error = FALSE]
  /\ UNCHANGED <<session, queues, act, urls, lost>>

\* state/scene.rs compile: the scene is copied under the lock, compiled without
\* it, and the evidence stored only if the draft is still the expected one.
ServeCompile(c) ==
  /\ \/ /\ compiles[c].stage = "sent"
        /\ compiles' = [compiles EXCEPT ![c].stage =
                          IF CheckExpected(compiles[c].exp) THEN "running" ELSE "refused"]
        /\ UNCHANGED session
     \/ /\ compiles[c].stage = "running"
        /\ \/ /\ CheckExpected(compiles[c].exp)
              /\ session' = [session EXCEPT !.compiled = session.ok]
              /\ compiles' = [compiles EXCEPT ![c].stage = "answered", ![c].ok = session.ok]
           \/ /\ compiles' = [compiles EXCEPT ![c].stage = "refused"]
              /\ UNCHANGED session
  /\ UNCHANGED <<queues, ui, act, urls, made, lost>>

\* Is a compile still of the revision on the page?
WrongStillCurrent(c) == TRUE
StillCurrent(c) == ui.latest = compiles[c].exp[1]

\* A handler that awaits triggerCompile ends with it.
EndAwait(c) == IF act # None /\ act.stage = "compiling" /\ act.compile = c THEN None ELSE act

\* The answer: discarded when stale; else its SVG becomes a candidate URL.
AnswerCompile(c) ==
  /\ compiles[c].stage \in {"answered", "refused"}
  /\ LET current == StillCurrent(c)
         drawn == current /\ compiles[c].stage = "answered" /\ compiles[c].ok
     IN /\ compiles' = [compiles EXCEPT ![c].stage = IF drawn THEN "decoding" ELSE "done"]
        /\ urls' = IF drawn THEN [urls EXCEPT !.live = @ \cup {c}] ELSE urls
        /\ ui' = IF drawn THEN [ui EXCEPT !.receipt = TRUE]
                 ELSE [ui EXCEPT !.compiling = FALSE,
                                 !.error = @ \/ current,
                                 !.receipt = @ /\ ~(current /\ compiles[c].stage = "answered")]
        /\ act' = IF drawn THEN act ELSE EndAwait(c)
  /\ UNCHANGED <<session, queues, made, lost>>

\* updatePreview after the decode: the last good URL is revoked only for a
\* candidate that decoded and is still current.
ReplaceLastGood(c, accepted) ==
  IF accepted THEN [live |-> urls.live \ {urls.lastGood}, lastGood |-> c]
              ELSE [urls EXCEPT !.live = @ \ {c}]

Decode(c) ==
  /\ compiles[c].stage = "decoding"
  /\ \E decoded \in BOOLEAN :
       LET accepted == decoded /\ StillCurrent(c)
       IN /\ urls' = ReplaceLastGood(c, accepted)
          /\ ui' = IF accepted
                     THEN [ui EXCEPT !.preview = compiles[c].exp[1], !.shown = c,
                                     !.compiling = FALSE]
                     ELSE [ui EXCEPT !.compiling = FALSE,
                                     !.error = @ \/ (~decoded /\ StillCurrent(c))]
  /\ compiles' = [compiles EXCEPT ![c].stage = "done"]
  /\ act' = EndAwait(c)
  /\ UNCHANGED <<session, queues, made, lost>>

\* A render sets latestRevisionRef from the state.
Render ==
  /\ ui.latest # ui.revision
  /\ ui' = [ui EXCEPT !.latest = ui.revision]
  /\ UNCHANGED <<session, queues, act, compiles, urls, made, lost>>

-----------------------------------------------------------------------------
(* The other actions.                                                      *)

\* What the buttons allow: see ActionToolbar and ExchangePanel.
Offered(kind) ==
  /\ act = None
  /\ kind \in Planning => CanSaveOrExport /\ ui.pending[About(kind)] = None
  /\ kind \in Applying => ui.pending[About(kind)] # None
  /\ kind = "adopt" => ui.ver # None

\* A handler up to the request it sends, at once when the queue is idle.  A
\* replacement asks first if the page knows of unsaved changes.
Start(kind) ==
  /\ Offered(kind)
  /\ MayDo("actions", MaxActions)
  /\ made' = [made EXCEPT !.actions = @ + 1]
  /\ act' = [kind |-> kind, id |-> made.actions + 1, need |-> made.edits,
             asked |-> kind \in Replacing /\ ui.dirty,
             stage |-> IF Flushed(Cur) THEN "sent" ELSE "flush",
             exp |-> IF Flushed(Cur) THEN Cur.exp ELSE None,
             plan |-> IF kind \in Applying THEN ui.pending[About(kind)]
                      ELSE IF kind = "adopt" THEN ui.ver ELSE None,
             answer |-> None, compile |-> 0]
  /\ UNCHANGED <<session, queues, ui, compiles, urls, lost>>

Answer(a) == act' = [act EXCEPT !.stage = "answered", !.answer = a]
Refuse == Answer(Refused) /\ UNCHANGED session
Served(kinds, stage) == act # None /\ act.kind \in kinds /\ act.stage = stage

\* begin_replacement_intent: the page always names an intent of its own, and an
\* intent that is still held has another name.
MayReplace == session.intent = None
BeginReplacement ==
  /\ Served(Replacing, "sent")
  /\ IF CheckExpected(act.exp) /\ MayReplace
       THEN /\ session' = [session EXCEPT !.intent = act.id]
            /\ act' = [act EXCEPT !.stage = "reserved"]
       ELSE Refuse
  /\ UNCHANGED <<queues, ui, compiles, urls, made, lost>>

\* validate_replacement_intent: the reservation names revision and digest.
ValidateReservation == session.intent = act.id /\ session.rev = act.exp[1]

\* new_draft, open_file and import_svg_file after the compile and the dialog.
CommitReplacement ==
  /\ Served(Replacing, "reserved")
  /\ ValidateReservation
  /\ session' = [Advance(session) EXCEPT
                    !.src = IF act.kind = "new" THEN 0 ELSE made.files + 1,
                    !.dirty = act.kind # "open", !.intent = None,
                    !.compiled = TRUE, !.ok = TRUE]
  /\ Answer(Draft(session'))
  /\ made' = [made EXCEPT !.files = IF act.kind = "new" THEN @ ELSE @ + 1]
  /\ UNCHANGED <<queues, ui, compiles, urls, lost>>

\* The dialog was cancelled, or the SVG cannot be imported: the intent goes.
CancelReplacement ==
  /\ Served({"open", "import"}, "reserved")
  /\ session' = [session EXCEPT !.intent = IF @ = act.id THEN None ELSE @]
  /\ Answer(Cancelled) \/ (act.kind = "import" /\ Answer(Refused))
  /\ UNCHANGED <<queues, ui, compiles, urls, made, lost>>

\* Every other way out is an error that leaves the intent as it is.
FailReplacement ==
  /\ Served(Replacing, "reserved")
  /\ Refuse
  /\ UNCHANGED <<queues, ui, compiles, urls, made, lost>>

\* save_plan and export_plan: checked, then the dialog, then checked again.
BeginPlan ==
  /\ Served(Planning, "sent")
  /\ IF CheckExpected(act.exp) /\ session.compiled
       THEN act' = [act EXCEPT !.stage = "reserved"] /\ UNCHANGED session
       ELSE Refuse
  /\ UNCHANGED <<queues, ui, compiles, urls, made, lost>>

RetainPlan ==
  /\ Served(Planning, "reserved")
  /\ \/ /\ CheckExpected(act.exp) /\ session.compiled
        /\ session' = [session EXCEPT !.plans[About(act.kind)] =
                         [id |-> act.id, rev |-> session.rev]]
        /\ Answer(Said("planned"))
     \/ Answer(Cancelled) /\ UNCHANGED session
     \/ Refuse
  /\ UNCHANGED <<queues, ui, compiles, urls, made, lost>>

\* save_apply and export_apply: the plan is taken before it is judged, so a
\* refusal after that, or a failing write, leaves no plan.
Apply ==
  /\ Served(Applying, "sent")
  /\ LET p == About(act.kind)
         plan == session.plans[p]
         taken == [session EXCEPT !.plans[p] = None]
         good == plan # None /\ plan.id = act.plan /\ plan.rev = session.rev /\ session.compiled
     IN IF ~CheckExpected(act.exp)
          THEN Refuse /\ UNCHANGED made
          ELSE \/ /\ good
                  /\ session' = IF p = "export" THEN taken
                                ELSE [taken EXCEPT !.src = made.files + 1, !.dirty = FALSE,
                                                   !.plans = NoPlans, !.ver = None]
                  /\ made' = [made EXCEPT !.files = IF p = "save" THEN @ + 1 ELSE @]
                  /\ Answer([published |-> plan.rev, src |-> session'.src])
               \/ /\ session' = taken
                  /\ Answer(Refused)
                  /\ UNCHANGED made
  /\ UNCHANGED <<queues, ui, compiles, urls, lost>>

\* bind_tokens, candidate_adopt and candidate_verify: the check that counts is
\* the one under the lock that also makes the change.
BindVerifyAdopt ==
  /\ Served({"bind", "verify", "adopt"}, "sent")
  /\ \/ /\ CheckExpected(act.exp)
        /\ CASE act.kind = "bind" ->
                  /\ \E ok \in BOOLEAN :
                       session' = [Advance(session) EXCEPT !.dirty = TRUE, !.ok = ok]
                  /\ Answer(Draft(session'))
             [] act.kind = "verify" ->
                  /\ session' = [session EXCEPT !.ver = act.id]
                  /\ Answer(Said("verified"))
             [] act.kind = "adopt" ->
                  /\ session.ver = act.plan
                  /\ session' = [Advance(session) EXCEPT !.dirty = TRUE, !.src = 0, !.ok = TRUE]
                  /\ Answer(Draft(session'))
     \/ Refuse
  /\ UNCHANGED <<queues, ui, compiles, urls, made, lost>>

\* The handler's continuation when its request is answered.
ThenCompile == /\ compiles' = Append(compiles, [Request EXCEPT !.exp = <<act.answer.rev, act.answer.src>>])
               /\ act' = [act EXCEPT !.stage = "compiling", !.compile = Len(compiles) + 1]

AnswerReplacement ==
  /\ Served(Replacing, "answered") /\ act.answer \notin {Refused, Cancelled}
  /\ queues' = Append(queues, [tasks |-> <<>>, flight |-> None,
                               exp |-> <<act.answer.rev, act.answer.src>>])
  /\ ui' = [ui EXCEPT !.revision = act.answer.rev, !.latest = act.answer.rev,
                      !.dirty = act.answer.dirty, !.compiling = TRUE, !.error = FALSE]
  /\ ThenCompile
  /\ UNCHANGED <<session, urls, made, lost>>

\* Bind and Adopt move the state and the queue, not latestRevisionRef.
AnswerRebind ==
  /\ Served({"bind", "adopt"}, "answered") /\ act.answer # Refused
  /\ queues' = [queues EXCEPT ![Len(queues)].exp = <<act.answer.rev, act.answer.src>>]
  /\ LET bound == [ui EXCEPT !.revision = act.answer.rev, !.dirty = act.answer.dirty]
     IN IF act.kind = "bind"
          THEN ui' = bound /\ act' = None /\ UNCHANGED compiles
          ELSE /\ ui' = [bound EXCEPT !.ver = None, !.compiling = TRUE, !.error = FALSE]
               /\ ThenCompile
  /\ UNCHANGED <<session, urls, made, lost>>

AnswerPlan ==
  /\ Served(Planning \cup {"verify"}, "answered") /\ act.answer \in {Said("planned"), Said("verified")}
  /\ ui' = IF act.kind = "verify" THEN [ui EXCEPT !.ver = act.id]
           ELSE [ui EXCEPT !.pending[About(act.kind)] = act.id]
  /\ act' = None
  /\ UNCHANGED <<session, queues, compiles, urls, made, lost>>

UpdateSource(src) == <<Cur.exp[1], src>>

AnswerApply ==
  /\ Served(Applying, "answered") /\ act.answer # Refused
  /\ IF act.kind = "saveApply"
       THEN /\ ui' = [ui EXCEPT !.dirty = FALSE, !.pending = NoPlans, !.ver = None]
            /\ queues' = [queues EXCEPT ![Len(queues)].exp = UpdateSource(act.answer.src)]
       ELSE /\ ui' = [ui EXCEPT !.pending["export"] = None]
            /\ UNCHANGED queues
  /\ act' = None
  /\ UNCHANGED <<session, compiles, urls, made, lost>>

AnswerRefusal ==
  /\ Served(AllKinds, "answered") /\ act.answer \in {Refused, Cancelled}
  /\ ui' = IF act.kind \in Applying THEN [ui EXCEPT !.pending[About(act.kind)] = None]
           ELSE [ui EXCEPT !.error = @ \/ (act.answer = Refused /\ act.kind \notin Planning)]
  /\ act' = None
  /\ UNCHANGED <<session, queues, compiles, urls, made, lost>>

-----------------------------------------------------------------------------
Serve == \/ \E i \in DOMAIN queues : ServeEdit(i)
         \/ \E c \in DOMAIN compiles : ServeCompile(c)
         \/ BeginReplacement \/ CommitReplacement \/ CancelReplacement \/ FailReplacement
         \/ BeginPlan \/ RetainPlan \/ Apply \/ BindVerifyAdopt

Continue == \/ \E i \in DOMAIN queues : AnswerEdit(i)
            \/ \E c \in DOMAIN compiles : AnswerCompile(c) \/ Decode(c)
            \/ AnswerReplacement \/ AnswerRebind \/ AnswerPlan \/ AnswerApply \/ AnswerRefusal
            \/ Render

User == Edit \/ Refresh \/ \E kind \in Kinds : Start(kind)

Next == User \/ Serve \/ Continue

Spec == Init /\ [][Next]_vars

\* Requests are served, answers arrive and promises continue; users need do nothing.
FairSpec == Spec /\ WF_vars(Serve) /\ WF_vars(Continue)

-----------------------------------------------------------------------------
\* The answer that brings the queue in step with the session is on its way.
Brings(answer) == /\ answer # None
                  /\ "rev" \in DOMAIN answer
                  /\ <<answer.rev, answer.src>> = Identity(session)
BringsSource(answer) == /\ answer # None
                        /\ "published" \in DOMAIN answer
                        /\ <<Cur.exp[1], answer.src>> = Identity(session)

\* edit-queue.ts expects exactly the draft the session holds, or the answer that moves it
\* there is on its way: unless the bridge refused the answer to an edit that was made, the
\* page and the session never part, whatever order requests and answers take.
QueueInStep ==
  \/ lost
  \/ Cur.exp = Identity(session)
  \/ Cur.flight # None /\ Brings(Cur.flight.answer)
  \/ act # None /\ act.stage = "answered" /\ (Brings(act.answer) \/ BringsSource(act.answer))

\* "Single in-flight edit serialization" (edit-queue.ts): an edit that was sent while no
\* action had a request out still names the session's draft when it is served, so
\* a fast typist's edits are never refused as stale by each other.
SerialEditsAccepted ==
  ~lost => (Cur.flight # None /\ Cur.flight.answer = None /\ ~Cur.flight.raced
              => Cur.flight.exp = Identity(session))

\* "Flush-before-action synchronization": when an action's request has left, every edit
\* made before the user's click was settled first, so a plan, a brief or a verification
\* is of the draft with those edits.
ActionsSeeEdits ==
  act # None /\ act.stage \in {"sent", "reserved"} =>
    /\ Cur.flight # None => Cur.flight.edit > act.need
    /\ \A n \in DOMAIN Cur.tasks : Cur.tasks[n] > act.need

\* blob-preview.ts: the URL on the page is the last good one and has not been revoked, and
\* nothing else is kept alive but the candidates that are being decoded.
ShownUrlIsLive ==
  /\ ui.shown = urls.lastGood
  /\ urls.live = {c \in DOMAIN compiles : compiles[c].stage = "decoding"}
                   \cup ({urls.lastGood} \ {0})

\* A preview that is late does not replace a newer one.
PreviewNeverGoesBack == [][ui'.preview >= ui.preview]_vars

Settled == act = None /\ \A i \in DOMAIN queues : Idle(queues[i])

\* Every edit is settled and every action ends once the user stops: flush does not wait
\* for a queue that nobody pumps.
EverythingSettles == <>[]Settled

\* "The scene revision changed. Retry with the current draft." (VectorGraphicsLab.tsx): a
\* replacement that names the session's draft is not refused before it began.
StaleMeansChanged ==
  [][Served(Replacing, "sent") /\ act' # act /\ CheckExpected(act.exp) => act'.stage = "reserved"]_vars
=============================================================================
