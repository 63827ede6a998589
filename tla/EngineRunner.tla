---------------------------- MODULE EngineRunner ----------------------------
(***************************************************************************)
(* The runners that start one process of an engine for each request:       *)
(*   scene     scene/runner.rs, where the newest waiting request wins and  *)
(*             an epoch makes a cancellation count that comes early;       *)
(*   theme     theme_lab/runner.rs and the compiles of                     *)
(*             app_theme/runner.rs: every request first cancels the one    *)
(*             that runs, and there is no epoch;                           *)
(*   document  the documents of app_theme/runner.rs, served in order, where*)
(*             a cancellation cuts off every ticket given out.             *)
(* Each runs one process at a time.  A section under one mutex is one step;*)
(* what a process answers is not told apart.                               *)
(***************************************************************************)
EXTENDS Naturals, FiniteSets

CONSTANTS None,
          MaxCalls,  \* bound on the calls, each by a thread of its own
          MaxStops   \* bound on cancellations

ASSUME RunnerAssumption == None \notin Nat /\ MaxCalls \in Nat /\ MaxStops \in Nat

Requests == 1..MaxCalls  \* in the order in which they are made

VARIABLES kind,  \* which runner
          slot,  \* ExecutionState, epoch and active_cancel of the controller
          req,   \* the locals of each call, its token and its child
          stop   \* the call of cancel_active, cancel_documents or close

runnerVars == <<kind, slot, req, stop>>

RunnerInit ==
  /\ kind \in {"scene", "theme", "document"}
  /\ slot = [active |-> FALSE, pending |-> None, next |-> 0, registered |-> None,
             epoch |-> 0, unavailable |-> FALSE, serving |-> 0, cutoff |-> 0]
  /\ req = [r \in Requests |-> [pc |-> "idle", ticket |-> None, epoch |-> 0, token |-> FALSE,
                                child |-> "none", cut |-> FALSE, answer |-> "none"]]
  /\ stop = [pc |-> "idle", close |-> FALSE, n |-> 0, seen |-> {}]

-----------------------------------------------------------------------------
At(r, pc) == req[r].pc = pc
Go(q, r, pc) == [q EXCEPT ![r].pc = pc]
Answer(q, r, answer) ==
  [q EXCEPT ![r].pc = "done", ![r].answer = answer, ![r].token = FALSE, ![r].epoch = 0]

\* notify_all
Wake(q) == [r \in Requests |-> IF q[r].pc = "wait" THEN [q[r] EXCEPT !.pc = "woken"] ELSE q[r]]

\* The token in active_cancel, if there is one.
SetToken(q) == IF slot.registered = None THEN q ELSE [q EXCEPT ![slot.registered].token = TRUE]

\* The scene reads the epoch before it asks whether it is still available.
Enter(r) ==
  /\ At(r, "idle") /\ (r - 1 \in Requests => ~At(r - 1, "idle"))
  /\ req' = [req EXCEPT ![r].epoch = slot.epoch,
               ![r].pc = CASE kind = "scene" -> "check" [] kind = "theme" -> "signal"
                           [] kind = "document" -> "queue"]
  /\ UNCHANGED <<kind, slot, stop>>

Check(r) ==
  /\ At(r, "check")
  /\ req' = IF slot.unavailable THEN Answer(req, r, "failed") ELSE Go(req, r, "queue")
  /\ UNCHANGED <<kind, slot, stop>>

\* cancel_active, called by a theme request for the one before it.
SignalActive(r) ==
  /\ At(r, "signal")
  /\ req' = Go(SetToken(req), r, "unpend")
  /\ UNCHANGED <<kind, slot, stop>>

SignalPending(r) ==
  /\ At(r, "unpend")
  /\ slot' = [slot EXCEPT !.pending = None]
  /\ req' = Go(Wake(req), r, "queue")
  /\ UNCHANGED <<kind, stop>>

-----------------------------------------------------------------------------
(* The queue.                                                              *)

WrongServed(s) == s.serving + 1
Served(s) == IF s.serving < s.cutoff THEN s.cutoff ELSE s.serving + 1

MyTurn(s, ticket) == ~s.active /\ ticket = IF kind = "document" THEN s.serving ELSE s.pending

Displaced(s, ticket) ==
  ~MyTurn(s, ticket) /\ IF kind = "document" THEN ticket < s.cutoff ELSE s.pending # ticket

\* What is looked at once more when the turn has come.
TooLate(s, q) ==
  \/ kind = "scene" /\ q.epoch # s.epoch
  \/ kind = "document" /\ q.ticket < s.cutoff

\* The loop of a call that holds the mutex, in the state s and q.
Loop(r, s, q) ==
  \/ /\ Displaced(s, q[r].ticket)
     /\ slot' = s /\ req' = Answer(q, r, "cancelled")
  \/ /\ ~MyTurn(s, q[r].ticket) /\ ~Displaced(s, q[r].ticket)
     /\ slot' = s /\ req' = Go(q, r, "wait")
  \/ /\ MyTurn(s, q[r].ticket) /\ TooLate(s, q[r])
     /\ IF kind = "document"
          THEN slot' = [s EXCEPT !.serving = Served(s)] /\ req' = Answer(Wake(q), r, "cancelled")
          ELSE slot' = s /\ req' = Answer(q, r, "cancelled")
  \/ /\ MyTurn(s, q[r].ticket) /\ ~TooLate(s, q[r])
     /\ IF kind = "document"
          THEN /\ slot' = [s EXCEPT !.active = TRUE, !.registered = r]
               /\ req' = Go(q, r, "start")
          ELSE /\ slot' = [s EXCEPT !.active = TRUE, !.pending = None]
               /\ req' = Go(q, r, "register")

\* A ticket; the newest replaces the one that waits.
Queued(s) == [s EXCEPT !.next = @ + 1, !.pending = IF kind = "document" THEN @ ELSE s.next]

WrongQueue(r) ==
  /\ At(r, "queue")
  /\ LET q == [req EXCEPT ![r].ticket = slot.next, ![r].epoch = slot.epoch]
     IN Loop(r, Queued(slot), IF kind = "document" THEN q ELSE Wake(q))
  /\ UNCHANGED <<kind, stop>>
Queue(r) ==
  /\ At(r, "queue")
  /\ LET q == [req EXCEPT ![r].ticket = slot.next]
     IN Loop(r, Queued(slot), IF kind = "document" THEN q ELSE Wake(q))
  /\ UNCHANGED <<kind, stop>>

Woken(r) == At(r, "woken") /\ Loop(r, slot, req) /\ UNCHANGED <<kind, stop>>

\* The token goes into active_cancel, under its own mutex; the scene then looks at the
\* epoch once more.
Register(r) ==
  /\ At(r, "register")
  /\ slot' = [slot EXCEPT !.registered = r]
  /\ req' = Go(req, r, IF kind = "scene" THEN "recheck" ELSE "start")
  /\ UNCHANGED <<kind, stop>>

WrongRecheck(r) ==
  At(r, "recheck") /\ req' = Go(req, r, "start") /\ UNCHANGED <<kind, slot, stop>>
Recheck(r) ==
  /\ At(r, "recheck")
  /\ req' = [req EXCEPT ![r].pc = "start", ![r].token = @ \/ req[r].epoch # slot.epoch]
  /\ UNCHANGED <<kind, slot, stop>>

-----------------------------------------------------------------------------
(* The process.                                                            *)

Result(r, answer, child) ==
  [req EXCEPT ![r].pc = "clear", ![r].answer = answer, ![r].child = child]

StartChild(r) ==
  /\ At(r, "start")
  /\ req' \in IF req[r].token THEN {Result(r, "cancelled", "none")}
              ELSE {[req EXCEPT ![r].pc = "poll", ![r].child = "running"],
                    Result(r, "failed", "none")}
  /\ UNCHANGED <<kind, slot, stop>>

\* The child ends by itself, or a lingering one at last.
Exit(r) ==
  /\ req[r].child \in {"running", "late", "lingers"}
  /\ req' = [req EXCEPT ![r].child = "exited"]
  /\ UNCHANGED <<kind, slot, stop>>

\* EXECUTION_TIMEOUT
Late(r) ==
  /\ req[r].child = "running"
  /\ req' = [req EXCEPT ![r].child = "late"]
  /\ UNCHANGED <<kind, slot, stop>>

\* The loop looks at the token, then at the clock, then at the child.  A child that cannot
\* be killed makes the scene unavailable, and its pipes are awaited all the same.
Poll(r) ==
  /\ At(r, "poll")
  /\ IF req[r].token \/ req[r].child = "late"
       THEN \E killed \in BOOLEAN :
              LET answer == IF req[r].token THEN "cancelled" ELSE "failed"
              IN IF killed THEN req' = Result(r, answer, "none") /\ UNCHANGED slot
                 ELSE /\ req[r].child # "exited"
                      /\ req' = [req EXCEPT ![r].pc = "join", ![r].answer = answer,
                                            ![r].child = "lingers"]
                      /\ slot' = [slot EXCEPT !.unavailable = @ \/ kind = "scene"]
       ELSE req' = Go(req, r, "look") /\ UNCHANGED slot
  /\ UNCHANGED <<kind, stop>>

Look(r) ==
  /\ At(r, "look")
  /\ req' \in IF req[r].child = "exited" THEN {Result(r, "ok", "none"), Result(r, "failed", "none")}
              ELSE {Go(req, r, "poll")}
  /\ UNCHANGED <<kind, slot, stop>>

Join(r) ==
  /\ At(r, "join") /\ req[r].child = "exited"
  /\ req' = Result(r, req[r].answer, "none")
  /\ UNCHANGED <<kind, slot, stop>>

\* Only its own token is taken out; a document does this with the release.
Clear(r) ==
  /\ At(r, "clear") /\ kind # "document"
  /\ slot' = [slot EXCEPT !.registered = IF @ = r THEN None ELSE @]
  /\ req' = Go(req, r, "release")
  /\ UNCHANGED <<kind, stop>>

Release(r) ==
  /\ At(r, IF kind = "document" THEN "clear" ELSE "release")
  /\ slot' = IF kind = "document"
               THEN [slot EXCEPT !.active = FALSE, !.serving = Served(slot),
                                 !.registered = IF @ = r THEN None ELSE @]
               ELSE [slot EXCEPT !.active = FALSE]
  /\ req' = Answer(Wake(req), r, req[r].answer)
  /\ UNCHANGED <<kind, stop>>

-----------------------------------------------------------------------------
(* cancel_active, cancel_documents and close.                              *)

Begun == {r \in Requests : req[r].pc \notin {"idle", "done"}}
NoChildYet(r) == req[r].pc \in {"check", "queue", "wait", "woken", "register", "recheck", "start"}

BeginStop ==
  /\ stop.pc = "idle" /\ stop.n < MaxStops
  /\ \E close \in BOOLEAN :
       /\ close => kind = "scene"
       /\ stop' = [stop EXCEPT !.n = @ + 1, !.close = close, !.seen = {},
                     !.pc = CASE kind = "document" -> "documents" [] kind = "theme" -> "token"
                              [] kind = "scene" -> IF close THEN "unavailable" ELSE "bump"]
  /\ UNCHANGED <<kind, slot, req>>

MakeUnavailable ==
  /\ stop.pc = "unavailable"
  /\ slot' = [slot EXCEPT !.unavailable = TRUE]
  /\ stop' = [stop EXCEPT !.pc = "bump"]
  /\ UNCHANGED <<kind, req>>

Bump ==
  /\ stop.pc = "bump"
  /\ slot' = [slot EXCEPT !.epoch = @ + 1]
  /\ stop' = [stop EXCEPT !.pc = "token", !.seen = Begun]
  /\ UNCHANGED <<kind, req>>

CancelToken ==
  /\ stop.pc = "token"
  /\ req' = SetToken(req)
  /\ stop' = [stop EXCEPT !.pc = "pending"]
  /\ UNCHANGED <<kind, slot>>

\* The calls in rs that have no child yet are cut off for good.
CutOff(q, rs) == [r \in Requests |-> [q[r] EXCEPT !.cut = @ \/ (r \in rs /\ NoChildYet(r))]]

CancelPending ==
  /\ stop.pc = "pending"
  /\ slot' = [slot EXCEPT !.pending = None]
  /\ req' = Wake(CutOff(req, stop.seen))
  /\ stop' = [stop EXCEPT !.pc = IF stop.close THEN "drain" ELSE "idle"]
  /\ UNCHANGED kind

\* cancel_documents holds one mutex throughout.
CancelDocuments ==
  /\ stop.pc = "documents"
  /\ slot' = [slot EXCEPT !.cutoff = slot.next, !.serving = IF slot.active THEN @ ELSE slot.next]
  /\ req' = Wake(CutOff(SetToken(req), {r \in Requests : req[r].ticket # None}))
  /\ stop' = [stop EXCEPT !.pc = "idle"]
  /\ UNCHANGED kind

\* close waits for the call that runs, at most TERMINATION_TIMEOUT.
Drained == stop.pc = "drain" /\ ~slot.active /\ stop' = [stop EXCEPT !.pc = "closed"]
           /\ UNCHANGED <<kind, slot, req>>
GiveUp == stop.pc = "drain" /\ slot.active /\ stop' = [stop EXCEPT !.pc = "idle"]
          /\ UNCHANGED <<kind, slot, req>>

Progress(r) ==
  \/ Check(r) \/ SignalActive(r) \/ SignalPending(r) \/ Queue(r) \/ Woken(r) \/ Register(r)
  \/ Recheck(r) \/ StartChild(r) \/ Poll(r) \/ Look(r) \/ Join(r) \/ Clear(r) \/ Release(r)

\* A killed child ends at last.
Ends(r) == req[r].child = "lingers" /\ Exit(r)

RunnerNext ==
  \/ \E r \in Requests : Enter(r) \/ Progress(r) \/ Exit(r) \/ Late(r)
  \/ BeginStop \/ MakeUnavailable \/ Bump \/ CancelToken \/ CancelPending \/ CancelDocuments
  \/ Drained \/ GiveUp

\* The threads run, time passes, and the kernel ends what was killed; a child need not end.
RunnerFairness ==
  \A r \in Requests :
    WF_runnerVars(Progress(r)) /\ WF_runnerVars(Late(r)) /\ WF_runnerVars(Ends(r))

RunnerSpec == RunnerInit /\ [][RunnerNext]_runnerVars /\ RunnerFairness

-----------------------------------------------------------------------------
\* When close answers true the engine has no process and none will be started, although a
\* call may have found the runner available just before (SceneRunner::close).
ClosedMeansNoChild == stop.pc = "closed" => \A r \in Requests : req[r].child = "none"

\* A call that a finished cancellation found without a process never delivers a result: the
\* epoch of the scene and the cut-off of the documents reach it wherever it
\* is (execute_batch, execute_document_process).
CancelledNeverDelivers == \A r \in Requests : req[r].cut => req[r].answer # "ok"

\* With no cancellation from outside, the last call to take a ticket is not answered as
\* cancelled, nor is any document.
Last(r) == req[r].ticket # None /\ (kind = "document" \/ req[r].ticket + 1 = slot.next)
LatestWins ==
  stop.n = 0 /\ (\A r \in Requests : req[r].pc \in {"idle", "done"}) =>
    \A r \in Requests : Last(r) => req[r].answer # "cancelled"

\* Both: a cancellation hits the calls it found and no others.
CancelledExactly == CancelledNeverDelivers /\ LatestWins

\* Every call returns: no wakeup is lost and no cut-off ticket blocks the queue.
CallsReturn == \A r \in Requests : req[r].pc # "idle" ~> req[r].pc = "done"
=============================================================================
