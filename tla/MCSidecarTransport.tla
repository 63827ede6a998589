-------------------------- MODULE MCSidecarTransport --------------------------
(***************************************************************************)
(* Small instances for what talks to a child process.  A session: two or   *)
(* three requests in a row, a channel of one or two frames, and histories  *)
(* that remember all of them: a second request meets the late frames of    *)
(* the first, and the channel overflows.  Or the bookkeeping alone, under  *)
(* any order of its operations, with more identifiers than the histories   *)
(* hold: they are forgotten and come again.  Or a runner of one process    *)
(* for each request.                                                       *)
(***************************************************************************)
EXTENDS SidecarTransport, EngineRunner

CONSTANTS Parts,   \* the parts to check
          BareIds  \* the identifiers of the bookkeeping alone

VARIABLE part  \* which of them

Bookkeeping == INSTANCE RequestCoordinator WITH Ids <- BareIds

\* No session is under way.
SessionRests ==
  /\ nextId = 1 /\ channel = <<>> /\ overflowed = FALSE /\ reader = "done"
  /\ child = "healthy" /\ alive = FALSE /\ working = {} /\ pc = "down"
  /\ request = NoRequest /\ expired = FALSE /\ cancel = FALSE /\ cancelSent = FALSE
  /\ frame = Nothing /\ verdict = NoVerdict

Init ==
  /\ part \in Parts
  /\ IF part = "session" THEN TransportInit ELSE SessionRests /\ Bookkeeping!CoordinatorInit
  /\ RunnerInit /\ (part # "runner" => kind = "scene")  \* one of its initial states

InSession(A) == part = "session" /\ A /\ UNCHANGED <<part, runnerVars>>
InRunner(A) == part = "runner" /\ A /\ UNCHANGED <<part, transportVars>>

Next ==
  \/ InSession(TransportNext)
  \/ InRunner(RunnerNext)
  \/ /\ part = "bookkeeping" /\ Bookkeeping!CoordinatorNext
     /\ UNCHANGED <<part, runnerVars, nextId, channel, overflowed, reader, child, alive, working,
                    pc, request, expired, cancel, cancelSent, frame, verdict>>

vars == <<part, transportVars, runnerVars>>

\* The fairness of TransportSpec and of EngineRunner.
Spec == /\ Init /\ [][Next]_vars
        /\ WF_vars(InSession(ClientStep))
        /\ WF_vars(InSession(DeadlinePasses))
        /\ \A r \in Requests : /\ WF_vars(InRunner(Progress(r)))
                               /\ WF_vars(InRunner(Late(r)))
                               /\ WF_vars(InRunner(Ends(r)))
=============================================================================
