--------------------------- MODULE SidecarTransport ---------------------------
(***************************************************************************)
(* One request at a time over the stdio of the sidecar process.            *)
(*                                                                         *)
(* Three parties share a ProcessSession: the child, which writes frames    *)
(* whenever it likes; the reader thread (sidecar/process.rs), which moves  *)
(* them into a bounded channel and gives up when the channel is full; and  *)
(* the client, whichever command holds the supervisor, running one of two  *)
(* loops: SidecarSupervisor::request (mode "host") or                      *)
(* plan_transport::request (mode "plan", which also forwards a             *)
(* cancellation).  The loops share RequestCoordinator but not the          *)
(* treatment of every frame.                                               *)
(*                                                                         *)
(* The child is external.  A healthy one only reports progress on requests *)
(* it has not answered and answers each once, at any time, however late; a *)
(* faulty one may also send any other frame.  Reading a frame from stdout  *)
(* and publishing it to the channel is one step: the pipe only adds delay. *)
(*                                                                         *)
(* Writing to the child is not one step.  write_all and flush wait, outside *)
(* every deadline, until the child has read enough of its stdin, which no  *)
(* child need ever do, or until it is gone.                                *)
(***************************************************************************)
EXTENDS RequestCoordinator

CONSTANTS
  ChannelBound,  \* capacity of the channel between reader and client
  MaxId,         \* bound of the model: the last identifier taken
  Modes,         \* which of the two request loops clients use
  Children       \* the kinds of child that may be spawned

ASSUME TransportAssumption ==
  /\ ChannelBound \in Nat \ {0}
  /\ MaxId \in Nat \ {0}
  /\ 1..MaxId \subseteq Ids
  /\ Modes \subseteq {"host", "plan"}
  /\ Children \subseteq {"healthy", "faulty"}

VARIABLES
  nextId,      \* SidecarSupervisor.next_request_id, kept across sessions
  channel,     \* events published by the reader, not yet received
  overflowed,  \* SharedTransportState.overflowed
  reader,      \* "running", or "done" once the thread has dropped its sender
  child,       \* which kind of child this session has
  alive,       \* it has not exited
  working,     \* requests written to the child that it has not answered
  pc,          \* where the client is in its request loop; "down": terminated
  request,     \* the request in flight, or the last one: its id and mode
  expired,     \* its deadline has passed
  cancel,      \* the cancel flag its caller shares with it
  cancelSent,  \* $/cancelRequest has been written for it
  frame,       \* the frame just received
  verdict      \* how the last request ended, and on which frame

sessionVars == <<channel, overflowed, reader, child, alive, working>>
clientVars  == <<pc, request, expired, cancel, cancelSent, frame, verdict>>
transportVars == <<coordinatorVars, nextId, sessionVars, clientVars>>

Frame == [kind : {"progress", "response"}, id : Ids, valid : BOOLEAN]
Garbage == [kind |-> "garbage", id |-> NoId, valid |-> FALSE]
Closing == {[kind |-> k, id |-> NoId, valid |-> TRUE] : k \in {"eof", "protocol"}}
Nothing == [kind |-> "none", id |-> NoId, valid |-> TRUE]

NoRequest == [id |-> NoId, mode |-> "host"]
NoVerdict == [outcome |-> "none", id |-> NoId, on |-> Nothing]

\* In write_message: of the request, or of its cancellation.
Writing == pc \in {"writing", "cancelling"}
InFlight == Writing \/ pc \in {"top", "recv", "frame", "answer"}

-----------------------------------------------------------------------------
(* The child and the reader thread.                                        *)

\* publish: under the transport lock, so atomically with the overflow check.

Publish(event) ==
  /\ reader = "running"
  /\ IF overflowed \/ Len(channel) >= ChannelBound
     THEN /\ overflowed' = TRUE
          /\ reader' = "done"
          /\ UNCHANGED channel
     ELSE /\ channel' = Append(channel, event)
          /\ reader' = IF event \in Closing THEN "done" ELSE "running"
          /\ UNCHANGED overflowed

ChildSends(f) ==
  /\ alive
  /\ child = "faulty" \/ (f.valid /\ f.id \in working)
  /\ Publish(f)
  /\ working' = IF f.kind = "response" THEN working \ {f.id} ELSE working
  /\ UNCHANGED <<coordinatorVars, nextId, child, alive, clientVars>>

ChildExits ==
  /\ pc # "down"
  /\ alive
  /\ alive' = FALSE
  /\ UNCHANGED <<coordinatorVars, nextId, channel, overflowed, reader, child, working,
                 clientVars>>

\* End of stdout, clean or inside a frame, or bytes that are no frames.
ReaderCloses ==
  /\ ~alive \/ child = "faulty"
  /\ \E event \in Closing : Publish(event)
  /\ UNCHANGED <<coordinatorVars, nextId, child, alive, working, clientVars>>

-----------------------------------------------------------------------------
(* The client.                                                             *)

\* What the callers do with a finished request.  An answer keeps the session,
\* unless its content cannot be used; so does the timeout of a brand read, and
\* of nothing else; any other failure terminates the process.
\* The wrong one keeps the session after any failure.
WrongFinish(outcome, on) ==
  /\ verdict' = [outcome |-> outcome, id |-> request.id, on |-> on]
  /\ pc' \in {"down", "idle"}
  /\ expired' = FALSE /\ cancel' = FALSE /\ cancelSent' = FALSE
  /\ frame' = Nothing
  /\ UNCHANGED request

Finish(outcome, on) ==
  /\ verdict' = [outcome |-> outcome, id |-> request.id, on |-> on]
  /\ \/ pc' = "down"
     \/ /\ outcome = "answered" \/ (outcome = "timeout" /\ request.mode = "host")
        /\ pc' = "idle"
  /\ expired' = FALSE /\ cancel' = FALSE /\ cancelSent' = FALSE
  /\ frame' = Nothing
  /\ UNCHANGED request

TimedOut     == RetireTimeout(request.id) /\ Finish("timeout", Nothing)
Rejected(on) == Abandon(request.id) /\ Finish("protocolInvalid", on)
Crashed      == Abandon(request.id) /\ Finish("crashed", Nothing)

Goto(label) ==
  /\ pc' = label
  /\ UNCHANGED <<coordinatorVars, request, expired, cancel, cancelSent, frame, verdict>>

\* The identifier is taken and begun.  A message longer than a frame is never
\* written: begun, then abandoned.
Start(mode) ==
  /\ pc = "idle"
  /\ nextId < MaxId
  /\ nextId' = nextId + 1
  /\ request' = [id |-> nextId, mode |-> mode]
  /\ \/ /\ Begin(nextId)
        /\ pc' = "writing"
        /\ verdict' = NoVerdict
     \/ /\ verdict' = [outcome |-> "crashed", id |-> nextId, on |-> Nothing]
        /\ pc' = "down"
        /\ UNCHANGED coordinatorVars
  /\ UNCHANGED <<sessionVars, expired, cancel, cancelSent, frame>>

\* The child, or the pipe, has taken the last byte of the request.
RequestWritten ==
  /\ pc = "writing" /\ alive
  /\ working' = working \cup {request.id}
  /\ Goto("top")
  /\ UNCHANGED <<nextId, channel, overflowed, reader, child, alive>>

CancelWritten ==
  /\ pc = "cancelling" /\ alive
  /\ cancelSent' = TRUE
  /\ pc' = "recv"
  /\ UNCHANGED <<coordinatorVars, nextId, sessionVars, request, expired, cancel, frame, verdict>>

\* The child is gone, or has closed its stdin.
WriteFails ==
  /\ Writing
  /\ ~alive \/ child = "faulty"
  /\ Crashed
  /\ UNCHANGED <<nextId, sessionVars>>

\* Head of the loop: deadline, then overflow, then (plan) the cancel flag.
LoopTop ==
  /\ pc = "top"
  /\ \/ expired /\ TimedOut
     \/ ~expired /\ overflowed /\ Rejected(Nothing)
     \/ /\ ~expired /\ ~overflowed
        /\ Goto(IF request.mode = "plan" /\ cancel /\ ~cancelSent THEN "cancelling" ELSE "recv")
  /\ UNCHANGED <<nextId, sessionVars>>

Receive ==
  /\ pc = "recv"
  /\ channel # <<>>
  /\ channel' = Tail(channel)
  /\ IF Head(channel) \in Closing
     THEN IF expired THEN TimedOut ELSE Rejected(Head(channel))
     ELSE /\ pc' = "frame"
          /\ frame' = Head(channel)
          /\ UNCHANGED <<coordinatorVars, request, expired, cancel, cancelSent, verdict>>
  /\ UNCHANGED <<nextId, overflowed, reader, child, alive, working>>

\* recv_timeout came back without an event.  The host loop waits until the
\* deadline; the plan loop polls, and meets the deadline at the loop head.
\* The wrong one has no deadline of its own in the host loop.
WrongReceiveNothing ==
  /\ pc = "recv"
  /\ channel = <<>>
  /\ \/ reader = "done" /\ Crashed
     \/ reader = "running" /\ request.mode = "plan" /\ Goto("top")
  /\ UNCHANGED <<nextId, sessionVars>>

ReceiveNothing ==
  /\ pc = "recv"
  /\ channel = <<>>
  /\ \/ reader = "done" /\ request.mode = "plan" /\ expired /\ TimedOut
     \/ reader = "done" /\ (request.mode = "host" \/ ~expired) /\ Crashed
     \/ reader = "running" /\ expired /\ request.mode = "host" /\ TimedOut
     \/ reader = "running" /\ request.mode = "plan" /\ Goto("top")
  /\ UNCHANGED <<nextId, sessionVars>>

\* A retired identifier is skipped by the host loop in every frame; the plan
\* loop skips it in responses only.
WrongSkips(f) == f.kind = "response" /\ Classify(f.id) = "retired"

Skips(f) ==
  /\ f.kind = "response" \/ (f.kind = "progress" /\ request.mode = "host")
  /\ Classify(f.id) = "retired"

HandleFrame ==
  /\ pc = "frame"
  /\ \/ expired /\ TimedOut
     \/ ~expired /\ overflowed /\ Rejected(frame)
     \/ /\ ~expired /\ ~overflowed
        /\ \/ Skips(frame) /\ Goto("top")
           \/ /\ frame.kind = "progress" /\ Classify(frame.id) = "current" /\ frame.valid
              /\ pc' = "top"
              /\ cancel' \in IF request.mode = "plan" THEN {cancel, TRUE} ELSE {cancel}
              /\ UNCHANGED <<coordinatorVars, request, expired, cancelSent, frame, verdict>>
           \/ frame.kind = "response" /\ Classify(frame.id) = "current" /\ frame.valid
              /\ Goto("answer")
           \/ /\ frame.kind # "garbage"
              /\ ~Skips(frame)
              /\ Classify(frame.id) # "current" \/ ~frame.valid
              /\ Rejected(frame)
           \/ \* unparsable, or an answer of another shape: returned without abandon
              /\ frame.kind = "garbage"
                 \/ (frame.kind = "response" /\ Classify(frame.id) = "current" /\ ~frame.valid)
              /\ Finish("protocolInvalid", frame)
              /\ UNCHANGED coordinatorVars
  /\ UNCHANGED <<nextId, sessionVars>>

\* Completion.  The host loop looks at the overflow flag again under the
\* transport lock; the plan loop does not.
WrongAcceptAnswer ==
  /\ pc = "answer"
  /\ Complete(request.id) /\ Finish("answered", frame)
  /\ UNCHANGED <<nextId, sessionVars>>

AcceptAnswer ==
  /\ pc = "answer"
  /\ IF request.mode = "host" /\ overflowed
     THEN Rejected(frame)
     ELSE Complete(request.id) /\ Finish("answered", frame)
  /\ UNCHANGED <<nextId, sessionVars>>

DeadlinePasses ==
  /\ InFlight /\ ~expired
  /\ expired' = TRUE
  /\ UNCHANGED <<coordinatorVars, nextId, sessionVars,
                 pc, request, cancel, cancelSent, frame, verdict>>

RequestCancel ==
  /\ InFlight /\ request.mode = "plan" /\ ~cancel
  /\ cancel' = TRUE
  /\ UNCHANGED <<coordinatorVars, nextId, sessionVars,
                 pc, request, expired, cancelSent, frame, verdict>>

\* studio_host_status finds the session dead between two requests.
StatusReaps ==
  /\ pc = "idle"
  /\ overflowed \/ ~alive
  /\ pc' = "down"
  /\ UNCHANGED <<coordinatorVars, nextId, sessionVars,
                 request, expired, cancel, cancelSent, frame, verdict>>

\* After termination the supervisor may spawn a new session: everything but
\* the identifier counter starts again.
Spawn ==
  /\ pc = "down"
  /\ active' = NoId
  /\ completedOrder' = <<>> /\ completed' = {}
  /\ retiredOrder' = <<>> /\ retired' = {}
  /\ channel' = <<>> /\ overflowed' = FALSE /\ reader' = "running"
  /\ child' \in Children /\ alive' = TRUE /\ working' = {}
  /\ pc' = "idle"
  /\ request' = NoRequest /\ verdict' = NoVerdict
  /\ UNCHANGED <<nextId, expired, cancel, cancelSent, frame>>

-----------------------------------------------------------------------------

TransportInit ==
  /\ CoordinatorInit
  /\ nextId = 1
  /\ channel = <<>> /\ overflowed = FALSE /\ reader = "running"
  /\ child \in Children /\ alive = TRUE /\ working = {}
  /\ pc = "idle"
  /\ request = NoRequest
  /\ expired = FALSE /\ cancel = FALSE /\ cancelSent = FALSE
  /\ frame = Nothing
  /\ verdict = NoVerdict

\* What the client does by itself.  That a write ends is up to the child, unless there is
\* no child any more.
ClientStep ==
  LoopTop \/ Receive \/ ReceiveNothing \/ HandleFrame \/ AcceptAnswer \/ (~alive /\ WriteFails)

TransportNext ==
  \/ \E mode \in Modes : Start(mode)
  \/ RequestWritten \/ CancelWritten \/ WriteFails
  \/ ClientStep
  \/ DeadlinePasses
  \/ RequestCancel
  \/ \E f \in Frame \cup {Garbage} : ChildSends(f)
  \/ ChildExits
  \/ ReaderCloses
  \/ StatusReaps
  \/ Spawn

\* The client thread runs its loop, and time passes.  Nothing is assumed of
\* the child, not even that it reads.
TransportSpec ==
  /\ TransportInit /\ [][TransportNext]_transportVars
  /\ WF_transportVars(ClientStep)
  /\ WF_transportVars(DeadlinePasses)

-----------------------------------------------------------------------------

\* The shape of the session and of the request loop.
TransportTypeOK ==
  /\ CoordinatorTypeOK
  /\ nextId \in 1..MaxId
  /\ channel \in Seq(Frame \cup {Garbage} \cup Closing)
  /\ Len(channel) <= ChannelBound
  /\ overflowed \in BOOLEAN /\ child \in Children /\ alive \in BOOLEAN
  /\ reader \in {"running", "done"}
  /\ working \subseteq Ids
  /\ pc \in {"idle", "writing", "top", "cancelling", "recv", "frame", "answer", "down"}
  /\ request \in [id : Ids \cup {NoId}, mode : {"host", "plan"}]
  /\ {expired, cancel, cancelSent} \subseteq BOOLEAN
  /\ frame \in Frame \cup {Garbage, Nothing}
  /\ verdict.outcome \in {"none", "answered", "timeout", "protocolInvalid", "crashed"}

\* A session kept for another request can begin one: no failure path that
\* keeps the process leaves its request current, and the next identifier is
\* in no history.  (Some failure paths do leave it current; they must all
\* terminate the process.)
KeptSessionCanBegin ==
  pc = "idle" => CanBegin(nextId)

\* While a request is in flight it is the coordinator's current one.
InFlightIsCurrent ==
  InFlight => active = request.id

\* Only an answer to this very request ends it as answered: frames of earlier
\* requests, duplicates and unsolicited frames never cross-satisfy it.
AnswersItsOwnRequest ==
  verdict.outcome = "answered" =>
    verdict.on.kind = "response" /\ verdict.on.id = verdict.id

\* Late traffic of a timed-out request never fails the next one: unless
\* frames were lost, a request is not rejected over a frame about a request
\* the session remembers as retired.
LateTrafficIsHarmless ==
  verdict.outcome = "protocolInvalid" /\ ~overflowed => verdict.on.id \notin retired

\* The host loop does not blame a healthy child for its frames, however late
\* they come, as long as no frame was lost and no timed-out request has been
\* forgotten.
HealthyChildNeverRejected ==
  /\ child = "healthy"
  /\ request.mode = "host" /\ verdict.outcome = "protocolInvalid"
  /\ verdict.on.kind \in {"progress", "response"}
  /\ Len(retiredOrder) < HistoryBound
  => overflowed

\* Saturation is terminal for the host loop: a frame lost at any moment before
\* the answer is recorded, even after it was received, fails the request.
NoHostAnswerAfterOverflow ==
  [][verdict' # verdict /\ verdict'.outcome = "answered" /\ request.mode = "host"
       => ~overflowed]_transportVars

\* Whatever the child sends, keeps to itself, repeats or breaks off, every request returns,
\* with one exception: a write to a living child that does not read.  No deadline covers
\* the write, and nothing else keeps a client in its loop (SidecarSupervisor::request,
\* plan_transport::request).
RequestsReturn == []<>~InFlight \/ <>[](Writing /\ alive)
=============================================================================
