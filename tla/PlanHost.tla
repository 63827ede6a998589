-------------------------------- MODULE PlanHost --------------------------------
(***************************************************************************)
(* The host state shared by all commands (src-tauri/src/state/host.rs):    *)
(* the supervisor with its sidecar session, the gate that admits one       *)
(* mutating command at a time, the cached status, and the plan             *)
(* coordinator.  Callers are the threads running commands; each step of a  *)
(* caller is what it does between two points where others can interfere:   *)
(* taking or leaving the gate, or one critical section of the coordinator. *)
(*                                                                         *)
(* The sidecar call inside a command (SidecarTransport has its detail) is  *)
(* reduced to its outcomes: answered, rejected by the sidecar, or fatal.   *)
(***************************************************************************)
EXTENDS PlanCoordinator

CONSTANTS
  Callers, NoCaller, NoContext,
  MaxSession,     \* bound of the model: sessions started
  MalformedReads  \* whether callers may send a read that prepare refuses

ASSUME HostAssumption ==
  /\ NoCaller \notin Callers
  /\ MaxSession \in Nat
  /\ MalformedReads \in BOOLEAN
  /\ NoContext \notin Contexts
  /\ [generation : 0..MaxSession, project : Projects \cup {NoProject},
      sources : SUBSET Sources, raster : {TRUE}] \subseteq Contexts

VARIABLES
  gate,       \* who holds HostShared.operation and the supervisor
  state,      \* SidecarSupervisor.state when nobody holds the gate
  process,    \* the ProcessSession: none, sound, or broken (exited, overflowed)
  stray,      \* a child was left running that no ProcessSession owns
  session,    \* SidecarSupervisor.session_generation
  project, sources,  \* current_project, brand_sources
  published,  \* HostShared.published
  pc,         \* where each caller is
  captured,   \* the session context start_plan read before begin
  sent        \* how often each token was written in a plan.apply, capped

supervisorVars == <<state, process, stray, session, project, sources>>
hostVars == <<gate, supervisorVars, published, pc, captured, sent>>

Labels ==
  {"idle", "begin", "started", "lock", "call", "retain", "finished", "failed",
   "recheck", "invalidate", "toStart", "toStop", "start", "stop",
   "reserved", "open", "opened", "read"}

-----------------------------------------------------------------------------

\* Operators named Wrong... are variants of the one they precede with a bug in
\* them; nothing uses them but the tests of the properties.

\* plan_session_context
WrongCurrent ==
  [generation |-> session + 1, project |-> project, sources |-> sources, raster |-> TRUE]

Current == [generation |-> session, project |-> project, sources |-> sources, raster |-> TRUE]
HasContext == state = "Ready" /\ process # "none"

Goto(c, label) == pc' = [pc EXCEPT ![c] = label]
At(c, label)   == pc[c] = label

\* HostState::lock, and the guard's drop, which publishes the status.
Acquire(c, label) ==
  /\ gate = NoCaller
  /\ gate' = c
  /\ Goto(c, label)
\* The wrong one does not publish.
WrongRelease(c, label) ==
  /\ gate' = NoCaller
  /\ UNCHANGED published
  /\ Goto(c, label)

Release(c, label) ==
  /\ gate' = NoCaller
  /\ published' = state'
  /\ Goto(c, label)

\* terminate_process: the child is reaped, or could not be and is kept.
Terminated(verdict) ==
  /\ state' = verdict
  /\ process' \in {"none", process}
  /\ UNCHANGED <<stray, session, project, sources>>

\* SidecarSupervisor::status looks at the child before it answers.
WrongInspected ==
  /\ process' = IF process = "broken" THEN "none" ELSE process
  /\ UNCHANGED <<state, stray, session, project, sources>>

Inspected ==
  IF process = "broken"
  THEN \/ state' = "Crashed" /\ process' = "none" /\ UNCHANGED <<stray, session, project, sources>>
       \/ Terminated("Failed")
  ELSE UNCHANGED supervisorVars

-----------------------------------------------------------------------------
\* start_plan

CaptureContext(c) ==
  /\ At(c, "idle") /\ gate = NoCaller /\ HasContext
  /\ captured' = [captured EXCEPT ![c] = Current]
  /\ published' = state
  /\ Goto(c, "begin")
  /\ UNCHANGED <<planVars, gate, supervisorVars, sent>>

BeginPlan(c) ==
  /\ At(c, "begin") /\ nextOperation < MaxOperation
  /\ \E request \in Request : Begin(request, captured[c], clock)
  /\ captured' = [captured EXCEPT ![c] = NoContext]
  /\ Goto(c, IF active' = active THEN "idle" ELSE "started")
  /\ UNCHANGED <<gate, supervisorVars, published, sent>>

Announce(c) ==
  /\ At(c, "started")
  /\ Goto(c, "lock")
  /\ UNCHANGED <<planVars, gate, supervisorVars, published, captured, sent>>

\* The event channel is gone: the operation cancels itself.
WrongAnnounceFails(c) ==
  /\ At(c, "started")
  /\ Cancel(active.op)
  /\ Goto(c, "idle")
  /\ UNCHANGED <<gate, supervisorVars, published, captured, sent>>

AnnounceFails(c) ==
  /\ At(c, "started")
  /\ Cancel(active.op)
  /\ Goto(c, "failed")
  /\ UNCHANGED <<gate, supervisorVars, published, captured, sent>>

LockForPlan(c) ==
  /\ At(c, "lock")
  /\ \/ Acquire(c, "call")
     \/ gate # NoCaller /\ Goto(c, "failed") /\ UNCHANGED gate
  /\ UNCHANGED <<planVars, supervisorVars, published, captured, sent>>

Written(isWritten) ==
  sent' = IF isWritten /\ Holds({"apply"})
          THEN [sent EXCEPT ![begun.plan.token] = IF @ = 2 THEN 2 ELSE @ + 1]
          ELSE sent

\* The call is answered, or the sidecar refuses it: the session stays.
UseAnswered(c) ==
  /\ At(c, "call") /\ process = "sound" /\ Holds({"apply", "discard"})
  /\ Written(TRUE)
  /\ UNCHANGED <<planVars, supervisorVars, captured>>
  /\ Release(c, "finished")

CallRejected(c) ==
  /\ At(c, "call") /\ process = "sound"
  /\ Written(TRUE)
  /\ UNCHANGED <<planVars, supervisorVars, captured>>
  /\ Release(c, "failed")

\* The call is fatal, before or after the request was written.  An apply that
\* was written and whose child was reaped counts as done (Indeterminate).
\* No context is left to restore an unwritten apply in.
CallFatal(c) ==
  /\ At(c, "call") /\ process # "none"
  /\ Terminated("Failed")
  /\ \E isWritten \in BOOLEAN :
       /\ Written(isWritten)
       /\ Release(c, IF Holds({"apply"}) /\ isWritten /\ process' = "none"
                     THEN "finished" ELSE "failed")
  /\ UNCHANGED <<planVars, captured>>

CallWithoutProcess(c) ==
  /\ At(c, "call") /\ process = "none"
  /\ UNCHANGED <<planVars, supervisorVars, captured, sent>>
  /\ Release(c, "failed")

\* A plan was created; if the cancellation was seen it is discarded at once.
CreateAnswered(c) ==
  /\ At(c, "call") /\ process = "sound"
  /\ \E token \in Tokens : SidecarMints(token)
  /\ \/ Goto(c, "retain") /\ UNCHANGED <<gate, supervisorVars, published>>
     \/ /\ active.cancelled
        /\ UNCHANGED supervisorVars \/ Terminated("Failed")
        /\ Release(c, "failed")
  /\ UNCHANGED <<captured, sent>>

\* What is not retained is discarded at the sidecar, or ends the session.
Retain(c) ==
  /\ At(c, "retain")
  /\ RetainCreated(Current, clock)
  /\ IF MayRetain(Current)
     THEN UNCHANGED supervisorVars /\ Release(c, "finished")
     ELSE /\ UNCHANGED supervisorVars \/ Terminated("Failed")
          /\ Release(c, "failed")
  /\ UNCHANGED <<captured, sent>>

FinishPlan(c) ==
  /\ pc[c] \in {"finished", "failed"}
  /\ Finish
  /\ Goto(c, IF At(c, "finished") THEN "idle" ELSE "recheck")
  /\ UNCHANGED <<gate, supervisorVars, published, captured, sent>>

\* After an error the host is inspected; a busy host counts as not ready.
Recheck(c) ==
  /\ At(c, "recheck")
  /\ IF gate = NoCaller
     THEN /\ Inspected
          /\ published' = state'
          /\ Goto(c, IF state' = "Ready" THEN "idle" ELSE "invalidate")
     ELSE /\ Goto(c, "invalidate")
          /\ UNCHANGED <<supervisorVars, published>>
  /\ UNCHANGED <<planVars, gate, captured, sent>>

\* The wrong one forgets the running operation.
WrongInvalidate(c) ==
  /\ At(c, "invalidate")
  /\ retained' = NoPlan /\ WakeWorker
  /\ UNCHANGED <<nextOperation, active, identityChange, shutdown, begun, clock, minted>>
  /\ Goto(c, "idle")
  /\ UNCHANGED <<gate, supervisorVars, published, captured, sent>>

Invalidate(c) ==
  /\ At(c, "invalidate")
  /\ InvalidateAll
  /\ Goto(c, "idle")
  /\ UNCHANGED <<gate, supervisorVars, published, captured, sent>>

PlanStep(c) ==
  \/ BeginPlan(c) \/ Announce(c) \/ AnnounceFails(c) \/ LockForPlan(c)
  \/ UseAnswered(c) \/ CallRejected(c) \/ CallFatal(c) \/ CallWithoutProcess(c)
  \/ CreateAnswered(c) \/ Retain(c) \/ FinishPlan(c) \/ Recheck(c) \/ Invalidate(c)

-----------------------------------------------------------------------------
\* status, start_host, shutdown_host

ReadStatus(c) ==
  /\ At(c, "idle")
  /\ IF gate = NoCaller
     THEN Inspected /\ published' = state'
     ELSE UNCHANGED <<supervisorVars, published>>
  /\ Goto(c, IF published' = "Ready" THEN "idle" ELSE "invalidate")
  /\ UNCHANGED <<planVars, gate, captured, sent>>

\* Plans are invalidated before the teardown waits for the gate.
AnnounceTeardown(c) ==
  /\ At(c, "idle")
  /\ InvalidateAll
  /\ Goto(c, "toStart") \/ Goto(c, "toStop")
  /\ UNCHANGED <<gate, supervisorVars, published, captured, sent>>

LockForTeardown(c) ==
  /\ \/ At(c, "toStart") /\ Acquire(c, "start")
     \/ At(c, "toStop") /\ Acquire(c, "stop")
  /\ UNCHANGED <<planVars, supervisorVars, published, captured, sent>>

\* start: a ready host whose child is not seen broken is left alone.
StartReady(c) ==
  /\ At(c, "start") /\ state = "Ready" /\ process # "broken"
  /\ UNCHANGED <<planVars, supervisorVars, captured, sent>>
  /\ Release(c, "idle")

StartSession(c) ==
  /\ At(c, "start") /\ ~(state = "Ready" /\ process # "broken")
  /\ session < MaxSession
  /\ state' = "Ready" /\ process' = "sound"
  /\ session' = session + 1
  /\ project' = NoProject /\ sources' = {}
  /\ UNCHANGED <<planVars, stray, captured, sent>>
  /\ Release(c, "idle")

StartFails(c) ==
  /\ At(c, "start") /\ ~(state = "Ready" /\ process # "broken")
  /\ Terminated("Failed")
  /\ UNCHANGED <<planVars, captured, sent>>
  /\ Release(c, "idle")

Stop(c) ==
  /\ At(c, "stop")
  /\ \/ /\ state' = "Stopped" /\ process' = "none"
        /\ UNCHANGED <<stray, session, project, sources>>
     \/ process # "none" /\ Terminated("Failed")
  /\ UNCHANGED <<planVars, captured, sent>>
  /\ Release(c, "idle")

TeardownStep(c) ==
  LockForTeardown(c) \/ StartReady(c) \/ StartSession(c) \/ StartFails(c) \/ Stop(c)

-----------------------------------------------------------------------------
\* studio_select_project, studio_select_source, studio_brand_read

ReserveIdentity(c) ==
  /\ At(c, "idle")
  /\ \/ BeginIdentityChange /\ Goto(c, "reserved")
     \/ IdentityChangeRefused /\ UNCHANGED pc
  /\ UNCHANGED <<gate, supervisorVars, published, captured, sent>>

\* The wrong one returns with the reservation when the gate is busy.
WrongLockForIdentity(c) ==
  /\ At(c, "reserved")
  /\ \/ Acquire(c, "open")
     \/ gate # NoCaller /\ Goto(c, "idle") /\ UNCHANGED gate
  /\ UNCHANGED <<planVars, supervisorVars, published, captured, sent>>

LockForIdentity(c) ==
  /\ At(c, "reserved")
  /\ \/ Acquire(c, "open")
     \/ gate # NoCaller /\ Goto(c, "opened") /\ UNCHANGED gate
  /\ UNCHANGED <<planVars, supervisorVars, published, captured, sent>>

Open(c) ==
  /\ At(c, "open")
  /\ \/ /\ process = "sound"
        /\ \/ project' \in Projects /\ sources' = {}
           \/ \E source \in Sources : sources' = sources \cup {source} /\ UNCHANGED project
        /\ UNCHANGED <<state, process, stray, session>>
     \/ process # "broken" /\ UNCHANGED supervisorVars
     \/ process # "none" /\ Terminated("Failed")
  /\ UNCHANGED <<planVars, captured, sent>>
  /\ Release(c, "opened")

DropReservation(c) ==
  /\ At(c, "opened")
  /\ EndIdentityChange
  /\ Goto(c, "idle")
  /\ UNCHANGED <<gate, supervisorVars, published, captured, sent>>

LockForRead(c) ==
  /\ At(c, "idle") /\ Acquire(c, "read")
  /\ UNCHANGED <<planVars, supervisorVars, published, captured, sent>>

\* A read is answered, rejected or times out and leaves the session as it was,
\* or is fatal.  brand_read has taken the process out by the time it prepares
\* the request; if that fails, the process is dropped without being terminated.
Read(c) ==
  /\ At(c, "read")
  /\ \/ UNCHANGED supervisorVars
     \/ process # "none" /\ Terminated("Failed")
     \/ /\ MalformedReads
        /\ stray' = (stray \/ process # "none")
        /\ process' = "none"
        /\ UNCHANGED <<state, session, project, sources>>
  /\ UNCHANGED <<planVars, captured, sent>>
  /\ Release(c, "idle")

IdentityStep(c) == LockForIdentity(c) \/ Open(c) \/ DropReservation(c)

-----------------------------------------------------------------------------

\* The child exits, or overflows the transport.
ChildBreaks ==
  /\ process = "sound"
  /\ process' = "broken"
  /\ UNCHANGED <<planVars, gate, state, stray, session, project, sources, published,
                 pc, captured, sent>>

CancelPlan ==
  /\ active # NoOperation /\ ~active.cancelled
  /\ Cancel(active.op)
  /\ UNCHANGED hostVars

\* The expiry thread and the clock.
Expiry == (ExpiryTurn \/ Tick) /\ UNCHANGED hostVars

HostInit ==
  /\ PlanInit
  /\ gate = NoCaller
  /\ state = "NotStarted" /\ process = "none" /\ stray = FALSE /\ session = 0
  /\ project = NoProject /\ sources = {}
  /\ published = "NotStarted"
  /\ pc = [c \in Callers |-> "idle"]
  /\ captured = [c \in Callers |-> NoContext]
  /\ sent = [t \in Tokens |-> 0]

\* What a caller does once it has entered a command.
Proceed(c) == PlanStep(c) \/ TeardownStep(c) \/ IdentityStep(c) \/ Read(c)

HostNext ==
  \/ \E c \in Callers :
       \/ CaptureContext(c) \/ ReadStatus(c) \/ AnnounceTeardown(c)
       \/ ReserveIdentity(c) \/ LockForRead(c)
       \/ Proceed(c)
  \/ ChildBreaks \/ CancelPlan \/ Expiry

\* The callers inside an operation, and what each owns.
InPlan     == {"started", "lock", "call", "retain", "finished", "failed"}
InIdentity == {"reserved", "open", "opened"}
InGate     == {"call", "retain", "start", "stop", "open", "read"}

Inside(labels) == {c \in Callers : pc[c] \in labels}

\* Who owns the gate speaks to the child, if there is one: a request, a discard, the goodbye
\* of a stop; or starts one, with a handshake.
MayWaitForChild(c) == pc[c] \in InGate /\ (process # "none" \/ At(c, "start"))

\* A thread inside a command runs on, except where it speaks to the child: a write to one
\* that does not read has no deadline (SidecarTransport), so nothing is assumed of it.
\* Nobody need enter a command, cancel, or break, and a thread waiting for the
\* gate need not get it.
HostSpec ==
  /\ HostInit /\ [][HostNext]_<<planVars, hostVars>>
  /\ \A c \in Callers : WF_<<planVars, hostVars>>(Proceed(c) /\ ~MayWaitForChild(c))

-----------------------------------------------------------------------------

\* The shape of the host's state.
HostTypeOK ==
  /\ gate \in Callers \cup {NoCaller}
  /\ {state, published} \subseteq {"NotStarted", "Ready", "Failed", "Crashed", "Stopped"}
  /\ process \in {"none", "sound", "broken"} /\ stray \in BOOLEAN
  /\ session \in 0..MaxSession
  /\ project \in Projects \cup {NoProject} /\ sources \subseteq Sources
  /\ pc \in [Callers -> Labels]
  /\ captured \in [Callers -> Contexts \cup {NoContext}]
  /\ sent \in [Tokens -> 0..2]

\* Whoever is inside an operation is there alone and owns what the coordinator
\* and the gate say is taken: no path leaves a command with its operation, its
\* reservation or the gate still held, and none enters without it.
OwnersAgree ==
  /\ Inside(InPlan) = {} <=> active = NoOperation
  /\ Inside(InIdentity) = {} <=> ~identityChange
  /\ Cardinality(Inside(InPlan) \cup Inside(InIdentity)) <= 1
  /\ Inside(InGate) = IF gate = NoCaller THEN {} ELSE {gate}

\* A token is written to the sidecar in at most one plan.apply.
AppliedOnce == \A t \in Tokens : sent[t] <= 1

\* A plan retained in the running session still names its project and sources:
\* nobody replaced them under it.
RetainedIsCurrent ==
  retained # NoPlan /\ retained.generation = session
    => Covers(Current, retained.project, retained.sources)

\* The status served while a command runs is the one the last command left.
CacheIsLastCompleted == gate = NoCaller => published = state

\* A host that says it is ready owns a child.
ReadyOwnsChild == state = "Ready" => process # "none"

\* The supervisor owns every child it started until it is reaped
\* (docs/architecture/v0.4-studio-tauri-integration.md:65: "owns bounded
\* shutdown/reaping").
EveryChildIsOwned == ~stray

\* A plan is applied only in the session it was made in
\* (docs/architecture/v0.4-studio-tauri-integration.md:59: "preserving
\* authentic session-bound, single-use authority and stale-state rejection").
AppliedInItsSession ==
  \A c \in Callers : At(c, "call") /\ Holds({"apply"}) => begun.plan.generation = session

\* Seen from the coordinator, the host only ever does what PlanCoordinator allows.
HostUsesCoordinator == PlanSafety

\* A plan operation ends and an identity change is given up, whatever the other commands
\* do, busy gates and stuck callers included: what is held for ever is held by a caller who
\* is for ever in its own call to the child (start_plan, studio_select_project).
StuckIn(labels) == <>[](\E c \in Callers : pc[c] \in labels /\ MayWaitForChild(c))
OperationsEnd   == []<>(active = NoOperation) \/ StuckIn(InPlan)
ReservationEnds == []<>~identityChange \/ StuckIn(InIdentity)
NothingIsHeldForever == OperationsEnd /\ ReservationEnds
=============================================================================
