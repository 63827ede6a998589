---------------------------- MODULE PlanCoordinator ----------------------------
(***************************************************************************)
(* The plan coordinator (src-tauri/src/state/plan_coordinator.rs): which   *)
(* plan operation is running, which prepared plan is retained for the      *)
(* user, and whether the project is being replaced.  Every action is one   *)
(* critical section of its mutex.                                          *)
(*                                                                         *)
(* A plan is named by the token the sidecar minted for it.  The public     *)
(* handle is a hash of the session nonce, the token, the digest and the    *)
(* session generation, so naming a plan by its token is naming it by its   *)
(* handle.  Of the digest only whether the caller quotes the right one     *)
(* matters, and of the raster descriptor only whether there is one.        *)
(* Operations are numbered by next_operation, which their handle hashes.   *)
(***************************************************************************)
EXTENDS Naturals, FiniteSets

CONSTANTS
  Tokens, Projects, Sources,
  Contexts,     \* the sessions callers may have seen
  TTL,          \* PLAN_TTL
  Idle,         \* how long the expiry worker sleeps when nothing is retained
  Lag,          \* how long a caller may wait between reading the clock and
                \* entering the mutex
  MaxClock,     \* bounds of the model: time,
  MaxOperation, \* and operations
  NoProject, NoToken, NoPlan, NoOperation

Context ==
  [generation : Nat, project : Projects \cup {NoProject},
   sources : SUBSET Sources, raster : BOOLEAN]

Plan ==
  [token : Tokens, project : Projects, sources : SUBSET Sources,
   generation : Nat, raster : BOOLEAN, expiresAt : Nat]

Request ==
  [kind : {"create"}, project : Projects, sources : SUBSET Sources, raster : BOOLEAN]
    \cup [kind : {"apply"}, token : Tokens, digest : BOOLEAN]
    \cup [kind : {"discard"}, token : Tokens]

\* The caller's side: the plan begin moved out of the coordinator, or, for a
\* creation, what was asked for and then the token the sidecar answered with;
\* settled once the caller has offered it back to the coordinator.
Begun ==
  [kind : {"apply", "discard"}, plan : Plan]
    \cup [kind : {"create"}, project : Projects, sources : SUBSET Sources,
          token : Tokens \cup {NoToken}]
    \cup [kind : {"settled"}]

Operation == [op : 1..MaxOperation, cancelled : BOOLEAN]

ASSUME PlanAssumption ==
  /\ Contexts \subseteq Context
  /\ TTL \in Nat \ {0} /\ Idle \in Nat /\ TTL <= Idle
  /\ Lag \in Nat /\ MaxClock \in Nat /\ MaxOperation \in Nat
  /\ NoProject \notin Projects
  /\ NoToken \notin Tokens
  /\ NoPlan \notin Plan
  /\ NoOperation \notin Operation \cup Begun

VARIABLES
  nextOperation,   \* PlanInner.next_operation
  active,          \* PlanInner.active: its number and its cancel flag
  retained,        \* PlanInner.retained
  identityChange,  \* PlanInner.identity_change_in_progress
  shutdown,        \* PlanInner.shutdown
  begun,           \* what begin handed to the caller of the active operation
  worker,          \* the expiry thread: waiting, woken or gone
  clock,           \* the monotonic clock
  minted           \* tokens the sidecar has ever minted (external)

innerVars == <<nextOperation, active, retained, identityChange, shutdown>>
planVars  == <<innerVars, begun, worker, clock, minted>>

Holds(kinds) == begun # NoOperation /\ begun.kind \in kinds
HeldPlan     == IF Holds({"apply", "discard"}) THEN begun.plan ELSE NoPlan
CreatedToken == IF Holds({"create"}) THEN begun.token ELSE NoToken

-----------------------------------------------------------------------------

\* The instants a caller entering the mutex now may have read before.
Sampled == {now \in 0..clock : clock - now <= Lag}

\* Operators named Wrong... are variants of the one they precede with a bug in
\* them; nothing uses them but the tests of the properties.

\* expire_locked
WrongUnexpired(now) == retained

Unexpired(now) ==
  IF retained # NoPlan /\ now >= retained.expiresAt THEN NoPlan ELSE retained

\* The session a plan was made in is still the one the caller sees.
Covers(context, project, sources) ==
  /\ context.project = project
  /\ sources \subseteq context.sources

SameSession(context, plan) ==
  /\ plan.generation = context.generation
  /\ plan.raster = context.raster
  /\ Covers(context, plan.project, plan.sources)

WakeWorker ==
  worker' = [worker EXCEPT !.state = IF @ = "waiting" THEN "awake" ELSE @]

\* The reasons begin gives before it counts the operation, and those of
\* authenticate_plan.  (Expiry has no reason of its own there: expire_locked
\* has just run with the same instant.)
BeginRefusal(request, context, kept) ==
  CASE identityChange \/ active # NoOperation -> "RequestBusy"
    [] request.kind = "create" /\ kept # NoPlan -> "PlanActive"
    [] request.kind = "create" /\ ~Covers(context, request.project, request.sources)
         -> "ContextInvalid"
    [] request.kind = "create" /\ request.raster /\ ~context.raster
         -> "CapabilityUnavailable"
    [] OTHER -> "none"

AuthenticateRefusal(request, context, kept) ==
  CASE kept = NoPlan -> "PlanInvalid"
    [] kept.token # request.token -> "PlanInvalid"
    [] ~SameSession(context, kept) -> "ContextStale"
    [] request.kind = "apply" /\ ~request.digest -> "DigestMismatch"
    [] OTHER -> "none"

BeginRefused(request, context, now) ==
  /\ BeginRefusal(request, context, Unexpired(now)) # "none"
  /\ retained' = Unexpired(now)
  /\ UNCHANGED <<nextOperation, active, identityChange, shutdown, begun,
                 worker, clock, minted>>

\* The operation is counted even if authentication then refuses it; a plan of
\* another session is dropped, a wrong digest leaves it in place.
BeginUnauthentic(request, context, now) ==
  LET refusal == AuthenticateRefusal(request, context, Unexpired(now))
  IN  /\ BeginRefusal(request, context, Unexpired(now)) = "none"
      /\ request.kind # "create"
      /\ refusal # "none"
      /\ nextOperation' = nextOperation + 1
      /\ retained' = IF refusal = "ContextStale" THEN NoPlan ELSE Unexpired(now)
      /\ UNCHANGED <<active, identityChange, shutdown, begun, worker, clock, minted>>

BeginCreate(request, context, now) ==
  /\ request.kind = "create"
  /\ BeginRefusal(request, context, Unexpired(now)) = "none"
  /\ nextOperation' = nextOperation + 1
  /\ active' = [op |-> nextOperation + 1, cancelled |-> FALSE]
  /\ begun' = [kind |-> "create", project |-> request.project,
               sources |-> request.sources, token |-> NoToken]
  /\ retained' = Unexpired(now)
  /\ UNCHANGED <<identityChange, shutdown, worker, clock, minted>>

\* Hands out the plan and keeps it; clears the plan, then hands out what is left.
WrongBeginUse(request, context, now) ==
  /\ request.kind # "create"
  /\ BeginRefusal(request, context, Unexpired(now)) = "none"
  /\ AuthenticateRefusal(request, context, Unexpired(now)) = "none"
  /\ nextOperation' = nextOperation + 1
  /\ active' = [op |-> nextOperation + 1, cancelled |-> FALSE]
  /\ begun' = [kind |-> request.kind, plan |-> Unexpired(now)]
  /\ retained' = Unexpired(now)
  /\ UNCHANGED <<identityChange, shutdown, worker, clock, minted>>

BeginUse(request, context, now) ==
  /\ request.kind # "create"
  /\ BeginRefusal(request, context, Unexpired(now)) = "none"
  /\ AuthenticateRefusal(request, context, Unexpired(now)) = "none"
  /\ nextOperation' = nextOperation + 1
  /\ active' = [op |-> nextOperation + 1, cancelled |-> FALSE]
  /\ begun' = [kind |-> request.kind, plan |-> Unexpired(now)]
  /\ retained' = NoPlan
  /\ UNCHANGED <<identityChange, shutdown, worker, clock, minted>>

Begin(request, context, now) ==
  \/ BeginRefused(request, context, now)
  \/ BeginUnauthentic(request, context, now)
  \/ BeginCreate(request, context, now)
  \/ BeginUse(request, context, now)

\* The public cancel: only the handle of the running operation is accepted.
Cancel(op) ==
  /\ active # NoOperation /\ active.op = op
  /\ active' = [active EXCEPT !.cancelled = TRUE]
  /\ UNCHANGED <<nextOperation, retained, identityChange, shutdown, begun,
                 worker, clock, minted>>

\* External: the sidecar answers a plan creation with a token never seen before.
SidecarMints(token) ==
  /\ Holds({"create"}) /\ begun.token = NoToken
  /\ token \in Tokens \ minted
  /\ minted' = minted \cup {token}
  /\ begun' = [begun EXCEPT !.token = token]
  /\ UNCHANGED <<innerVars, worker, clock>>

\* retain_created, with the context the session has by then.

MayRetain(context) ==
  /\ ~active.cancelled
  /\ Covers(context, begun.project, begun.sources)
  /\ retained = NoPlan

\* The wrong one leaves the created plan with its caller.
WrongRetainCreated(context, now) ==
  /\ CreatedToken # NoToken /\ MayRetain(context)
  /\ retained' = [token |-> begun.token, project |-> begun.project,
                  sources |-> begun.sources, generation |-> context.generation,
                  raster |-> context.raster, expiresAt |-> now + TTL]
  /\ WakeWorker
  /\ UNCHANGED <<begun, nextOperation, active, identityChange, shutdown, clock, minted>>

RetainCreated(context, now) ==
  /\ CreatedToken # NoToken
  /\ begun' = [kind |-> "settled"]
  /\ IF MayRetain(context)
     THEN /\ retained' = [token |-> begun.token, project |-> begun.project,
                          sources |-> begun.sources, generation |-> context.generation,
                          raster |-> context.raster, expiresAt |-> now + TTL]
          /\ WakeWorker
     ELSE UNCHANGED <<retained, worker>>
  /\ UNCHANGED <<nextOperation, active, identityChange, shutdown, clock, minted>>

\* restore_unwritten_apply: the apply never reached the sidecar.
MayRestore(context) ==
  /\ ~active.cancelled
  /\ SameSession(context, begun.plan)
  /\ clock < begun.plan.expiresAt
  /\ retained = NoPlan

\* The wrong one restores the plan with a new deadline.

RestoreUnwrittenApply(context) ==
  /\ Holds({"apply"})
  /\ begun' = [kind |-> "settled"]
  /\ IF MayRestore(context)
     THEN retained' = begun.plan /\ WakeWorker
     ELSE UNCHANGED <<retained, worker>>
  /\ UNCHANGED <<nextOperation, active, identityChange, shutdown, clock, minted>>

\* finish, after the caller has dropped whatever it still held.
Finish ==
  /\ active # NoOperation
  /\ active' = NoOperation
  /\ begun' = NoOperation
  /\ UNCHANGED <<nextOperation, retained, identityChange, shutdown, worker,
                 clock, minted>>

\* invalidate_all: the session ended or may have ended.
CancelActive ==
  active' = IF active = NoOperation THEN active ELSE [active EXCEPT !.cancelled = TRUE]

InvalidateAll ==
  /\ CancelActive
  /\ retained' = NoPlan
  /\ WakeWorker
  /\ UNCHANGED <<nextOperation, identityChange, shutdown, begun, clock, minted>>

\* begin_identity_change: succeeds when nothing is running, retained or
\* already being replaced; otherwise it may still have dropped an expired plan.
WrongBeginIdentityChange ==
  /\ ~identityChange /\ active = NoOperation
  /\ identityChange' = TRUE
  /\ UNCHANGED <<nextOperation, active, retained, shutdown, begun, worker, clock, minted>>

BeginIdentityChange ==
  /\ ~identityChange /\ active = NoOperation /\ Unexpired(clock) = NoPlan
  /\ identityChange' = TRUE
  /\ retained' = NoPlan
  /\ UNCHANGED <<nextOperation, active, shutdown, begun, worker, clock, minted>>

IdentityChangeRefused ==
  /\ identityChange \/ active # NoOperation \/ Unexpired(clock) # NoPlan
  /\ retained' = Unexpired(clock)
  /\ UNCHANGED <<nextOperation, active, identityChange, shutdown, begun, worker,
                 clock, minted>>

\* IdentityChangeGuard is dropped.
EndIdentityChange ==
  /\ identityChange
  /\ identityChange' = FALSE
  /\ WakeWorker
  /\ UNCHANGED <<nextOperation, active, retained, shutdown, begun, clock, minted>>

\* PlanCoordinator is dropped: nobody can be inside one of its methods.
Drop ==
  /\ ~shutdown /\ active = NoOperation
  /\ shutdown' = TRUE
  /\ retained' = NoPlan
  /\ WakeWorker
  /\ UNCHANGED <<nextOperation, active, identityChange, begun, clock, minted>>

\* One turn of expiry_loop, from waking to waiting again.

ExpiryTurn ==
  /\ \/ worker.state = "awake"
     \/ worker.state = "waiting" /\ clock >= worker.until
  /\ IF shutdown
     THEN worker' = [worker EXCEPT !.state = "exited"] /\ UNCHANGED retained
     ELSE LET kept == Unexpired(clock)
          IN  /\ retained' = kept
              /\ worker' = [state |-> "waiting",
                            until |-> IF kept = NoPlan THEN clock + Idle
                                                       ELSE kept.expiresAt]
  /\ UNCHANGED <<nextOperation, active, identityChange, shutdown, begun, clock, minted>>

Tick ==
  /\ clock < MaxClock
  /\ clock' = clock + 1
  /\ UNCHANGED <<innerVars, begun, worker, minted>>

-----------------------------------------------------------------------------

PlanInit ==
  /\ nextOperation = 0
  /\ active = NoOperation
  /\ retained = NoPlan
  /\ identityChange = FALSE
  /\ shutdown = FALSE
  /\ begun = NoOperation
  /\ worker = [state |-> "awake", until |-> 0]
  /\ clock = 0
  /\ minted = {}

\* Callers use the coordinator until it is dropped.
Call ==
  \/ /\ nextOperation < MaxOperation
     /\ \E request \in Request, context \in Contexts, now \in Sampled :
          Begin(request, context, now)
  \/ \E op \in 1..MaxOperation : Cancel(op)
  \/ \E token \in Tokens : SidecarMints(token)
  \/ \E context \in Contexts, now \in Sampled : RetainCreated(context, now)
  \/ \E context \in Contexts : RestoreUnwrittenApply(context)
  \/ Finish
  \/ InvalidateAll
  \/ BeginIdentityChange
  \/ IdentityChangeRefused

PlanNext ==
  \/ ~shutdown /\ Call
  \/ EndIdentityChange
  \/ Drop
  \/ ExpiryTurn
  \/ Tick

PlanSafety == PlanInit /\ [][PlanNext]_planVars

\* The expiry thread runs and time passes; callers need not do anything.
PlanSpec == PlanSafety /\ WF_planVars(ExpiryTurn) /\ WF_planVars(Tick)

-----------------------------------------------------------------------------

\* The shape of the coordinator's state and of what its callers hold.
PlanTypeOK ==
  /\ nextOperation \in 0..MaxOperation
  /\ active \in Operation \cup {NoOperation}
  /\ retained \in Plan \cup {NoPlan}
  /\ identityChange \in BOOLEAN /\ shutdown \in BOOLEAN
  /\ begun \in Begun \cup {NoOperation}
  /\ worker \in [state : {"waiting", "awake", "exited"}, until : Nat]
  /\ clock \in Nat
  /\ minted \subseteq Tokens

\* The project is never replaced under a plan: while an identity change is
\* reserved no operation runs and no plan is retained, and none can appear
\* until the reservation is dropped.
IdentityExclusive ==
  identityChange => active = NoOperation /\ retained = NoPlan

\* An authority is in one place.  While the running operation holds a plan, or
\* is still to retain the one it creates, nothing else is retained, so a plan
\* in use cannot be taken again and a restored plan overwrites nothing.
AuthorityInOnePlace ==
  Holds({"apply", "discard", "create"}) => retained = NoPlan

\* The expiry thread never oversleeps: whatever was retained while it slept,
\* it wakes no later than the deadline (or has already been woken).
WakesInTime ==
  worker.state = "waiting" /\ retained # NoPlan => worker.until <= retained.expiresAt

\* No plan is retained or held longer than PLAN_TTL from now.
NeverBeyondTTL ==
  /\ retained # NoPlan => retained.expiresAt <= clock + TTL
  /\ HeldPlan # NoPlan => HeldPlan.expiresAt <= clock + TTL

\* What was cancelled or invalidated while it ran leaves no plan behind: a plan
\* appears only from the running operation, and only if nobody has cancelled it.
OnlyLiveOperationsRetain ==
  [][retained' # NoPlan /\ retained' # retained
       => /\ retained = NoPlan
          /\ active # NoOperation /\ ~active.cancelled]_planVars

\* A plan keeps its session, its contents and its deadline on its way from the
\* coordinator to an operation and back: restoring it does not prolong it.
PlansKeptWhole ==
  [][\A old \in {retained, HeldPlan} \ {NoPlan}, new \in {retained', HeldPlan'} \ {NoPlan} :
        new.token = old.token => new = old]_planVars

\* An expired plan is not used, up to the wait for the mutex.
TakenBeforeExpiry ==
  [][HeldPlan = NoPlan /\ HeldPlan' # NoPlan
       => clock < HeldPlan'.expiresAt + Lag]_planVars

\* Where each token's authority is, as PlanAuthority sees it.
RetainedToken == IF retained # NoPlan THEN retained.token ELSE NoToken
HeldToken     == IF HeldPlan # NoPlan THEN HeldPlan.token ELSE NoToken

StatusOf(token) ==
  IF token = RetainedToken THEN "retained"
  ELSE IF token = HeldToken THEN "held"
  ELSE IF token \in minted /\ token # CreatedToken THEN "spent"
  ELSE "unknown"

Status == [token \in Tokens |-> StatusOf(token)]

Authority == INSTANCE PlanAuthority WITH status <- Status

\* The coordinator implements single-use authority.
ImplementsPlanAuthority == Authority!AuthoritySpec

\* A retained plan is erased at its deadline even if nobody calls again.
ExpiredPlanIsErased ==
  (retained # NoPlan /\ retained.expiresAt <= MaxClock) ~> retained = NoPlan
=============================================================================
