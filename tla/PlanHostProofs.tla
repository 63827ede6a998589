-------------------------- MODULE PlanHostProofs --------------------------
(***************************************************************************)
(* Proofs about the plans: about PlanCoordinator alone, that it implements *)
(* PlanAuthority, and about PlanHost, which composes it with the callers,  *)
(* the gate and the session.                                               *)
(***************************************************************************)
EXTENDS PlanHost, FiniteSetTheorems, TLAPS

-----------------------------------------------------------------------------
(***************************************************************************)
(* The coordinator.                                                        *)
(*                                                                         *)
(* Proofs about PlanCoordinator, for any tokens, sessions, clock and       *)
(* number of operations. The safety invariants are not inductive one by    *)
(* one: that an identity change excludes operations, that the plan in use  *)
(* is not retained as well, and that an operation is being run exactly     *)
(* while the coordinator has an active one each rest on the others, so     *)
(* they are proved together as PlanInv.                                    *)
(***************************************************************************)

\* What is begun is being run, and what is being run was begun.
BegunIsActive == begun # NoOperation <=> active # NoOperation

\* Every token in the coordinator or in its caller's hands was minted once.
KnownTokens ==
  /\ retained # NoPlan => retained.token \in minted
  /\ HeldPlan # NoPlan => HeldPlan.token \in minted
  /\ CreatedToken # NoToken => CreatedToken \in minted

PlanInv ==
  /\ PlanTypeOK
  /\ BegunIsActive
  /\ IdentityExclusive
  /\ AuthorityInOnePlace
  /\ WakesInTime
  /\ NeverBeyondTTL
  /\ KnownTokens

-----------------------------------------------------------------------------
\* What the helpers return.

\* expire_locked keeps the plan or erases it, and keeps no plan past its time.
LEMMA UnexpiredFacts ==
  ASSUME NEW now
  PROVE  /\ Unexpired(now) \in {retained, NoPlan}
         /\ Unexpired(now) # NoPlan => ~(now >= retained.expiresAt)
BY DEF Unexpired

LEMMA NotAnOperation ==
  \A x : x \in Operation \/ x \in Begun => x # NoOperation
<1>1. NoOperation \notin Operation \cup Begun
  BY PlanAssumption, Zenon
<1> QED BY <1>1, Zenon

LEMMA BeginAccepted ==
  ASSUME NEW request \in Request, NEW context, NEW kept,
         BeginRefusal(request, context, kept) = "none"
  PROVE  /\ ~identityChange /\ active = NoOperation
         /\ request.kind = "create" => kept = NoPlan
BY DEF BeginRefusal

LEMMA Authenticated ==
  ASSUME NEW request \in Request, NEW context, NEW kept,
         AuthenticateRefusal(request, context, kept) = "none"
  PROVE  kept # NoPlan
BY DEF AuthenticateRefusal

LEMMA WorkerWoken ==
  ASSUME PlanTypeOK, WakeWorker
  PROVE  /\ worker' \in [state : {"waiting", "awake", "exited"}, until : Nat]
         /\ worker'.state # "waiting"
BY DEF PlanTypeOK, WakeWorker

LEMMA CancelledType ==
  ASSUME PlanTypeOK, CancelActive
  PROVE  active' \in Operation \cup {NoOperation} /\ (active' = NoOperation <=> active = NoOperation)
BY PlanAssumption DEF PlanTypeOK, CancelActive, Operation

\* What the caller of the running operation holds, by kind.
LEMMA HeldByKind ==
  ASSUME NEW b \in Begun
  PROVE  /\ b # NoOperation
         /\ b.kind \in {"apply", "discard"} => b.plan \in Plan
         /\ b.kind = "create" => /\ b.project \in Projects
                                 /\ b.sources \in SUBSET Sources
                                 /\ b.token \in Tokens \cup {NoToken}
         /\ b.kind \in {"apply", "discard", "create", "settled"}
BY PlanAssumption DEF Begun

-----------------------------------------------------------------------------

LEMMA PlanInvInit == PlanInit => PlanInv
<1> SUFFICES ASSUME PlanInit PROVE PlanInv
  OBVIOUS
<1> USE DEF PlanInit
<1>1. PlanTypeOK
  <2>1. 0 \in Nat /\ 0 \in 0..MaxOperation
    BY PlanAssumption
  <2>2. worker \in [state : {"waiting", "awake", "exited"}, until : Nat]
    OBVIOUS
  <2> QED BY <2>1, <2>2 DEF PlanTypeOK
<1>2. BegunIsActive /\ IdentityExclusive /\ AuthorityInOnePlace /\ WakesInTime
  BY DEF BegunIsActive, IdentityExclusive, AuthorityInOnePlace, WakesInTime
<1>3. NeverBeyondTTL /\ KnownTokens
  BY DEF NeverBeyondTTL, KnownTokens, HeldPlan, CreatedToken, Holds
<1> QED BY <1>1, <1>2, <1>3 DEF PlanInv

\* A step that leaves the operation, its caller and the tokens alone and at
\* most erases the retained plan, with the worker still on time.
LEMMA ErasingStep ==
  ASSUME PlanInv,
         retained' \in {retained, NoPlan},
         UNCHANGED <<active, begun, minted>>,
         clock' \in Nat, clock' >= clock,
         nextOperation' \in 0..MaxOperation,
         identityChange' \in BOOLEAN, shutdown' \in BOOLEAN,
         identityChange' => active = NoOperation /\ retained' = NoPlan,
         worker' \in [state : {"waiting", "awake", "exited"}, until : Nat],
         worker'.state = "waiting" /\ retained' # NoPlan
           => worker'.until <= retained.expiresAt
  PROVE  PlanInv'
<1>1. PlanTypeOK'
  BY DEF PlanInv, PlanTypeOK
<1>2. BegunIsActive' /\ IdentityExclusive' /\ AuthorityInOnePlace' /\ WakesInTime'
  BY DEF PlanInv, BegunIsActive, IdentityExclusive, AuthorityInOnePlace, WakesInTime, Holds
<1>3. NeverBeyondTTL'
  <2>1. HeldPlan' = HeldPlan
    BY DEF HeldPlan, Holds
  <2>2. /\ clock \in Nat /\ TTL \in Nat
        /\ retained # NoPlan => retained.expiresAt \in Nat
        /\ HeldPlan # NoPlan => HeldPlan.expiresAt \in Nat
    BY PlanAssumption, HeldByKind DEF PlanInv, PlanTypeOK, Plan, HeldPlan, Holds
  <2> QED BY <2>1, <2>2 DEF PlanInv, NeverBeyondTTL
<1>4. KnownTokens'
  BY DEF PlanInv, KnownTokens, HeldPlan, CreatedToken, Holds
<1> QED BY <1>1, <1>2, <1>3, <1>4 DEF PlanInv

LEMMA PlanInvBegin ==
  ASSUME PlanInv, nextOperation < MaxOperation,
         NEW request \in Request, NEW context \in Contexts, NEW now \in Sampled,
         Begin(request, context, now)
  PROVE  PlanInv'
<1>0. /\ Unexpired(now) \in {retained, NoPlan}
      /\ nextOperation + 1 \in 1..MaxOperation /\ nextOperation \in 0..MaxOperation
      /\ clock \in Nat
      /\ worker \in [state : {"waiting", "awake", "exited"}, until : Nat]
  BY UnexpiredFacts, PlanAssumption DEF PlanInv, PlanTypeOK
<1>1. CASE BeginRefused(request, context, now)
  BY <1>0, <1>1, ErasingStep
  DEF BeginRefused, PlanInv, PlanTypeOK, IdentityExclusive, WakesInTime
<1>2. CASE BeginUnauthentic(request, context, now)
  BY <1>0, <1>2, ErasingStep
  DEF BeginUnauthentic, PlanInv, PlanTypeOK, IdentityExclusive, WakesInTime
<1>3. CASE BeginCreate(request, context, now)
  <2>1. /\ ~identityChange /\ active = NoOperation /\ Unexpired(now) = NoPlan
        /\ request.kind = "create"
    BY <1>3, BeginAccepted DEF BeginCreate
  <2>2. begun' \in Begun /\ begun'.kind = "create" /\ begun'.token = NoToken
    BY <1>3, <2>1 DEF BeginCreate, Begun, Request
  <2>3. active' \in Operation /\ active' # NoOperation /\ begun' # NoOperation
    <3>1. active' \in Operation
      BY <1>0, <1>3 DEF BeginCreate, Operation
    <3> QED BY <3>1, <2>2, NotAnOperation
  <2>4. HeldPlan' = NoPlan /\ CreatedToken' = NoToken
    BY <2>2, <2>3 DEF HeldPlan, CreatedToken, Holds
  <2>5. PlanTypeOK'
    BY <1>0, <1>3, <2>1, <2>2, <2>3 DEF BeginCreate, PlanInv, PlanTypeOK
  <2>6. BegunIsActive' /\ IdentityExclusive' /\ AuthorityInOnePlace' /\ WakesInTime'
    BY <1>3, <2>1, <2>3
    DEF BeginCreate, BegunIsActive, IdentityExclusive, AuthorityInOnePlace, WakesInTime
  <2>7. NeverBeyondTTL' /\ KnownTokens'
    BY <1>3, <2>1, <2>4 DEF BeginCreate, NeverBeyondTTL, KnownTokens
  <2> QED BY <2>5, <2>6, <2>7 DEF PlanInv
<1>4. CASE BeginUse(request, context, now)
  <2>1. /\ ~identityChange /\ active = NoOperation /\ Unexpired(now) = retained
        /\ retained # NoPlan /\ retained \in Plan
        /\ request.kind \in {"apply", "discard"}
    BY <1>0, <1>4, BeginAccepted, Authenticated DEF BeginUse, Request, PlanInv, PlanTypeOK
  <2>2. begun' \in Begun /\ begun'.kind \in {"apply", "discard"} /\ begun'.plan = retained
    BY <1>4, <2>1 DEF BeginUse, Begun
  <2>3. active' \in Operation /\ active' # NoOperation /\ begun' # NoOperation
    <3>1. active' \in Operation
      BY <1>0, <1>4 DEF BeginUse, Operation
    <3> QED BY <3>1, <2>2, NotAnOperation
  <2>4. HeldPlan' = retained /\ CreatedToken' = NoToken
    BY <2>2, <2>3 DEF HeldPlan, CreatedToken, Holds
  <2>5. PlanTypeOK'
    BY <1>0, <1>4, <2>1, <2>2, <2>3 DEF BeginUse, PlanInv, PlanTypeOK
  <2>6. BegunIsActive' /\ IdentityExclusive' /\ AuthorityInOnePlace' /\ WakesInTime'
    BY <1>4, <2>1, <2>3
    DEF BeginUse, BegunIsActive, IdentityExclusive, AuthorityInOnePlace, WakesInTime
  <2>7. NeverBeyondTTL' /\ KnownTokens'
    BY <1>4, <2>1, <2>4 DEF BeginUse, PlanInv, NeverBeyondTTL, KnownTokens
  <2> QED BY <2>5, <2>6, <2>7 DEF PlanInv
<1> QED BY <1>1, <1>2, <1>3, <1>4 DEF Begin

LEMMA PlanInvRetainCreated ==
  ASSUME PlanInv, NEW context \in Contexts, NEW now \in Sampled,
         RetainCreated(context, now)
  PROVE  PlanInv'
<1>1. /\ begun \in Begun /\ begun.kind = "create" /\ begun.token \in Tokens
      /\ begun.token = CreatedToken /\ begun.token \in minted
      /\ active # NoOperation /\ retained = NoPlan /\ ~identityChange
  BY HeldByKind DEF RetainCreated, PlanInv, PlanTypeOK, CreatedToken, Holds, BegunIsActive,
     AuthorityInOnePlace, IdentityExclusive, KnownTokens
<1>2. /\ begun' = [kind |-> "settled"] /\ begun' \in Begun /\ begun' # NoOperation
      /\ HeldPlan' = NoPlan /\ CreatedToken' = NoToken /\ ~Holds({"apply", "discard", "create"})'
  <2>1. begun' = [kind |-> "settled"] /\ begun' \in Begun
    BY DEF RetainCreated, Begun
  <2> QED BY <2>1, NotAnOperation DEF HeldPlan, CreatedToken, Holds
<1>3. /\ clock \in Nat /\ now \in Nat /\ now <= clock /\ TTL \in Nat
      /\ context \in Context
  BY PlanAssumption DEF PlanInv, PlanTypeOK, Sampled
<1>4. CASE MayRetain(context)
  <2>1. /\ retained' \in Plan /\ retained'.token \in minted
        /\ retained'.expiresAt <= clock + TTL
    BY <1>1, <1>3, <1>4, HeldByKind DEF RetainCreated, Plan, Context
  <2>2. /\ worker' \in [state : {"waiting", "awake", "exited"}, until : Nat]
        /\ worker'.state # "waiting"
    BY <1>4, WorkerWoken DEF RetainCreated, PlanInv
  <2>3. PlanTypeOK'
    BY <1>2, <2>1, <2>2 DEF RetainCreated, PlanInv, PlanTypeOK
  <2>4. BegunIsActive' /\ IdentityExclusive' /\ AuthorityInOnePlace' /\ WakesInTime'
    BY <1>1, <1>2, <2>2
    DEF RetainCreated, BegunIsActive, IdentityExclusive, AuthorityInOnePlace, WakesInTime
  <2>5. NeverBeyondTTL' /\ KnownTokens'
    BY <1>2, <2>1 DEF RetainCreated, NeverBeyondTTL, KnownTokens
  <2> QED BY <2>3, <2>4, <2>5 DEF PlanInv
<1>5. CASE ~MayRetain(context)
  <2>1. PlanTypeOK'
    BY <1>2, <1>5 DEF RetainCreated, PlanInv, PlanTypeOK
  <2>2. BegunIsActive' /\ IdentityExclusive' /\ AuthorityInOnePlace' /\ WakesInTime'
    BY <1>1, <1>2, <1>5
    DEF RetainCreated, BegunIsActive, IdentityExclusive, AuthorityInOnePlace, WakesInTime
  <2>3. NeverBeyondTTL' /\ KnownTokens'
    BY <1>1, <1>2, <1>5 DEF RetainCreated, NeverBeyondTTL, KnownTokens
  <2> QED BY <2>1, <2>2, <2>3 DEF PlanInv
<1> QED BY <1>4, <1>5

LEMMA PlanInvRestore ==
  ASSUME PlanInv, NEW context \in Contexts, RestoreUnwrittenApply(context)
  PROVE  PlanInv'
<1>1. /\ begun.plan \in Plan /\ begun.plan = HeldPlan /\ begun.plan # NoPlan
      /\ active # NoOperation /\ retained = NoPlan /\ ~identityChange
      /\ begun.plan.token \in minted /\ begun.plan.expiresAt <= clock + TTL
  <2>1. begun \in Begun /\ begun.kind = "apply" /\ begun # NoOperation
    BY DEF RestoreUnwrittenApply, PlanInv, PlanTypeOK, Holds
  <2>2. begun.plan \in Plan /\ begun.plan = HeldPlan
    BY <2>1, HeldByKind DEF HeldPlan, Holds
  <2>3. begun.plan # NoPlan
    BY <2>2, PlanAssumption
  <2> QED BY <2>1, <2>2, <2>3 DEF PlanInv, Holds, BegunIsActive,
       AuthorityInOnePlace, IdentityExclusive, KnownTokens, NeverBeyondTTL
<1>2. /\ begun' = [kind |-> "settled"] /\ begun' \in Begun /\ begun' # NoOperation
      /\ HeldPlan' = NoPlan /\ CreatedToken' = NoToken /\ ~Holds({"apply", "discard", "create"})'
  <2>1. begun' = [kind |-> "settled"] /\ begun' \in Begun
    BY DEF RestoreUnwrittenApply, Begun
  <2> QED BY <2>1, NotAnOperation DEF HeldPlan, CreatedToken, Holds
<1>3. CASE MayRestore(context)
  <2>1. retained' = begun.plan
    BY <1>3 DEF RestoreUnwrittenApply
  <2>2. /\ worker' \in [state : {"waiting", "awake", "exited"}, until : Nat]
        /\ worker'.state # "waiting"
    BY <1>3, WorkerWoken DEF RestoreUnwrittenApply, PlanInv
  <2>3. PlanTypeOK'
    BY <1>1, <1>2, <2>1, <2>2 DEF RestoreUnwrittenApply, PlanInv, PlanTypeOK
  <2>4. BegunIsActive' /\ IdentityExclusive' /\ AuthorityInOnePlace' /\ WakesInTime'
    BY <1>1, <1>2, <2>2
    DEF RestoreUnwrittenApply, BegunIsActive, IdentityExclusive, AuthorityInOnePlace, WakesInTime
  <2>5. NeverBeyondTTL' /\ KnownTokens'
    BY <1>1, <1>2, <2>1 DEF RestoreUnwrittenApply, NeverBeyondTTL, KnownTokens
  <2> QED BY <2>3, <2>4, <2>5 DEF PlanInv
<1>4. CASE ~MayRestore(context)
  <2>1. PlanTypeOK'
    BY <1>2, <1>4 DEF RestoreUnwrittenApply, PlanInv, PlanTypeOK
  <2>2. BegunIsActive' /\ IdentityExclusive' /\ AuthorityInOnePlace' /\ WakesInTime'
    BY <1>1, <1>2, <1>4
    DEF RestoreUnwrittenApply, BegunIsActive, IdentityExclusive, AuthorityInOnePlace, WakesInTime
  <2>3. NeverBeyondTTL' /\ KnownTokens'
    BY <1>1, <1>2, <1>4 DEF RestoreUnwrittenApply, NeverBeyondTTL, KnownTokens
  <2> QED BY <2>1, <2>2, <2>3 DEF PlanInv
<1> QED BY <1>3, <1>4

LEMMA PlanInvMint ==
  ASSUME PlanInv, NEW token \in Tokens, SidecarMints(token)
  PROVE  PlanInv'
<1>1. begun \in Begun /\ begun.kind = "create" /\ begun # NoOperation
  BY DEF SidecarMints, PlanInv, PlanTypeOK, Holds
<1>2. begun' \in Begun /\ begun'.kind = "create" /\ begun'.token = token
  BY <1>1 DEF SidecarMints, Begun
<1>3. begun' # NoOperation
  BY <1>2, NotAnOperation
<1>4. HeldPlan' = NoPlan /\ CreatedToken' = token /\ retained = NoPlan
  BY <1>1, <1>2, <1>3 DEF HeldPlan, CreatedToken, Holds, PlanInv, AuthorityInOnePlace
<1>5. PlanTypeOK'
  BY <1>2 DEF SidecarMints, innerVars, PlanInv, PlanTypeOK
<1>6. BegunIsActive' /\ IdentityExclusive' /\ AuthorityInOnePlace' /\ WakesInTime'
  BY <1>1, <1>3, <1>4 DEF SidecarMints, innerVars, PlanInv, BegunIsActive, IdentityExclusive,
     AuthorityInOnePlace, WakesInTime
<1>7. NeverBeyondTTL' /\ KnownTokens'
  BY <1>4 DEF SidecarMints, innerVars, NeverBeyondTTL, KnownTokens
<1> QED BY <1>5, <1>6, <1>7 DEF PlanInv

LEMMA PlanInvFinish ==
  ASSUME PlanInv, Finish
  PROVE  PlanInv'
<1>1. HeldPlan' = NoPlan /\ CreatedToken' = NoToken
  BY DEF Finish, HeldPlan, CreatedToken, Holds
<1>2. PlanTypeOK'
  BY DEF Finish, PlanInv, PlanTypeOK
<1>3. BegunIsActive' /\ IdentityExclusive' /\ AuthorityInOnePlace' /\ WakesInTime'
  BY DEF Finish, PlanInv, BegunIsActive, IdentityExclusive, AuthorityInOnePlace,
     WakesInTime, Holds
<1>4. NeverBeyondTTL' /\ KnownTokens'
  BY <1>1 DEF Finish, PlanInv, NeverBeyondTTL, KnownTokens
<1> QED BY <1>2, <1>3, <1>4 DEF PlanInv

\* Cancelling marks the active operation and moves no authority.
LEMMA CancellingStep ==
  ASSUME PlanInv,
         active' \in Operation \cup {NoOperation},
         active' = NoOperation <=> active = NoOperation,
         retained' \in {retained, NoPlan},
         UNCHANGED <<nextOperation, identityChange, shutdown, begun, clock, minted>>,
         worker' = worker \/ WakeWorker
  PROVE  PlanInv'
<1>1. /\ worker' \in [state : {"waiting", "awake", "exited"}, until : Nat]
      /\ worker' = worker \/ worker'.state # "waiting"
  BY WorkerWoken DEF PlanInv, PlanTypeOK
<1>2. PlanTypeOK'
  BY <1>1 DEF PlanInv, PlanTypeOK
<1>3. BegunIsActive' /\ IdentityExclusive' /\ AuthorityInOnePlace' /\ WakesInTime'
  BY <1>1 DEF PlanInv, BegunIsActive, IdentityExclusive, AuthorityInOnePlace, WakesInTime, Holds
<1>4. NeverBeyondTTL' /\ KnownTokens'
  BY DEF PlanInv, NeverBeyondTTL, KnownTokens, HeldPlan, CreatedToken, Holds
<1> QED BY <1>2, <1>3, <1>4 DEF PlanInv

LEMMA PlanInvExpiryTurn ==
  ASSUME PlanInv, ExpiryTurn
  PROVE  PlanInv'
<1>1. CASE shutdown
  <2>1. /\ worker' \in [state : {"waiting", "awake", "exited"}, until : Nat]
        /\ worker'.state = "exited"
    BY <1>1 DEF ExpiryTurn, PlanInv, PlanTypeOK
  <2> QED BY <1>1, <2>1, ErasingStep DEF ExpiryTurn, PlanInv, PlanTypeOK, IdentityExclusive
<1>2. CASE ~shutdown
  <2>1. /\ retained' = Unexpired(clock) /\ retained' \in {retained, NoPlan}
        /\ worker' = [state |-> "waiting",
                       until |-> IF Unexpired(clock) = NoPlan THEN clock + Idle
                                 ELSE Unexpired(clock).expiresAt]
    BY <1>2, UnexpiredFacts DEF ExpiryTurn
  <2>2. /\ clock \in Nat /\ Idle \in Nat
        /\ retained # NoPlan => retained.expiresAt \in Nat
    BY PlanAssumption DEF PlanInv, PlanTypeOK, Plan
  <2>3. worker' \in [state : {"waiting", "awake", "exited"}, until : Nat]
    BY <2>1, <2>2
  <2>4. retained' # NoPlan => worker'.until = retained.expiresAt
    BY <2>1
  <2> QED BY <2>1, <2>2, <2>3, <2>4, ErasingStep
          DEF ExpiryTurn, PlanInv, PlanTypeOK, IdentityExclusive
<1> QED BY <1>1, <1>2

LEMMA PlanInvNext == PlanInv /\ [PlanNext]_planVars => PlanInv'
<1> SUFFICES ASSUME PlanInv, [PlanNext]_planVars PROVE PlanInv'
  OBVIOUS
<1>0. /\ clock \in Nat /\ retained \in {retained, NoPlan}
      /\ nextOperation \in 0..MaxOperation /\ identityChange \in BOOLEAN /\ shutdown \in BOOLEAN
      /\ worker \in [state : {"waiting", "awake", "exited"}, until : Nat]
  BY DEF PlanInv, PlanTypeOK
<1>1. ASSUME nextOperation < MaxOperation,
             NEW request \in Request, NEW context \in Contexts, NEW now \in Sampled,
             Begin(request, context, now)
      PROVE  PlanInv'
  BY <1>1, PlanInvBegin
<1>2. ASSUME NEW op \in 1..MaxOperation, Cancel(op) PROVE PlanInv'
  <2>1. active' \in Operation /\ active' # NoOperation
    <3>1. active' \in Operation
      BY <1>2 DEF Cancel, Operation, PlanInv, PlanTypeOK
    <3> QED BY <3>1, NotAnOperation
  <2> QED BY <1>2, <2>1, CancellingStep DEF Cancel
<1>3. ASSUME NEW token \in Tokens, SidecarMints(token) PROVE PlanInv'
  BY <1>3, PlanInvMint
<1>4. ASSUME NEW context \in Contexts, NEW now \in Sampled, RetainCreated(context, now)
      PROVE  PlanInv'
  BY <1>4, PlanInvRetainCreated
<1>5. ASSUME NEW context \in Contexts, RestoreUnwrittenApply(context) PROVE PlanInv'
  BY <1>5, PlanInvRestore
<1>6. CASE Finish
  BY <1>6, PlanInvFinish
<1>7. CASE InvalidateAll
  <2>1. active' \in Operation \cup {NoOperation} /\ (active' = NoOperation <=> active = NoOperation)
    BY <1>7, CancelledType DEF InvalidateAll, PlanInv
  <2> QED BY <1>7, <2>1, CancellingStep DEF InvalidateAll
<1>8. CASE BeginIdentityChange
  BY <1>0, <1>8, ErasingStep DEF BeginIdentityChange
<1>9. CASE IdentityChangeRefused
  BY <1>0, <1>9, UnexpiredFacts, ErasingStep
  DEF IdentityChangeRefused, PlanInv, IdentityExclusive, WakesInTime
<1>10. CASE EndIdentityChange
  <2>1. /\ worker' \in [state : {"waiting", "awake", "exited"}, until : Nat]
        /\ worker'.state # "waiting"
    BY <1>10, WorkerWoken DEF EndIdentityChange, PlanInv
  <2>2. identityChange' \in BOOLEAN /\ ~identityChange'
    BY <1>10 DEF EndIdentityChange
  <2> QED BY <1>0, <1>10, <2>1, <2>2, ErasingStep DEF EndIdentityChange
<1>11. CASE Drop
  <2>1. /\ worker' \in [state : {"waiting", "awake", "exited"}, until : Nat]
        /\ worker'.state # "waiting"
    BY <1>11, WorkerWoken DEF Drop, PlanInv
  <2>2. retained' = NoPlan /\ shutdown' \in BOOLEAN /\ identityChange' \in BOOLEAN
    BY <1>0, <1>11 DEF Drop
  <2> QED BY <1>0, <1>11, <2>1, <2>2, ErasingStep DEF Drop
<1>12. CASE ExpiryTurn
  BY <1>12, PlanInvExpiryTurn
<1>13. CASE Tick
  <2>1. clock' \in Nat /\ clock' >= clock
    BY <1>0, <1>13 DEF Tick
  <2> QED BY <1>0, <1>13, <2>1, ErasingStep
          DEF Tick, innerVars, PlanInv, IdentityExclusive, WakesInTime
<1>14. CASE UNCHANGED planVars
  BY <1>0, <1>14, ErasingStep
  DEF planVars, innerVars, PlanInv, IdentityExclusive, WakesInTime
<1>15. CASE ~shutdown /\ Call
  <2>1. CASE /\ nextOperation < MaxOperation
             /\ \E request \in Request, context \in Contexts, now \in Sampled :
                  Begin(request, context, now)
    BY <2>1, <1>1, Zenon
  <2>2. CASE \E op \in 1..MaxOperation : Cancel(op)
    BY <2>2, <1>2, Zenon
  <2>3. CASE \E token \in Tokens : SidecarMints(token)
    BY <2>3, <1>3, Zenon
  <2>4. CASE \E context \in Contexts, now \in Sampled : RetainCreated(context, now)
    BY <2>4, <1>4, Zenon
  <2>5. CASE \E context \in Contexts : RestoreUnwrittenApply(context)
    BY <2>5, <1>5, Zenon
  <2> QED BY <1>15, <2>1, <2>2, <2>3, <2>4, <2>5, <1>6, <1>7, <1>8, <1>9, Zenon DEF Call
<1> QED BY <1>10, <1>11, <1>12, <1>13, <1>14, <1>15 DEF PlanNext

LEMMA PlanInvariance == PlanSafety => []PlanInv
<1> QED BY PlanInvInit, PlanInvNext, PTL DEF PlanSafety

-----------------------------------------------------------------------------

\* The coordinator's state keeps its shape, whatever the sessions, the clock
\* and the order of the calls.
THEOREM PlanTypeCorrect == PlanSafety => []PlanTypeOK
<1>1. PlanInv => PlanTypeOK
  BY DEF PlanInv
<1> QED BY <1>1, PlanInvariance, PTL

\* The project is never replaced under a running operation or a retained plan.
THEOREM IdentityAlwaysExclusive == PlanSafety => []IdentityExclusive
<1>1. PlanInv => IdentityExclusive
  BY DEF PlanInv
<1> QED BY <1>1, PlanInvariance, PTL

\* A plan in use is never retained as well.
THEOREM AuthorityStaysInOnePlace == PlanSafety => []AuthorityInOnePlace
<1>1. PlanInv => AuthorityInOnePlace
  BY DEF PlanInv
<1> QED BY <1>1, PlanInvariance, PTL

\* The expiry thread never sleeps past the deadline of what is retained.
THEOREM ExpiryThreadWakesInTime == PlanSafety => []WakesInTime
<1>1. PlanInv => WakesInTime
  BY DEF PlanInv
<1> QED BY <1>1, PlanInvariance, PTL

\* Restoring a plan, or waiting for the mutex, never prolongs it.
THEOREM NeverProlonged == PlanSafety => []NeverBeyondTTL
<1>1. PlanInv => NeverBeyondTTL
  BY DEF PlanInv
<1> QED BY <1>1, PlanInvariance, PTL

-----------------------------------------------------------------------------
(***************************************************************************)
(* The refinement.                                                         *)
(*                                                                         *)
(* PlanCoordinator implements PlanAuthority, for any tokens and sessions:  *)
(* PlanInv tells where the one live token                                  *)
(* is, and each critical section of the coordinator moves it by at most    *)
(* one step of the abstract specification.                                 *)
(***************************************************************************)

\* At most one token is live, and every place names a minted token or none.
LEMMA OneLiveToken ==
  ASSUME PlanInv
  PROVE  /\ RetainedToken \in Tokens \cup {NoToken}
         /\ RetainedToken # NoToken => RetainedToken \in minted
         /\ HeldToken \in Tokens \cup {NoToken}
         /\ HeldToken # NoToken => HeldToken \in minted
         /\ CreatedToken \in Tokens \cup {NoToken}
         /\ CreatedToken # NoToken => CreatedToken \in minted
         /\ RetainedToken = NoToken <=> retained = NoPlan
         /\ HeldToken = NoToken <=> HeldPlan = NoPlan
         /\ RetainedToken # NoToken => HeldToken = NoToken /\ CreatedToken = NoToken
         /\ HeldToken # NoToken => CreatedToken = NoToken
         /\ NoToken \notin Tokens
<1>1. retained # NoPlan => retained.token \in Tokens /\ retained.token \in minted
  BY DEF PlanInv, PlanTypeOK, Plan, KnownTokens
<1>2. HeldPlan # NoPlan => HeldPlan \in Plan /\ HeldPlan.token \in minted
  BY HeldByKind DEF PlanInv, PlanTypeOK, KnownTokens, HeldPlan, Holds
<1>3. CreatedToken # NoToken => CreatedToken \in Tokens /\ CreatedToken \in minted
  BY HeldByKind DEF PlanInv, PlanTypeOK, KnownTokens, CreatedToken, Holds
<1>4. HeldPlan # NoPlan => CreatedToken = NoToken
  BY DEF HeldPlan, CreatedToken, Holds
<1>5. retained # NoPlan => HeldPlan = NoPlan /\ CreatedToken = NoToken
  BY DEF PlanInv, AuthorityInOnePlace, HeldPlan, CreatedToken, Holds
<1>6. NoToken \notin Tokens
  BY PlanAssumption
<1>7. \A plan \in Plan : plan.token \in Tokens
  BY DEF Plan
<1> QED BY <1>1, <1>2, <1>3, <1>4, <1>5, <1>6, <1>7 DEF RetainedToken, HeldToken

\* Steps of the mapped state, from what happens to each token.
LEMMA StatusStutters ==
  ASSUME \A t \in Tokens : StatusOf(t)' = StatusOf(t)
  PROVE  Status' = Status
BY DEF Status

LEMMA StatusMoves ==
  ASSUME NEW token \in Tokens, NEW from, NEW to,
         StatusOf(token) \in from, StatusOf(token)' = to,
         \A t \in Tokens \ {token} : StatusOf(t)' = StatusOf(t)
  PROVE  Authority!Move(token, from, to)
BY DEF Status, Authority!Move

\* Erasing the retained plan spends it.
LEMMA ErasingSpends ==
  ASSUME PlanInv, PlanInv',
         retained' \in {retained, NoPlan},
         HeldToken' = HeldToken, CreatedToken' = CreatedToken, minted' = minted
  PROVE  Authority!AuthorityNext \/ Status' = Status
<1>1. CASE retained' = retained
  BY <1>1, StatusStutters DEF StatusOf, RetainedToken
<1>2. CASE retained' = NoPlan /\ retained # NoPlan
  <2>1. /\ RetainedToken \in Tokens /\ RetainedToken \in minted
        /\ RetainedToken' = NoToken /\ HeldToken = NoToken /\ CreatedToken = NoToken
        /\ NoToken \notin Tokens
    BY <1>2, OneLiveToken DEF RetainedToken
  <2>2. PICK token \in Tokens : token = RetainedToken
    BY <2>1
  <2>3. /\ StatusOf(token) = "retained" /\ StatusOf(token)' = "spent"
        /\ \A t \in Tokens \ {token} : StatusOf(t)' = StatusOf(t)
    BY <2>1, <2>2 DEF StatusOf
  <2>4. Authority!Spend(token)
    BY <2>3, StatusMoves DEF Authority!Spend
  <2> QED BY <2>1, <2>4 DEF Authority!AuthorityNext
<1> QED BY <1>1, <1>2

\* Nothing is live while nothing is retained or held.
LEMMA NoneLive ==
  ASSUME RetainedToken = NoToken, HeldToken = NoToken, NoToken \notin Tokens
  PROVE  Authority!Live = {}
BY DEF Authority!Live, Status, StatusOf

LEMMA BeginImplements ==
  ASSUME PlanInv, PlanInv',
         NEW request \in Request, NEW context \in Contexts, NEW now \in Sampled,
         Begin(request, context, now)
  PROVE  Authority!AuthorityNext \/ Status' = Status
<1>1. CASE BeginRefused(request, context, now) \/ BeginUnauthentic(request, context, now)
  <2>1. retained' \in {retained, NoPlan} /\ begun' = begun /\ minted' = minted
    BY <1>1, UnexpiredFacts DEF BeginRefused, BeginUnauthentic
  <2>2. HeldToken' = HeldToken /\ CreatedToken' = CreatedToken
    BY <2>1 DEF HeldToken, HeldPlan, CreatedToken, Holds
  <2> QED BY <2>1, <2>2, ErasingSpends
<1>2. CASE BeginCreate(request, context, now)
  <2>1. retained' \in {retained, NoPlan} /\ minted' = minted /\ begun = NoOperation
    BY <1>2, UnexpiredFacts, BeginAccepted DEF BeginCreate, PlanInv, BegunIsActive
  <2>2. begun'.kind = "create" /\ begun'.token = NoToken
    BY <1>2 DEF BeginCreate
  <2>3. HeldToken' = HeldToken /\ CreatedToken' = CreatedToken
    BY <2>1, <2>2 DEF HeldToken, HeldPlan, CreatedToken, Holds
  <2> QED BY <2>1, <2>3, ErasingSpends
<1>3. CASE BeginUse(request, context, now)
  <2>1. /\ begun = NoOperation /\ minted' = minted /\ retained' = NoPlan
        /\ Unexpired(now) = retained /\ retained # NoPlan /\ begun'.plan = retained
        /\ begun'.kind \in {"apply", "discard"}
    BY <1>3, UnexpiredFacts, BeginAccepted, Authenticated
    DEF BeginUse, PlanInv, BegunIsActive, Request
  <2>2. begun' # NoOperation
    BY <1>3, <2>1 DEF BeginUse, PlanInv, PlanTypeOK, BegunIsActive, Holds,
       AuthorityInOnePlace
  <2>3. HeldToken' = RetainedToken /\ CreatedToken' = CreatedToken /\ RetainedToken' = NoToken
    BY <2>1, <2>2 DEF HeldToken, HeldPlan, CreatedToken, Holds, RetainedToken
  <2>4. RetainedToken \in Tokens /\ HeldToken = NoToken /\ NoToken \notin Tokens
    BY <2>1, OneLiveToken
  <2>5. Authority!Take(RetainedToken)
    BY <2>1, <2>3, <2>4, StatusMoves DEF StatusOf, Authority!Take
  <2> QED BY <2>4, <2>5 DEF Authority!AuthorityNext
<1> QED BY <1>1, <1>2, <1>3 DEF Begin

LEMMA MintImplements ==
  ASSUME PlanInv, PlanInv', NEW token \in Tokens, SidecarMints(token)
  PROVE  Status' = Status
<1>1. /\ CreatedToken = NoToken /\ CreatedToken' = token
      /\ RetainedToken' = RetainedToken /\ HeldToken' = HeldToken
      /\ minted' = minted \cup {token} /\ token \notin minted
  <2>1. /\ begun # NoOperation /\ begun.kind = "create" /\ begun.token = NoToken
        /\ begun' = [begun EXCEPT !.token = token] /\ begun \in Begun
        /\ retained' = retained /\ active' = active
    BY DEF SidecarMints, innerVars, Holds, PlanInv, PlanTypeOK
  <2>2. begun' # NoOperation
    BY <2>1 DEF PlanInv, BegunIsActive
  <2>3. begun'.kind = "create" /\ begun'.token = token
    BY <2>1 DEF Begun
  <2>4. HeldPlan = NoPlan /\ HeldPlan' = NoPlan
    BY <2>1, <2>3 DEF HeldPlan, Holds
  <2> QED BY <2>1, <2>2, <2>3, <2>4
          DEF SidecarMints, CreatedToken, RetainedToken, HeldToken, Holds
<1>2. NoToken \notin Tokens /\ RetainedToken # token /\ HeldToken # token
  BY <1>1, OneLiveToken
<1> QED BY <1>1, <1>2, StatusStutters DEF StatusOf

LEMMA RetainImplements ==
  ASSUME PlanInv, PlanInv', NEW context \in Contexts, NEW now \in Sampled,
         RetainCreated(context, now)
  PROVE  Authority!AuthorityNext
<1>1. /\ CreatedToken \in Tokens /\ CreatedToken \in minted /\ minted' = minted
      /\ RetainedToken = NoToken /\ HeldToken = NoToken /\ NoToken \notin Tokens
  BY OneLiveToken DEF RetainCreated
<1>2. HeldToken' = NoToken /\ CreatedToken' = NoToken
  BY DEF RetainCreated, HeldToken, HeldPlan, CreatedToken, Holds
<1>3. StatusOf(CreatedToken) = "unknown" /\ Authority!Live = {}
  BY <1>1, NoneLive DEF StatusOf
<1>4. CASE MayRetain(context)
  <2>1. retained'.token = CreatedToken /\ retained' # NoPlan
    <3>1. retained'.token = CreatedToken
      BY <1>1, <1>4 DEF RetainCreated, CreatedToken
    <3>2. retained' \in Plan
      BY <1>4, HeldByKind, PlanAssumption
      DEF RetainCreated, PlanInv, PlanTypeOK, Plan, Context, Sampled, CreatedToken, Holds
    <3> QED BY <3>1, <3>2, PlanAssumption
  <2>2. RetainedToken' = CreatedToken
    BY <2>1 DEF RetainedToken
  <2>3. Authority!Issue(CreatedToken)
    BY <1>1, <1>2, <1>3, <2>2, StatusMoves DEF StatusOf, Authority!Issue
  <2> QED BY <1>1, <2>3 DEF Authority!AuthorityNext
<1>5. CASE ~MayRetain(context)
  <2>1. RetainedToken' = NoToken
    BY <1>1, <1>5 DEF RetainCreated, RetainedToken
  <2>2. Authority!Refuse(CreatedToken)
    BY <1>1, <1>2, <1>3, <2>1, StatusMoves DEF StatusOf, Authority!Refuse
  <2> QED BY <1>1, <2>2 DEF Authority!AuthorityNext
<1> QED BY <1>4, <1>5

LEMMA RestoreImplements ==
  ASSUME PlanInv, PlanInv', NEW context \in Contexts, RestoreUnwrittenApply(context)
  PROVE  Authority!AuthorityNext
<1>1. HeldPlan # NoPlan /\ HeldPlan = begun.plan
  <2>1. begun \in Begun /\ begun.kind = "apply" /\ begun # NoOperation
    BY DEF RestoreUnwrittenApply, PlanInv, PlanTypeOK, Holds
  <2>2. begun.plan \in Plan /\ HeldPlan = begun.plan
    BY <2>1, HeldByKind DEF HeldPlan, Holds
  <2> QED BY <2>2, PlanAssumption
<1>2. /\ HeldToken \in Tokens /\ HeldToken \in minted /\ minted' = minted
      /\ RetainedToken = NoToken /\ CreatedToken = NoToken /\ NoToken \notin Tokens
  BY <1>1, OneLiveToken DEF RestoreUnwrittenApply
<1>3. HeldToken' = NoToken /\ CreatedToken' = NoToken
  BY DEF RestoreUnwrittenApply, HeldToken, HeldPlan, CreatedToken, Holds
<1>4. StatusOf(HeldToken) = "held"
  BY <1>2 DEF StatusOf
<1>5. CASE MayRestore(context)
  <2>1. RetainedToken' = HeldToken
    BY <1>1, <1>5 DEF RestoreUnwrittenApply, RetainedToken, HeldToken
  <2>2. Authority!Return(HeldToken)
    BY <1>2, <1>3, <1>4, <2>1, StatusMoves DEF StatusOf, Authority!Return
  <2> QED BY <1>2, <2>2 DEF Authority!AuthorityNext
<1>6. CASE ~MayRestore(context)
  <2>1. RetainedToken' = NoToken
    BY <1>2, <1>6 DEF RestoreUnwrittenApply, RetainedToken
  <2>2. Authority!Spend(HeldToken)
    BY <1>2, <1>3, <1>4, <2>1, StatusMoves DEF StatusOf, Authority!Spend
  <2> QED BY <1>2, <2>2 DEF Authority!AuthorityNext
<1> QED BY <1>5, <1>6

LEMMA FinishImplements ==
  ASSUME PlanInv, PlanInv', Finish
  PROVE  Authority!AuthorityNext \/ Status' = Status
<1>1. /\ HeldToken' = NoToken /\ CreatedToken' = NoToken /\ minted' = minted
      /\ RetainedToken' = RetainedToken /\ NoToken \notin Tokens
  BY OneLiveToken DEF Finish, HeldToken, HeldPlan, CreatedToken, Holds, RetainedToken
<1>2. CASE HeldToken # NoToken
  <2>1. /\ HeldToken \in Tokens /\ HeldToken \in minted
        /\ RetainedToken = NoToken /\ CreatedToken = NoToken
    BY <1>2, OneLiveToken
  <2>2. Authority!Spend(HeldToken)
    BY <1>1, <2>1, StatusMoves DEF StatusOf, Authority!Spend
  <2> QED BY <2>1, <2>2 DEF Authority!AuthorityNext
<1>3. CASE CreatedToken # NoToken
  <2>1. /\ CreatedToken \in Tokens /\ CreatedToken \in minted
        /\ RetainedToken = NoToken /\ HeldToken = NoToken
    BY <1>3, OneLiveToken
  <2>2. Authority!Refuse(CreatedToken)
    BY <1>1, <2>1, StatusMoves DEF StatusOf, Authority!Refuse
  <2> QED BY <2>1, <2>2 DEF Authority!AuthorityNext
<1>4. CASE HeldToken = NoToken /\ CreatedToken = NoToken
  BY <1>1, <1>4, StatusStutters DEF StatusOf
<1> QED BY <1>2, <1>3, <1>4

LEMMA NextImplements ==
  ASSUME PlanInv, PlanInv', [PlanNext]_planVars
  PROVE  Authority!AuthorityNext \/ Status' = Status
<1>1. ASSUME UNCHANGED <<begun, minted>>, retained' \in {retained, NoPlan}
      PROVE  Authority!AuthorityNext \/ Status' = Status
  <2>1. HeldToken' = HeldToken /\ CreatedToken' = CreatedToken
    BY <1>1 DEF HeldToken, HeldPlan, CreatedToken, Holds
  <2> QED BY <1>1, <2>1, ErasingSpends
<1>2. CASE \E request \in Request, context \in Contexts, now \in Sampled :
             Begin(request, context, now)
  BY <1>2, BeginImplements
<1>3. CASE \E op \in 1..MaxOperation : Cancel(op)
  BY <1>1, <1>3 DEF Cancel
<1>4. CASE \E token \in Tokens : SidecarMints(token)
  BY <1>4, MintImplements
<1>5. CASE \E context \in Contexts, now \in Sampled : RetainCreated(context, now)
  BY <1>5, RetainImplements
<1>6. CASE \E context \in Contexts : RestoreUnwrittenApply(context)
  BY <1>6, RestoreImplements
<1>7. CASE Finish
  BY <1>7, FinishImplements
<1>8. CASE InvalidateAll \/ BeginIdentityChange \/ IdentityChangeRefused
  BY <1>1, <1>8, UnexpiredFacts DEF InvalidateAll, BeginIdentityChange, IdentityChangeRefused
<1>9. CASE EndIdentityChange \/ Drop \/ ExpiryTurn
  BY <1>1, <1>9, UnexpiredFacts DEF EndIdentityChange, Drop, ExpiryTurn
<1>10. CASE Tick \/ UNCHANGED planVars
  BY <1>1, <1>10 DEF Tick, planVars, innerVars
<1> QED BY <1>2, <1>3, <1>4, <1>5, <1>6, <1>7, <1>8, <1>9, <1>10, Zenon DEF PlanNext, Call

\* The coordinator grants single-use authority: a plan token is retained, held
\* by one operation, or spent, and what is spent never comes back.
THEOREM SingleUseAuthority == PlanSafety => ImplementsPlanAuthority
<1>1. PlanInit => Authority!AuthorityInit
  <2> SUFFICES ASSUME PlanInit PROVE Status = [t \in Tokens |-> "unknown"]
    BY DEF Authority!AuthorityInit
  <2>1. RetainedToken = NoToken /\ HeldToken = NoToken /\ minted = {} /\ NoToken \notin Tokens
    BY PlanAssumption DEF PlanInit, RetainedToken, HeldToken, HeldPlan, Holds
  <2> QED BY <2>1 DEF Status, StatusOf
<1>2. PlanInv /\ PlanInv' /\ [PlanNext]_planVars => [Authority!AuthorityNext]_Status
  BY NextImplements
<1> QED BY <1>1, <1>2, PlanInvariance, PTL
        DEF PlanSafety, ImplementsPlanAuthority, Authority!AuthoritySpec

\* A plan appears only from the running operation, and only while nobody has
\* cancelled it.
THEOREM OnlyLiveOperationsEverRetain == PlanSafety => OnlyLiveOperationsRetain
<1> DEFINE Live == retained' # NoPlan /\ retained' # retained
                     => retained = NoPlan /\ active # NoOperation /\ ~active.cancelled
<1>1. PlanInv /\ [PlanNext]_planVars => [Live]_planVars
  <2> SUFFICES ASSUME PlanInv, PlanNext, retained' # NoPlan, retained' # retained
               PROVE  retained = NoPlan /\ active # NoOperation /\ ~active.cancelled
    OBVIOUS
  <2>1. \/ \E context \in Contexts, now \in Sampled :
             RetainCreated(context, now) /\ MayRetain(context)
        \/ \E context \in Contexts : RestoreUnwrittenApply(context) /\ MayRestore(context)
    BY UnexpiredFacts DEF PlanNext, Call, Begin, BeginRefused, BeginUnauthentic, BeginCreate,
       BeginUse, Cancel, SidecarMints, innerVars, RetainCreated, RestoreUnwrittenApply, Finish,
       InvalidateAll, BeginIdentityChange, IdentityChangeRefused, EndIdentityChange, Drop,
       ExpiryTurn, Tick
  <2>2. begun # NoOperation
    BY <2>1 DEF RetainCreated, RestoreUnwrittenApply, CreatedToken, Holds
  <2> QED BY <2>1, <2>2 DEF MayRetain, MayRestore, PlanInv, BegunIsActive
<1> QED BY <1>1, PlanInvariance, PTL DEF PlanSafety, OnlyLiveOperationsRetain

\* A plan moves between the coordinator and an operation as it is: nothing on
\* its way changes its session, its contents or its deadline.
THEOREM PlansStayWhole == PlanSafety => PlansKeptWhole
<1> DEFINE Whole == \A old \in {retained, HeldPlan} \ {NoPlan},
                      new \in {retained', HeldPlan'} \ {NoPlan} :
                      new.token = old.token => new = old
<1>1. PlanInv /\ [PlanNext]_planVars => [Whole]_planVars
  <2> SUFFICES ASSUME PlanInv, PlanNext,
                      NEW old \in {retained, HeldPlan} \ {NoPlan},
                      NEW new \in {retained', HeldPlan'} \ {NoPlan}
               PROVE  new = old
    OBVIOUS
  <2>1. retained = NoPlan \/ HeldPlan = NoPlan
    BY DEF PlanInv, AuthorityInOnePlace, HeldPlan, Holds
  <2>2. CASE retained' \in {retained, NoPlan} /\ HeldPlan' \in {HeldPlan, NoPlan}
    BY <2>1, <2>2
  <2>3. CASE \E request \in Request, context \in Contexts, now \in Sampled :
               BeginUse(request, context, now)
    <3>1. retained' = NoPlan /\ HeldPlan' \in {retained, NoPlan}
      BY <2>3, UnexpiredFacts DEF BeginUse, HeldPlan, Holds
    <3>2. HeldPlan = NoPlan
      BY <2>3, BeginAccepted DEF BeginUse, HeldPlan, Holds, PlanInv, BegunIsActive
    <3> QED BY <3>1, <3>2
  <2>4. CASE \E context \in Contexts, now \in Sampled :
               RetainCreated(context, now) /\ MayRetain(context)
    BY <2>4 DEF RetainCreated, MayRetain, CreatedToken, HeldPlan, Holds
  <2>5. CASE \E context \in Contexts :
               RestoreUnwrittenApply(context) /\ MayRestore(context)
    <3>1. retained = NoPlan /\ retained' = HeldPlan /\ HeldPlan' = NoPlan
      BY <2>5 DEF RestoreUnwrittenApply, MayRestore, HeldPlan, Holds
    <3> QED BY <3>1
  <2>6. CASE begun' = begun /\ retained' \in {retained, NoPlan}
    BY <2>2, <2>6 DEF HeldPlan, Holds
  <2>7. CASE Call
    <3>1. ASSUME NEW request \in Request, NEW context \in Contexts, NEW now \in Sampled,
                 BeginRefused(request, context, now) \/ BeginUnauthentic(request, context, now)
          PROVE  new = old
      BY <2>6, <3>1, UnexpiredFacts DEF BeginRefused, BeginUnauthentic
    <3>2. ASSUME NEW request \in Request, NEW context \in Contexts, NEW now \in Sampled,
                 BeginCreate(request, context, now)
          PROVE  new = old
      BY <2>2, <3>2, UnexpiredFacts DEF BeginCreate, HeldPlan, Holds
    <3>3. ASSUME NEW token \in Tokens, SidecarMints(token)
          PROVE  new = old
      <4>1. begun'.kind = "create" /\ retained' = retained
        BY <3>3 DEF SidecarMints, innerVars, Holds, PlanInv, PlanTypeOK, Begun
      <4> QED BY <2>2, <4>1 DEF HeldPlan, Holds
    <3>4. ASSUME NEW context \in Contexts, NEW now \in Sampled,
                 RetainCreated(context, now), ~MayRetain(context)
          PROVE  new = old
      BY <2>2, <3>4 DEF RetainCreated, HeldPlan, Holds
    <3>5. ASSUME NEW context \in Contexts, RestoreUnwrittenApply(context), ~MayRestore(context)
          PROVE  new = old
      BY <2>2, <3>5 DEF RestoreUnwrittenApply, HeldPlan, Holds
    <3>6. CASE Finish
      BY <2>2, <3>6 DEF Finish, HeldPlan, Holds
    <3>7. CASE (\E op \in 1..MaxOperation : Cancel(op)) \/ InvalidateAll
               \/ BeginIdentityChange \/ IdentityChangeRefused
      BY <2>6, <3>7, UnexpiredFacts
      DEF Cancel, InvalidateAll, BeginIdentityChange, IdentityChangeRefused
    <3> QED BY <2>7, <2>3, <2>4, <2>5, <3>1, <3>2, <3>3, <3>4, <3>5, <3>6, <3>7
            DEF Call, Begin
  <2>8. CASE EndIdentityChange \/ Drop \/ ExpiryTurn \/ Tick
    BY <2>6, <2>8, UnexpiredFacts DEF EndIdentityChange, Drop, ExpiryTurn, Tick, innerVars
  <2> QED BY <2>7, <2>8 DEF PlanNext
<1> QED BY <1>1, PlanInvariance, PTL DEF PlanSafety, PlansKeptWhole

\* A plan is taken no later than its deadline, up to the wait for the mutex.
THEOREM TakenInTime == PlanSafety => TakenBeforeExpiry
<1> DEFINE Early == HeldPlan = NoPlan /\ HeldPlan' # NoPlan
                      => clock < HeldPlan'.expiresAt + Lag
<1>1. PlanInv /\ [PlanNext]_planVars => [Early]_planVars
  <2> SUFFICES ASSUME PlanInv, PlanNext, HeldPlan = NoPlan, HeldPlan' # NoPlan
               PROVE  clock < HeldPlan'.expiresAt + Lag
    OBVIOUS
  <2>1. begun' # begun /\ begun' # NoOperation /\ begun'.kind \in {"apply", "discard"}
        /\ HeldPlan' = begun'.plan
    BY DEF HeldPlan, Holds
  <2>2. PICK request \in Request, context \in Contexts, now \in Sampled :
             BeginUse(request, context, now)
    <3>1. ~ \E token \in Tokens : SidecarMints(token)
      BY <2>1 DEF SidecarMints, Holds, Begun, PlanInv, PlanTypeOK
    <3> QED BY <2>1, <3>1 DEF PlanNext, Call, Begin, BeginRefused, BeginUnauthentic, BeginCreate,
       Cancel, RetainCreated, RestoreUnwrittenApply, Finish,
       InvalidateAll, BeginIdentityChange, IdentityChangeRefused, EndIdentityChange, Drop,
       ExpiryTurn, Tick
  <2>3. HeldPlan' = Unexpired(now) /\ Unexpired(now) # NoPlan
    BY <2>1, <2>2 DEF BeginUse
  <2>4. HeldPlan' = retained /\ retained \in Plan /\ ~(now >= retained.expiresAt)
    BY <2>3, UnexpiredFacts DEF PlanInv, PlanTypeOK
  <2>5. /\ clock \in Nat /\ Lag \in Nat /\ retained.expiresAt \in Nat
        /\ now \in Nat /\ clock - now <= Lag
    BY <2>4, PlanAssumption DEF PlanInv, PlanTypeOK, Plan, Sampled
  <2> QED BY <2>4, <2>5
<1> QED BY <1>1, PlanInvariance, PTL DEF PlanSafety, TakenBeforeExpiry

-----------------------------------------------------------------------------
(***************************************************************************)
(* The host.                                                               *)
(*                                                                         *)
(* Proofs about PlanHost, for any callers, tokens, projects, sessions and  *)
(* number of operations. Every step of the host is a step of the plan      *)
(* coordinator, so its theorems hold of the host; what a caller owns is    *)
(* where its program counter says; and a token is applied at most once.    *)
(***************************************************************************)

\* What the coordinator may assume of its callers here: they are between begin
\* and the coordinator only with a context, and nobody has dropped it.
CapturedInTime == \A c \in Callers : pc[c] = "begin" => captured[c] \in Contexts

HostBase ==
  /\ PlanInv
  /\ HostTypeOK
  /\ CapturedInTime
  /\ ~shutdown

-----------------------------------------------------------------------------

LEMMA CurrentIsContext ==
  ASSUME HostTypeOK
  PROVE  Current \in Contexts
BY HostAssumption DEF HostTypeOK, Current

LEMMA NowIsSampled ==
  ASSUME clock \in Nat
  PROVE  clock \in Sampled
BY PlanAssumption DEF Sampled

LEMMA RunningOperation ==
  ASSUME PlanTypeOK, active # NoOperation
  PROVE  active.op \in 1..MaxOperation
BY DEF PlanTypeOK, Operation

\* One step of the host is at most one critical section of the coordinator.
LEMMA HostStepIsPlanStep ==
  ASSUME HostBase, HostNext
  PROVE  PlanNext \/ UNCHANGED planVars
<1>1. ~shutdown /\ PlanTypeOK /\ clock \in Sampled /\ Current \in Contexts
  BY CurrentIsContext, NowIsSampled DEF HostBase, PlanInv, PlanTypeOK
<1>2. ASSUME NEW c \in Callers, PlanStep(c)
      PROVE  PlanNext \/ UNCHANGED planVars
  <2>1. CASE BeginPlan(c)
    <3>1. PICK request \in Request : Begin(request, captured[c], clock)
      BY <2>1 DEF BeginPlan
    <3>2. captured[c] \in Contexts /\ nextOperation < MaxOperation
      BY <2>1 DEF BeginPlan, At, HostBase, CapturedInTime
    <3> QED BY <1>1, <3>1, <3>2 DEF PlanNext, Call
  <2>2. CASE AnnounceFails(c)
    <3>1. Cancel(active.op) /\ active # NoOperation
      BY <2>2 DEF AnnounceFails, Cancel
    <3> QED BY <1>1, <3>1, RunningOperation DEF PlanNext, Call
  <2>3. CASE Announce(c) \/ LockForPlan(c) \/ UseAnswered(c) \/ CallRejected(c)
             \/ CallFatal(c) \/ CallWithoutProcess(c) \/ Recheck(c)
    BY <2>3 DEF Announce, LockForPlan, UseAnswered, CallRejected, CallFatal,
       CallWithoutProcess, Recheck
  <2>4. CASE CreateAnswered(c)
    BY <1>1, <2>4 DEF CreateAnswered, PlanNext, Call
  <2>5. CASE Retain(c)
    BY <1>1, <2>5 DEF Retain, PlanNext, Call
  <2>6. CASE FinishPlan(c) \/ Invalidate(c)
    BY <1>1, <2>6 DEF FinishPlan, Invalidate, PlanNext, Call
  <2> QED BY <1>2, <2>1, <2>2, <2>3, <2>4, <2>5, <2>6 DEF PlanStep
<1>3. ASSUME NEW c \in Callers,
             TeardownStep(c) \/ IdentityStep(c) \/ Read(c) \/ CaptureContext(c)
               \/ ReadStatus(c) \/ AnnounceTeardown(c) \/ ReserveIdentity(c) \/ LockForRead(c)
      PROVE  PlanNext \/ UNCHANGED planVars
  BY <1>1, <1>3 DEF TeardownStep, LockForTeardown, StartReady, StartSession, StartFails, Stop,
     IdentityStep, LockForIdentity, Open, DropReservation, Read, CaptureContext, ReadStatus,
     AnnounceTeardown, ReserveIdentity, LockForRead, PlanNext, Call
<1>4. CASE CancelPlan
  BY <1>1, <1>4, RunningOperation DEF CancelPlan, PlanNext, Call
<1>5. CASE ChildBreaks \/ Expiry
  BY <1>5 DEF ChildBreaks, Expiry, PlanNext
<1> QED BY <1>2, <1>3, <1>4, <1>5 DEF HostNext, Proceed

-----------------------------------------------------------------------------

LEMMA HostTypeInit == HostInit => HostTypeOK
<1> SUFFICES ASSUME HostInit PROVE HostTypeOK
  OBVIOUS
<1>1. 0 \in 0..MaxSession
  BY HostAssumption
<1>2. pc \in [Callers -> Labels] /\ captured \in [Callers -> Contexts \cup {NoContext}]
  BY DEF HostInit, Labels
<1>3. sent \in [Tokens -> 0..2]
  BY DEF HostInit
<1> QED BY <1>1, <1>2, <1>3 DEF HostInit, HostTypeOK

\* The pieces callers' steps are made of keep the shape of the state.
LEMMA Moved ==
  ASSUME HostTypeOK, NEW c \in Callers, NEW label \in Labels, Goto(c, label)
  PROVE  pc' \in [Callers -> Labels]
BY DEF HostTypeOK, Goto

LEMMA WrittenType ==
  ASSUME HostTypeOK, PlanTypeOK, NEW isWritten \in BOOLEAN, Written(isWritten)
  PROVE  sent' \in [Tokens -> 0..2]
<1>1. CASE isWritten /\ Holds({"apply"})
  <2>1. begun \in Begun /\ begun.kind = "apply"
    BY <1>1 DEF PlanTypeOK, Holds
  <2>2. begun.plan.token \in Tokens
    BY <2>1, HeldByKind DEF Plan
  <2> QED BY <1>1, <2>2 DEF Written, HostTypeOK
<1>2. CASE ~(isWritten /\ Holds({"apply"}))
  BY <1>2 DEF Written, HostTypeOK
<1> QED BY <1>1, <1>2

LEMMA PlanStepType ==
  ASSUME HostBase, NEW c \in Callers, PlanStep(c)
  PROVE  HostTypeOK'
<1> USE DEF HostBase, HostTypeOK
<1>1. ASSUME NEW label \in Labels, Goto(c, label)
      PROVE  pc' \in [Callers -> Labels]
  BY <1>1, Moved
<1>2. {"idle", "started", "lock", "call", "retain", "finished", "failed", "recheck",
       "invalidate"} \subseteq Labels
  BY DEF Labels
<1>3. CASE BeginPlan(c)
  <2>1. captured' \in [Callers -> Contexts \cup {NoContext}]
    BY <1>3 DEF BeginPlan
  <2> QED BY <1>1, <1>2, <1>3, <2>1 DEF BeginPlan, supervisorVars
<1>4. CASE Announce(c) \/ AnnounceFails(c) \/ FinishPlan(c) \/ Invalidate(c)
  BY <1>1, <1>2, <1>4 DEF Announce, AnnounceFails, FinishPlan, Invalidate, supervisorVars
<1>5. CASE LockForPlan(c)
  BY <1>1, <1>2, <1>5 DEF LockForPlan, Acquire, supervisorVars
<1>6. CASE UseAnswered(c) \/ CallRejected(c) \/ CallWithoutProcess(c)
  <2>1. sent' \in [Tokens -> 0..2]
    BY <1>6, WrittenType DEF UseAnswered, CallRejected, CallWithoutProcess, PlanInv
  <2> QED BY <1>1, <1>2, <1>6, <2>1
          DEF UseAnswered, CallRejected, CallWithoutProcess, Release, supervisorVars
<1>7. CASE CallFatal(c)
  <2>1. PICK isWritten \in BOOLEAN :
          /\ Written(isWritten)
          /\ Release(c, IF Holds({"apply"}) /\ isWritten /\ process' = "none"
                        THEN "finished" ELSE "failed")
    BY <1>7 DEF CallFatal
  <2>2. sent' \in [Tokens -> 0..2]
    BY <2>1, WrittenType DEF PlanInv
  <2> QED BY <1>1, <1>2, <1>7, <2>1, <2>2 DEF CallFatal, Terminated, Release
<1>8. CASE CreateAnswered(c)
  BY <1>1, <1>2, <1>8 DEF CreateAnswered, Terminated, Release, supervisorVars
<1>9. CASE Retain(c)
  BY <1>1, <1>2, <1>9 DEF Retain, Terminated, Release, supervisorVars
<1>10. CASE Recheck(c)
  BY <1>1, <1>2, <1>10 DEF Recheck, Inspected, Terminated, supervisorVars
<1> QED BY <1>3, <1>4, <1>5, <1>6, <1>7, <1>8, <1>9, <1>10 DEF PlanStep

LEMMA CommandStepType ==
  ASSUME HostBase, NEW c \in Callers,
         TeardownStep(c) \/ IdentityStep(c) \/ Read(c) \/ CaptureContext(c)
           \/ ReadStatus(c) \/ AnnounceTeardown(c) \/ ReserveIdentity(c) \/ LockForRead(c)
  PROVE  HostTypeOK'
<1> USE DEF HostBase, HostTypeOK
<1>1. ASSUME NEW label \in Labels, Goto(c, label)
      PROVE  pc' \in [Callers -> Labels]
  BY <1>1, Moved
<1>2. {"idle", "begin", "invalidate", "toStart", "toStop", "start", "stop",
       "reserved", "open", "opened", "read"} \subseteq Labels
  BY DEF Labels
<1>3. CASE CaptureContext(c)
  <2>1. captured' \in [Callers -> Contexts \cup {NoContext}]
    BY <1>3, CurrentIsContext DEF CaptureContext
  <2> QED BY <1>1, <1>2, <1>3, <2>1 DEF CaptureContext, supervisorVars
<1>4. CASE ReadStatus(c)
  BY <1>1, <1>2, <1>4 DEF ReadStatus, Inspected, Terminated, supervisorVars
<1>5. CASE AnnounceTeardown(c) \/ ReserveIdentity(c) \/ LockForRead(c) \/ LockForTeardown(c)
           \/ LockForIdentity(c) \/ DropReservation(c)
  BY <1>1, <1>2, <1>5 DEF AnnounceTeardown, ReserveIdentity, LockForRead, LockForTeardown,
     LockForIdentity, DropReservation, Acquire, supervisorVars
<1>6. CASE StartReady(c) \/ StartSession(c) \/ StartFails(c) \/ Stop(c)
  BY <1>1, <1>2, <1>6, HostAssumption DEF StartReady, StartSession, StartFails, Stop, Terminated,
     Release, supervisorVars
<1>7. CASE Open(c)
  BY <1>1, <1>2, <1>7 DEF Open, Terminated, Release, supervisorVars
<1>8. CASE Read(c)
  BY <1>1, <1>2, <1>8 DEF Read, Terminated, Release, supervisorVars
<1> QED BY <1>3, <1>4, <1>5, <1>6, <1>7, <1>8 DEF TeardownStep, IdentityStep

LEMMA HostStepType ==
  ASSUME HostBase, HostNext
  PROVE  HostTypeOK'
<1>1. CASE ChildBreaks
  BY <1>1 DEF ChildBreaks, HostBase, HostTypeOK
<1>2. CASE CancelPlan \/ Expiry
  BY <1>2 DEF CancelPlan, Expiry, hostVars, supervisorVars, HostBase, HostTypeOK
<1> QED BY <1>1, <1>2, PlanStepType, CommandStepType DEF HostNext, Proceed

\* A caller about to begin has read its context, and only its own step forgets it.
LEMMA HostStepCaptured ==
  ASSUME HostBase, HostNext
  PROVE  CapturedInTime'
<1> USE DEF HostBase, HostTypeOK, CapturedInTime
<1>1. ASSUME NEW c \in Callers, NEW label \in Labels \ {"begin"}, Goto(c, label),
             captured' \in {captured, [captured EXCEPT ![c] = NoContext]}
      PROVE  CapturedInTime'
  BY <1>1 DEF Goto
<1>2. Labels \ {"begin"} =
        {"idle", "started", "lock", "call", "retain", "finished", "failed", "recheck",
         "invalidate", "toStart", "toStop", "start", "stop", "reserved", "open", "opened",
         "read"}
  BY DEF Labels
<1>3. ASSUME NEW c \in Callers, PlanStep(c)
      PROVE  CapturedInTime'
  <2>1. CASE BeginPlan(c) \/ Announce(c) \/ AnnounceFails(c) \/ FinishPlan(c) \/ Invalidate(c)
    BY <1>1, <1>2, <2>1 DEF BeginPlan, Announce, AnnounceFails, FinishPlan, Invalidate
  <2>2. CASE LockForPlan(c) \/ UseAnswered(c) \/ CallRejected(c) \/ CallWithoutProcess(c)
    BY <1>1, <1>2, <2>2 DEF LockForPlan, UseAnswered, CallRejected, CallWithoutProcess,
       Acquire, Release
  <2>3. CASE CallFatal(c)
    BY <1>1, <1>2, <2>3 DEF CallFatal, Release
  <2>4. CASE CreateAnswered(c) \/ Retain(c) \/ Recheck(c)
    BY <1>1, <1>2, <2>4 DEF CreateAnswered, Retain, Recheck, Release
  <2> QED BY <1>3, <2>1, <2>2, <2>3, <2>4 DEF PlanStep
<1>4. ASSUME NEW c \in Callers, CaptureContext(c)
      PROVE  CapturedInTime'
  BY <1>4, CurrentIsContext DEF CaptureContext, Goto
<1>5. ASSUME NEW c \in Callers,
             TeardownStep(c) \/ IdentityStep(c) \/ Read(c)
               \/ ReadStatus(c) \/ AnnounceTeardown(c) \/ ReserveIdentity(c) \/ LockForRead(c)
      PROVE  CapturedInTime'
  <2>1. CASE TeardownStep(c) \/ IdentityStep(c) \/ Read(c)
    BY <1>1, <1>2, <2>1 DEF TeardownStep, LockForTeardown, StartReady, StartSession, StartFails,
       Stop, IdentityStep, LockForIdentity, Open, DropReservation, Read, Acquire, Release
  <2>2. CASE ReadStatus(c) \/ AnnounceTeardown(c) \/ LockForRead(c)
    BY <1>1, <1>2, <2>2 DEF ReadStatus, AnnounceTeardown, LockForRead, Acquire
  <2>3. CASE ReserveIdentity(c)
    BY <1>1, <1>2, <2>3 DEF ReserveIdentity
  <2> QED BY <1>5, <2>1, <2>2, <2>3
<1>6. CASE ChildBreaks \/ CancelPlan \/ Expiry
  BY <1>6 DEF ChildBreaks, CancelPlan, Expiry, hostVars
<1> QED BY <1>3, <1>4, <1>5, <1>6 DEF HostNext, Proceed

LEMMA HostBaseInit == HostInit => HostBase
<1> SUFFICES ASSUME HostInit PROVE HostBase
  OBVIOUS
<1>1. PlanInv /\ ~shutdown
  BY PlanInvInit DEF HostInit, PlanInit
<1>2. CapturedInTime
  BY DEF HostInit, CapturedInTime
<1> QED BY <1>1, <1>2, HostTypeInit DEF HostBase

\* The host never drops the coordinator.
LEMMA HostStepKeepsCoordinator ==
  ASSUME HostNext
  PROVE  shutdown' = shutdown
<1>1. ASSUME NEW c \in Callers, PlanStep(c)
      PROVE  shutdown' = shutdown
  BY <1>1 DEF PlanStep, BeginPlan, Begin, BeginRefused, BeginUnauthentic, BeginCreate, BeginUse,
     Announce, AnnounceFails, Cancel, LockForPlan, UseAnswered, CallRejected, CallFatal,
     CallWithoutProcess, CreateAnswered, SidecarMints, Retain, RetainCreated, FinishPlan, Finish,
     Recheck, Invalidate, InvalidateAll, planVars, innerVars
<1>2. ASSUME NEW c \in Callers,
             TeardownStep(c) \/ IdentityStep(c) \/ Read(c) \/ CaptureContext(c)
               \/ ReadStatus(c) \/ AnnounceTeardown(c) \/ ReserveIdentity(c) \/ LockForRead(c)
      PROVE  shutdown' = shutdown
  BY <1>2 DEF TeardownStep, LockForTeardown, StartReady, StartSession, StartFails, Stop,
     IdentityStep, LockForIdentity, Open, DropReservation, EndIdentityChange, Read,
     CaptureContext, ReadStatus, AnnounceTeardown, InvalidateAll, ReserveIdentity,
     BeginIdentityChange, IdentityChangeRefused, LockForRead, planVars, innerVars
<1>3. CASE ChildBreaks \/ CancelPlan \/ Expiry
  BY <1>3 DEF ChildBreaks, CancelPlan, Cancel, Expiry, ExpiryTurn, Tick, planVars, innerVars
<1> QED BY <1>1, <1>2, <1>3 DEF HostNext, Proceed

LEMMA HostBaseNext ==
  ASSUME HostBase, [HostNext]_<<planVars, hostVars>>
  PROVE  HostBase'
<1>1. CASE HostNext
  <2>1. PlanInv'
    BY <1>1, HostStepIsPlanStep, PlanInvNext DEF HostBase
  <2> QED BY <1>1, <2>1, HostStepType, HostStepCaptured, HostStepKeepsCoordinator DEF HostBase
<1>2. CASE UNCHANGED <<planVars, hostVars>>
  <2>1. PlanInv'
    BY <1>2, PlanInvNext DEF HostBase
  <2>2. HostTypeOK' /\ CapturedInTime' /\ ~shutdown'
    BY <1>2 DEF hostVars, supervisorVars, planVars, innerVars, HostBase, HostTypeOK,
       CapturedInTime
  <2> QED BY <2>1, <2>2 DEF HostBase
<1> QED BY <1>1, <1>2

LEMMA HostBaseInvariance == HostSpec => []HostBase
<1>1. HostBase /\ [HostNext]_<<planVars, hostVars>> => HostBase'
  BY HostBaseNext
<1> QED BY <1>1, HostBaseInit, PTL DEF HostSpec

-----------------------------------------------------------------------------

\* The host keeps its shape.
THEOREM HostTypeCorrect == HostSpec => []HostTypeOK
<1>1. HostBase => HostTypeOK
  BY DEF HostBase
<1> QED BY <1>1, HostBaseInvariance, PTL

\* Whatever the commands do to the coordinator, in and out of the gate, is what
\* PlanCoordinator allows; so all that is proved of the coordinator holds here.
THEOREM HostKeepsToCoordinator == HostSpec => HostUsesCoordinator
<1>1. HostInit => PlanInit
  BY DEF HostInit
<1>2. HostBase /\ [HostNext]_<<planVars, hostVars>> => [PlanNext]_planVars
  BY HostStepIsPlanStep
<1> QED BY <1>1, <1>2, HostBaseInvariance, PTL DEF HostSpec, HostUsesCoordinator, PlanSafety

-----------------------------------------------------------------------------
\* Who owns what.

InClaim == InPlan \cup InIdentity

\* At most one caller is inside an operation or an identity change, and one is
\* inside exactly while the coordinator has it down; who is inside the gate
\* holds it.
Owned ==
  /\ \A c, d \in Callers : pc[c] \in InClaim /\ pc[d] \in InClaim => c = d
  /\ (\E c \in Callers : pc[c] \in InPlan) <=> active # NoOperation
  /\ (\E c \in Callers : pc[c] \in InIdentity) <=> identityChange
  /\ \A c \in Callers : pc[c] \in InGate <=> gate = c

\* A caller moves on without entering or leaving an operation.
LEMMA ClaimKept ==
  ASSUME HostTypeOK, Owned, NEW c \in Callers, NEW label, Goto(c, label),
         pc[c] \in InPlan <=> label \in InPlan,
         pc[c] \in InIdentity <=> label \in InIdentity,
         active' = NoOperation <=> active = NoOperation,
         identityChange' = identityChange,
         \/ gate' = gate /\ (pc[c] \in InGate <=> label \in InGate)
         \/ gate = NoCaller /\ gate' = c /\ label \in InGate
         \/ gate' = NoCaller /\ pc[c] \in InGate /\ label \notin InGate
  PROVE  Owned'
<1>1. \A d \in Callers : pc'[d] = IF d = c THEN label ELSE pc[d]
  BY DEF Goto, HostTypeOK
<1>2. \A d \in Callers :
        /\ pc'[d] \in InPlan <=> pc[d] \in InPlan
        /\ pc'[d] \in InIdentity <=> pc[d] \in InIdentity
  BY <1>1
<1>3. \A d \in Callers : pc'[d] \in InGate <=> gate' = d
  BY <1>1, HostAssumption DEF Owned
<1>4. \A d, e \in Callers : pc'[d] \in InClaim /\ pc'[e] \in InClaim => d = e
  BY <1>2 DEF Owned, InClaim
<1>5. /\ (\E d \in Callers : pc'[d] \in InPlan) <=> active' # NoOperation
      /\ (\E d \in Callers : pc'[d] \in InIdentity) <=> identityChange'
  BY <1>2, Zenon DEF Owned
<1> QED BY <1>3, <1>4, <1>5 DEF Owned

\* A caller enters an operation or an identity change when nobody is in one.
LEMMA ClaimEntered ==
  ASSUME HostTypeOK, Owned, NEW c \in Callers, NEW label, Goto(c, label),
         active = NoOperation, ~identityChange,
         pc[c] \notin InGate, label \notin InGate, gate' = gate,
         \/ label \in InPlan \ InIdentity /\ active' # NoOperation /\ ~identityChange'
         \/ label \in InIdentity \ InPlan /\ active' = NoOperation /\ identityChange'
  PROVE  Owned'
<1>1. \A d \in Callers : pc'[d] = IF d = c THEN label ELSE pc[d]
  BY DEF Goto, HostTypeOK
<1>2. \A d \in Callers : pc[d] \notin InClaim
  BY DEF Owned, InClaim
<1>3. \A d \in Callers : pc'[d] \in InGate <=> gate' = d
  BY <1>1 DEF Owned
<1> QED BY <1>1, <1>2, <1>3 DEF Owned, InClaim

\* The caller inside leaves.
LEMMA ClaimLeft ==
  ASSUME HostTypeOK, Owned, NEW c \in Callers, NEW label, Goto(c, label),
         pc[c] \in InClaim, label \notin InClaim,
         pc[c] \notin InGate, label \notin InGate, gate' = gate,
         active' = NoOperation, ~identityChange'
  PROVE  Owned'
<1>1. \A d \in Callers : pc'[d] = IF d = c THEN label ELSE pc[d]
  BY DEF Goto, HostTypeOK
<1>2. \A d \in Callers : pc'[d] \notin InClaim
  BY <1>1 DEF Owned
<1>3. \A d \in Callers : pc'[d] \in InGate <=> gate' = d
  BY <1>1 DEF Owned
<1> QED BY <1>2, <1>3 DEF Owned, InClaim

\* A step that no caller takes.
LEMMA NobodyMoved ==
  ASSUME Owned, UNCHANGED <<pc, gate, identityChange>>,
         active' = NoOperation <=> active = NoOperation
  PROVE  Owned'
BY DEF Owned

\* Cancelling and invalidating leave the running operation running.
LEMMA StillRunning ==
  ASSUME HostBase,
         InvalidateAll \/ (\E op : Cancel(op)) \/ (\E token \in Tokens : SidecarMints(token))
           \/ RetainCreated(Current, clock) \/ UNCHANGED planVars
  PROVE  (active' = NoOperation <=> active = NoOperation) /\ identityChange' = identityChange
<1>1. CASE InvalidateAll
  BY <1>1, CancelledType DEF InvalidateAll, HostBase, PlanInv
<1>2. CASE \E op : Cancel(op)
  <2>1. active \in Operation /\ active' = [active EXCEPT !.cancelled = TRUE]
    BY <1>2 DEF Cancel, HostBase, PlanInv, PlanTypeOK
  <2>2. active' \in Operation
    BY <2>1 DEF Operation
  <2> QED BY <1>2, <2>1, <2>2, NotAnOperation DEF Cancel
<1>3. CASE (\E token \in Tokens : SidecarMints(token)) \/ UNCHANGED planVars
  BY <1>3 DEF SidecarMints, planVars, innerVars
<1>4. CASE RetainCreated(Current, clock)
  BY <1>4 DEF RetainCreated
<1> QED BY <1>1, <1>2, <1>3, <1>4

LEMMA OwnedPlanStep ==
  ASSUME HostBase, Owned, NEW c \in Callers, PlanStep(c)
  PROVE  Owned'
<1> USE DEF InPlan, InIdentity, InGate, InClaim, At
<1>1. HostTypeOK /\ active \in Operation \cup {NoOperation}
  BY DEF HostBase, PlanInv, PlanTypeOK
<1>2. CASE BeginPlan(c)
  <2>1. PICK request \in Request : Begin(request, captured[c], clock)
    BY <1>2 DEF BeginPlan
  <2>2. CASE BeginRefused(request, captured[c], clock)
             \/ BeginUnauthentic(request, captured[c], clock)
    <3>1. active' = active /\ identityChange' = identityChange
      BY <2>2 DEF BeginRefused, BeginUnauthentic
    <3> QED BY <1>1, <1>2, <3>1, ClaimKept DEF BeginPlan
  <2>3. CASE BeginCreate(request, captured[c], clock) \/ BeginUse(request, captured[c], clock)
    <3>1. /\ active = NoOperation /\ ~identityChange /\ identityChange' = identityChange
          /\ active' = [op |-> nextOperation + 1, cancelled |-> FALSE]
      BY <2>3, BeginAccepted DEF BeginCreate, BeginUse
    <3>2. active' # NoOperation
      <4>1. active' \in Operation
        BY <1>2, <3>1, PlanAssumption DEF BeginPlan, Operation, HostBase, PlanInv, PlanTypeOK
      <4> QED BY <4>1, NotAnOperation
    <3> QED BY <1>1, <1>2, <3>1, <3>2, ClaimEntered DEF BeginPlan
  <2> QED BY <2>1, <2>2, <2>3 DEF Begin
<1>3. CASE Announce(c)
  BY <1>1, <1>3, ClaimKept DEF Announce, planVars, innerVars
<1>4. CASE AnnounceFails(c)
  <2>1. (active' = NoOperation <=> active = NoOperation) /\ identityChange' = identityChange
    BY <1>4, StillRunning DEF AnnounceFails
  <2> QED BY <1>1, <1>4, <2>1, ClaimKept DEF AnnounceFails
<1>5. CASE LockForPlan(c)
  BY <1>1, <1>5, ClaimKept DEF LockForPlan, Acquire, planVars, innerVars
<1>6. CASE UseAnswered(c) \/ CallRejected(c) \/ CallWithoutProcess(c)
  BY <1>1, <1>6, ClaimKept
  DEF UseAnswered, CallRejected, CallWithoutProcess, Release, planVars, innerVars
<1>7. CASE CallFatal(c)
  <2>1. PICK label \in {"finished", "failed"} : Release(c, label)
    BY <1>7 DEF CallFatal
  <2> QED BY <1>1, <1>7, <2>1, ClaimKept DEF CallFatal, Release, planVars, innerVars
<1>8. CASE CreateAnswered(c)
  <2>1. (active' = NoOperation <=> active = NoOperation) /\ identityChange' = identityChange
    BY <1>8, StillRunning DEF CreateAnswered
  <2> QED BY <1>1, <1>8, <2>1, ClaimKept DEF CreateAnswered, Release
<1>9. CASE Retain(c)
  <2>1. (active' = NoOperation <=> active = NoOperation) /\ identityChange' = identityChange
    BY <1>9, StillRunning DEF Retain
  <2> QED BY <1>1, <1>9, <2>1, ClaimKept DEF Retain, Release
<1>10. CASE FinishPlan(c)
  <2>1. active' = NoOperation /\ ~identityChange'
    BY <1>10 DEF FinishPlan, Finish, HostBase, PlanInv, IdentityExclusive
  <2> QED BY <1>1, <1>10, <2>1, ClaimLeft DEF FinishPlan
<1>11. CASE Recheck(c)
  BY <1>1, <1>11, ClaimKept DEF Recheck, planVars, innerVars
<1>12. CASE Invalidate(c)
  <2>1. (active' = NoOperation <=> active = NoOperation) /\ identityChange' = identityChange
    BY <1>12, StillRunning DEF Invalidate
  <2> QED BY <1>1, <1>12, <2>1, ClaimKept DEF Invalidate
<1> QED BY <1>2, <1>3, <1>4, <1>5, <1>6, <1>7, <1>8, <1>9, <1>10, <1>11, <1>12 DEF PlanStep

LEMMA OwnedCommandStep ==
  ASSUME HostBase, Owned, NEW c \in Callers,
         TeardownStep(c) \/ IdentityStep(c) \/ Read(c) \/ CaptureContext(c)
           \/ ReadStatus(c) \/ AnnounceTeardown(c) \/ ReserveIdentity(c) \/ LockForRead(c)
  PROVE  Owned'
<1> USE DEF InPlan, InIdentity, InGate, InClaim, At
<1>1. HostTypeOK
  BY DEF HostBase
<1>2. CASE CaptureContext(c) \/ ReadStatus(c)
  BY <1>1, <1>2, ClaimKept DEF CaptureContext, ReadStatus, planVars, innerVars
<1>3. CASE AnnounceTeardown(c)
  <2>1. (active' = NoOperation <=> active = NoOperation) /\ identityChange' = identityChange
    BY <1>3, StillRunning DEF AnnounceTeardown
  <2> QED BY <1>1, <1>3, <2>1, ClaimKept DEF AnnounceTeardown
<1>4. CASE LockForRead(c) \/ LockForTeardown(c) \/ LockForIdentity(c)
  BY <1>1, <1>4, ClaimKept
  DEF LockForRead, LockForTeardown, LockForIdentity, Acquire, planVars, innerVars
<1>5. CASE StartReady(c) \/ StartSession(c) \/ StartFails(c) \/ Stop(c) \/ Open(c) \/ Read(c)
  BY <1>1, <1>5, ClaimKept
  DEF StartReady, StartSession, StartFails, Stop, Open, Read, Release, planVars, innerVars
<1>6. CASE ReserveIdentity(c)
  <2>1. CASE BeginIdentityChange /\ Goto(c, "reserved")
    BY <1>1, <1>6, <2>1, ClaimEntered DEF ReserveIdentity, BeginIdentityChange
  <2>2. CASE IdentityChangeRefused /\ UNCHANGED pc
    BY <1>6, <2>2, NobodyMoved DEF ReserveIdentity, IdentityChangeRefused
  <2> QED BY <1>6, <2>1, <2>2 DEF ReserveIdentity
<1>7. CASE DropReservation(c)
  <2>1. active' = NoOperation /\ ~identityChange'
    BY <1>7 DEF DropReservation, EndIdentityChange, HostBase, PlanInv, IdentityExclusive
  <2> QED BY <1>1, <1>7, <2>1, ClaimLeft DEF DropReservation
<1> QED BY <1>2, <1>3, <1>4, <1>5, <1>6, <1>7 DEF TeardownStep, IdentityStep

LEMMA OwnedInit == HostInit => Owned
BY HostAssumption
DEF HostInit, PlanInit, Owned, InClaim, InPlan, InIdentity, InGate

LEMMA OwnedNext ==
  ASSUME HostBase, Owned, [HostNext]_<<planVars, hostVars>>
  PROVE  Owned'
<1>1. CASE ChildBreaks \/ Expiry \/ UNCHANGED <<planVars, hostVars>>
  BY <1>1, NobodyMoved
  DEF ChildBreaks, Expiry, ExpiryTurn, Tick, planVars, innerVars, hostVars
<1>2. CASE CancelPlan
  <2>1. (active' = NoOperation <=> active = NoOperation) /\ identityChange' = identityChange
    BY <1>2, StillRunning DEF CancelPlan
  <2> QED BY <1>2, <2>1, NobodyMoved DEF CancelPlan, hostVars
<1> QED BY <1>1, <1>2, OwnedPlanStep, OwnedCommandStep DEF HostNext, Proceed

\* No path leaves a command with its operation, its reservation or the gate
\* still taken, and none uses what it has not taken.
THEOREM OwnersAlwaysAgree == HostSpec => []OwnersAgree
<1>1. HostBase /\ Owned => OwnersAgree
  <2> SUFFICES ASSUME HostBase, Owned PROVE OwnersAgree
    OBVIOUS
  <2>1. /\ Inside(InPlan) = {} <=> active = NoOperation
        /\ Inside(InIdentity) = {} <=> ~identityChange
    BY DEF Owned, Inside
  <2>2. Inside(InGate) = IF gate = NoCaller THEN {} ELSE {gate}
    BY HostAssumption DEF Owned, Inside, HostBase, HostTypeOK
  <2>3. Cardinality(Inside(InPlan) \cup Inside(InIdentity)) <= 1
    <3> DEFINE S == Inside(InPlan) \cup Inside(InIdentity)
    <3>1. \A c, d \in S : c = d
      BY DEF Owned, Inside, InClaim
    <3>2. CASE S = {}
      BY <3>2, FS_EmptySet
    <3>3. CASE S # {}
      <4>1. PICK c \in S : S = {c}
        BY <3>1, <3>3
      <4> QED BY <4>1, FS_Singleton
    <3> QED BY <3>2, <3>3
  <2> QED BY <2>1, <2>2, <2>3 DEF OwnersAgree
<1>2. HostBase /\ Owned /\ [HostNext]_<<planVars, hostVars>> => Owned'
  BY OwnedNext
<1> QED BY <1>1, <1>2, OwnedInit, HostBaseInvariance, PTL DEF HostSpec

-----------------------------------------------------------------------------
\* A token is applied at most once.

\* What has been applied is nowhere it could be taken from, and the operation
\* that applied it has no step left but to finish.
AppliedIsSpent ==
  \A t \in Tokens : sent[t] # 0 =>
    /\ sent[t] = 1
    /\ t \in minted /\ t # RetainedToken /\ t # CreatedToken
    /\ t = HeldToken => \A c \in Callers : pc[c] \in InPlan => pc[c] \in {"finished", "failed"}

\* How tokens move in the host, which never gives a plan back.
TokensMove ==
  /\ RetainedToken' \in {RetainedToken, CreatedToken, NoToken}
  /\ HeldToken' \in {HeldToken, RetainedToken, NoToken}
  /\ CreatedToken' \in {CreatedToken, NoToken} \/ CreatedToken' \notin minted
  /\ minted \subseteq minted'

LEMMA ErasingMoves ==
  ASSUME retained' \in {retained, NoPlan}, minted' = minted,
         begun' \in {begun, NoOperation}
  PROVE  TokensMove
BY DEF TokensMove, RetainedToken, HeldToken, HeldPlan, CreatedToken, Holds

LEMMA BeginMoves ==
  ASSUME PlanInv, NEW request \in Request, NEW context, Begin(request, context, clock)
  PROVE  TokensMove
<1>1. CASE BeginRefused(request, context, clock) \/ BeginUnauthentic(request, context, clock)
  BY <1>1, ErasingMoves, UnexpiredFacts DEF BeginRefused, BeginUnauthentic
<1>2. CASE BeginCreate(request, context, clock)
  <2>1. /\ retained' \in {retained, NoPlan} /\ minted' = minted
        /\ begun'.kind = "create" /\ begun'.token = NoToken
    BY <1>2, UnexpiredFacts DEF BeginCreate
  <2> QED BY <2>1 DEF TokensMove, RetainedToken, HeldToken, HeldPlan, CreatedToken, Holds
<1>3. CASE BeginUse(request, context, clock)
  <2>1. /\ retained' = NoPlan /\ minted' = minted
        /\ begun'.kind \in {"apply", "discard"} /\ begun'.plan \in {retained, NoPlan}
    BY <1>3, UnexpiredFacts DEF BeginUse, Request
  <2> QED BY <2>1 DEF TokensMove, RetainedToken, HeldToken, HeldPlan, CreatedToken, Holds
<1> QED BY <1>1, <1>2, <1>3 DEF Begin

LEMMA MintMoves ==
  ASSUME PlanInv, NEW token \in Tokens, SidecarMints(token)
  PROVE  TokensMove
<1>1. /\ begun \in Begun /\ begun.kind = "create" /\ token \notin minted
      /\ begun' = [begun EXCEPT !.token = token]
      /\ retained' = retained /\ minted' = minted \cup {token}
  BY DEF SidecarMints, innerVars, Holds, PlanInv, PlanTypeOK
<1>2. begun'.kind = "create" /\ begun'.token = token
  BY <1>1 DEF Begun
<1>3. CreatedToken' \in {token, NoToken} /\ HeldPlan' = NoPlan
  BY <1>2 DEF CreatedToken, HeldPlan, Holds
<1> QED BY <1>1, <1>3 DEF TokensMove, RetainedToken, HeldToken

LEMMA RetainMoves ==
  ASSUME PlanInv, RetainCreated(Current, clock)
  PROVE  TokensMove
<1>1. begun'.kind = "settled" /\ minted' = minted /\ CreatedToken = begun.token
  BY DEF RetainCreated, CreatedToken, Holds
<1>2. retained' = retained \/ retained'.token = begun.token
  BY DEF RetainCreated
<1>3. RetainedToken' \in {RetainedToken, CreatedToken, NoToken}
  BY <1>1, <1>2 DEF RetainedToken
<1> QED BY <1>1, <1>3 DEF TokensMove, HeldToken, HeldPlan, CreatedToken, Holds

LEMMA HostStepTokens ==
  ASSUME HostBase, HostNext
  PROVE  TokensMove
<1>1. PlanInv
  BY DEF HostBase
<1>2. CASE UNCHANGED planVars
  BY <1>2, ErasingMoves DEF planVars, innerVars
<1>3. ASSUME InvalidateAll \/ Finish \/ (\E op : Cancel(op))
      PROVE  TokensMove
  BY <1>3, ErasingMoves DEF InvalidateAll, Finish, Cancel
<1>4. ASSUME NEW c \in Callers, PlanStep(c)
      PROVE  TokensMove
  <2>1. CASE BeginPlan(c)
    BY <1>1, <2>1, BeginMoves DEF BeginPlan
  <2>2. CASE AnnounceFails(c) \/ FinishPlan(c) \/ Invalidate(c)
    BY <1>3, <2>2 DEF AnnounceFails, FinishPlan, Invalidate
  <2>3. CASE Announce(c) \/ LockForPlan(c) \/ UseAnswered(c) \/ CallRejected(c)
             \/ CallFatal(c) \/ CallWithoutProcess(c) \/ Recheck(c)
    BY <1>2, <2>3 DEF Announce, LockForPlan, UseAnswered, CallRejected, CallFatal,
       CallWithoutProcess, Recheck
  <2>4. CASE CreateAnswered(c)
    BY <1>1, <2>4, MintMoves DEF CreateAnswered
  <2>5. CASE Retain(c)
    BY <1>1, <2>5, RetainMoves DEF Retain
  <2> QED BY <1>4, <2>1, <2>2, <2>3, <2>4, <2>5 DEF PlanStep
<1>5. ASSUME NEW c \in Callers,
             TeardownStep(c) \/ Read(c) \/ CaptureContext(c) \/ ReadStatus(c)
               \/ AnnounceTeardown(c) \/ LockForRead(c)
      PROVE  TokensMove
  BY <1>2, <1>3, <1>5 DEF TeardownStep, LockForTeardown, StartReady, StartSession, StartFails,
     Stop, Read, CaptureContext, ReadStatus, AnnounceTeardown, LockForRead
<1>6. ASSUME NEW c \in Callers, IdentityStep(c) \/ ReserveIdentity(c)
      PROVE  TokensMove
  <2>1. \/ UNCHANGED planVars
        \/ retained' \in {retained, NoPlan} /\ begun' = begun /\ minted' = minted
    BY <1>6, UnexpiredFacts DEF IdentityStep, LockForIdentity, Open, DropReservation,
       EndIdentityChange, ReserveIdentity, BeginIdentityChange, IdentityChangeRefused
  <2> QED BY <1>2, <2>1, ErasingMoves
<1>7. CASE CancelPlan
  BY <1>3, <1>7 DEF CancelPlan
<1>8. CASE ChildBreaks
  BY <1>2, <1>8 DEF ChildBreaks
<1>9. CASE Expiry
  BY <1>9, ErasingMoves, UnexpiredFacts DEF Expiry, ExpiryTurn, Tick, innerVars
<1> QED BY <1>4, <1>5, <1>6, <1>7, <1>8, <1>9 DEF HostNext, Proceed

\* Whoever is still to apply was in the operation before, or nothing was running.
Advances ==
  \A c \in Callers : pc'[c] \in InPlan =>
    \/ pc'[c] \in {"finished", "failed"}
    \/ pc[c] \in InPlan \ {"finished", "failed"}
    \/ active = NoOperation

LEMMA OneAdvances ==
  ASSUME HostTypeOK, NEW c \in Callers, NEW label, Goto(c, label),
         \/ label \notin InPlan \ {"finished", "failed"}
         \/ pc[c] \in InPlan \ {"finished", "failed"}
         \/ active = NoOperation,
         Owned
  PROVE  Advances
<1> SUFFICES ASSUME NEW d \in Callers, pc'[d] \in InPlan \ {"finished", "failed"},
                    active # NoOperation
             PROVE  pc[d] \in InPlan \ {"finished", "failed"}
  BY DEF Advances
<1>1. pc'[d] = IF d = c THEN label ELSE pc[d]
  BY DEF Goto, HostTypeOK
<1> QED BY <1>1

LEMMA HostStepAdvances ==
  ASSUME HostBase, Owned, HostNext
  PROVE  Advances
<1> USE DEF InPlan, At
<1>1. HostTypeOK
  BY DEF HostBase
<1>2. ASSUME NEW c \in Callers, PlanStep(c)
      PROVE  Advances
  <2>1. CASE BeginPlan(c)
    <3>1. PICK request \in Request : Begin(request, captured[c], clock)
      BY <2>1 DEF BeginPlan
    <3>2. active' = active \/ active = NoOperation
      BY <3>1, BeginAccepted
      DEF Begin, BeginRefused, BeginUnauthentic, BeginCreate, BeginUse
    <3>3. CASE active' = active
      BY <1>1, <2>1, <3>3, OneAdvances DEF BeginPlan
    <3>4. CASE active = NoOperation
      BY <3>4 DEF Advances
    <3> QED BY <3>2, <3>3, <3>4
  <2>2. CASE Announce(c) \/ AnnounceFails(c) \/ FinishPlan(c) \/ Invalidate(c)
    BY <1>1, <2>2, OneAdvances DEF Announce, AnnounceFails, FinishPlan, Invalidate
  <2>3. CASE LockForPlan(c) \/ UseAnswered(c) \/ CallRejected(c) \/ CallWithoutProcess(c)
    BY <1>1, <2>3, OneAdvances
    DEF LockForPlan, UseAnswered, CallRejected, CallWithoutProcess, Acquire, Release
  <2>4. CASE CallFatal(c)
    BY <1>1, <2>4, OneAdvances DEF CallFatal, Release
  <2>5. CASE CreateAnswered(c) \/ Retain(c) \/ Recheck(c)
    BY <1>1, <2>5, OneAdvances DEF CreateAnswered, Retain, Recheck, Release
  <2> QED BY <1>2, <2>1, <2>2, <2>3, <2>4, <2>5 DEF PlanStep
<1>3. ASSUME NEW c \in Callers, TeardownStep(c) \/ IdentityStep(c) \/ Read(c)
      PROVE  Advances
  BY <1>1, <1>3, OneAdvances DEF TeardownStep, LockForTeardown, StartReady, StartSession,
     StartFails, Stop, IdentityStep, LockForIdentity, Open, DropReservation, Read,
     Acquire, Release
<1>4. ASSUME NEW c \in Callers,
             CaptureContext(c) \/ ReadStatus(c) \/ AnnounceTeardown(c) \/ LockForRead(c)
      PROVE  Advances
  BY <1>1, <1>4, OneAdvances
  DEF CaptureContext, ReadStatus, AnnounceTeardown, LockForRead, Acquire
<1>5. CASE UNCHANGED pc
  BY <1>5 DEF Advances
<1>6. ASSUME NEW c \in Callers, ReserveIdentity(c)
      PROVE  Advances
  BY <1>1, <1>5, <1>6, OneAdvances DEF ReserveIdentity
<1>7. CASE ChildBreaks \/ CancelPlan \/ Expiry
  BY <1>5, <1>7 DEF ChildBreaks, CancelPlan, Expiry, hostVars
<1> QED BY <1>2, <1>3, <1>4, <1>6, <1>7 DEF HostNext, Proceed

\* A plan.apply is written by the operation that holds the plan, on its way out.
Writes(c) ==
  /\ pc[c] = "call" /\ Holds({"apply"})
  /\ sent' = [sent EXCEPT ![begun.plan.token] = IF @ = 2 THEN 2 ELSE @ + 1]
  /\ pc' = [pc EXCEPT ![c] = "finished"] \/ pc' = [pc EXCEPT ![c] = "failed"]
  /\ UNCHANGED planVars

LEMMA HostStepSent ==
  ASSUME HostBase, HostNext
  PROVE  sent' = sent \/ \E c \in Callers : Writes(c)
<1> USE DEF At
<1>1. ASSUME NEW c \in Callers, PlanStep(c)
      PROVE  sent' = sent \/ Writes(c)
  <2>1. CASE BeginPlan(c) \/ Announce(c) \/ AnnounceFails(c) \/ LockForPlan(c)
             \/ CallWithoutProcess(c) \/ CreateAnswered(c) \/ Retain(c) \/ FinishPlan(c)
             \/ Recheck(c) \/ Invalidate(c)
    BY <2>1 DEF BeginPlan, Announce, AnnounceFails, LockForPlan, CallWithoutProcess,
       CreateAnswered, Retain, FinishPlan, Recheck, Invalidate
  <2>2. CASE UseAnswered(c) \/ CallRejected(c)
    BY <2>2 DEF UseAnswered, CallRejected, Written, Writes, Release, Goto
  <2>3. CASE CallFatal(c)
    BY <2>3 DEF CallFatal, Written, Writes, Release, Goto
  <2> QED BY <1>1, <2>1, <2>2, <2>3 DEF PlanStep
<1>2. ASSUME NEW c \in Callers,
             TeardownStep(c) \/ IdentityStep(c) \/ Read(c) \/ CaptureContext(c)
               \/ ReadStatus(c) \/ AnnounceTeardown(c) \/ ReserveIdentity(c) \/ LockForRead(c)
      PROVE  sent' = sent
  BY <1>2 DEF TeardownStep, LockForTeardown, StartReady, StartSession, StartFails, Stop,
     IdentityStep, LockForIdentity, Open, DropReservation, Read, CaptureContext, ReadStatus,
     AnnounceTeardown, ReserveIdentity, LockForRead
<1>3. CASE ChildBreaks \/ CancelPlan \/ Expiry
  BY <1>3 DEF ChildBreaks, CancelPlan, Expiry, hostVars
<1> QED BY <1>1, <1>2, <1>3 DEF HostNext, Proceed

LEMMA AppliedInit == HostInit => AppliedIsSpent
BY DEF HostInit, AppliedIsSpent

LEMMA AppliedNext ==
  ASSUME HostBase, Owned, Owned', AppliedIsSpent, [HostNext]_<<planVars, hostVars>>
  PROVE  AppliedIsSpent'
<1>1. PlanInv /\ NoToken \notin Tokens
  BY PlanAssumption DEF HostBase
<1>2. CASE UNCHANGED <<planVars, hostVars>>
  BY <1>2 DEF AppliedIsSpent, planVars, innerVars, hostVars, RetainedToken, CreatedToken,
     HeldToken, HeldPlan, Holds
<1>3. CASE HostNext /\ sent' = sent
  <2> SUFFICES ASSUME NEW t \in Tokens, sent[t] # 0
               PROVE  /\ sent[t] = 1
                      /\ t \in minted' /\ t # RetainedToken' /\ t # CreatedToken'
                      /\ t = HeldToken' => \A c \in Callers :
                           pc'[c] \in InPlan => pc'[c] \in {"finished", "failed"}
    BY <1>3 DEF AppliedIsSpent
  <2>1. TokensMove /\ Advances
    BY <1>3, HostStepTokens, HostStepAdvances
  <2>2. sent[t] = 1 /\ t \in minted /\ t # RetainedToken /\ t # CreatedToken /\ t # NoToken
    BY <1>1 DEF AppliedIsSpent
  <2>3. t \in minted' /\ t # RetainedToken' /\ t # CreatedToken'
    BY <2>1, <2>2 DEF TokensMove
  <2>4. ASSUME t = HeldToken', NEW c \in Callers, pc'[c] \in InPlan
        PROVE  pc'[c] \in {"finished", "failed"}
    <3>1. t = HeldToken
      BY <2>1, <2>2, <2>4 DEF TokensMove
    <3>2. active # NoOperation
      BY <1>1, <2>2, <3>1 DEF HeldToken, HeldPlan, Holds, PlanInv, BegunIsActive
    <3> QED BY <2>1, <2>2, <2>4, <3>1, <3>2 DEF Advances, AppliedIsSpent
  <2> QED BY <2>2, <2>3, <2>4
<1>4. ASSUME NEW c \in Callers, Writes(c)
      PROVE  AppliedIsSpent'
  <2>1. /\ begun.plan \in Plan /\ HeldPlan = begun.plan /\ HeldPlan # NoPlan
        /\ begun.plan.token \in Tokens
    <3>1. begun \in Begun /\ begun.kind = "apply"
      BY <1>1, <1>4 DEF Writes, Holds, PlanInv, PlanTypeOK
    <3>2. begun.plan \in Plan
      BY <3>1, HeldByKind
    <3> QED BY <1>4, <3>1, <3>2, PlanAssumption DEF Writes, HeldPlan, Holds, Plan
  <2>2. HeldToken = begun.plan.token /\ HeldToken \in Tokens
    BY <2>1 DEF HeldToken
  <2>3. HeldToken \in minted /\ HeldToken # RetainedToken /\ HeldToken # CreatedToken
    BY <1>1, <2>2, OneLiveToken
  <2>4. /\ UNCHANGED <<RetainedToken, CreatedToken, HeldToken, minted>>
    BY <1>4 DEF Writes, planVars, innerVars, RetainedToken, CreatedToken, HeldToken, HeldPlan,
       Holds
  <2>5. sent[HeldToken] = 0
    <3>1. pc[c] \in InPlan /\ pc[c] \notin {"finished", "failed"}
      BY <1>4 DEF Writes, InPlan
    <3> QED BY <2>2, <3>1 DEF AppliedIsSpent
  <2>6. \A t \in Tokens : sent'[t] = IF t = HeldToken THEN 1 ELSE sent[t]
    BY <1>4, <2>2, <2>5 DEF Writes, HostBase, HostTypeOK
  <2>7. \A d \in Callers : pc'[d] \in InPlan => pc'[d] \in {"finished", "failed"}
    <3>1. pc'[c] \in {"finished", "failed"}
      BY <1>4 DEF Writes, HostBase, HostTypeOK
    <3>2. \A d \in Callers : pc'[d] \in InPlan => d = c
      BY <3>1 DEF Owned, InClaim, InPlan
    <3> QED BY <3>1, <3>2
  <2> QED BY <2>3, <2>4, <2>6, <2>7 DEF AppliedIsSpent
<1> QED BY <1>2, <1>3, <1>4, HostStepSent

\* No token is written to the sidecar in two plan.apply requests, whatever the
\* callers do, in whatever order, over whatever sessions.
THEOREM TokensAppliedOnce == HostSpec => []AppliedOnce
<1>1. HostBase /\ AppliedIsSpent => AppliedOnce
  BY DEF AppliedIsSpent, AppliedOnce
<1>2. HostBase /\ Owned /\ Owned' /\ AppliedIsSpent /\ [HostNext]_<<planVars, hostVars>>
        => AppliedIsSpent'
  BY AppliedNext
<1>3. HostBase /\ Owned /\ [HostNext]_<<planVars, hostVars>> => Owned'
  BY OwnedNext
<1> QED BY <1>1, <1>2, <1>3, AppliedInit, OwnedInit, HostBaseInvariance, PTL DEF HostSpec

-----------------------------------------------------------------------------
\* What the host shows and what it retains.

\* The status served while a command runs is the one the last command left.
THEOREM CacheAlwaysCurrent == HostSpec => []CacheIsLastCompleted
<1>1. HostInit => CacheIsLastCompleted
  BY DEF HostInit, CacheIsLastCompleted
<1>2. CacheIsLastCompleted /\ [HostNext]_<<planVars, hostVars>> => CacheIsLastCompleted'
  <2> SUFFICES ASSUME CacheIsLastCompleted, [HostNext]_<<planVars, hostVars>>
               PROVE  CacheIsLastCompleted'
    OBVIOUS
  <2> USE DEF CacheIsLastCompleted
  <2>1. ASSUME NEW c \in Callers, PlanStep(c)
        PROVE  CacheIsLastCompleted'
    BY <2>1, HostAssumption DEF PlanStep, BeginPlan, Announce, AnnounceFails, LockForPlan,
       UseAnswered, CallRejected, CallFatal, CallWithoutProcess, CreateAnswered, Retain,
       FinishPlan, Recheck, Invalidate, Acquire, Release, supervisorVars
  <2>2. ASSUME NEW c \in Callers,
               TeardownStep(c) \/ IdentityStep(c) \/ Read(c) \/ CaptureContext(c)
                 \/ ReadStatus(c) \/ AnnounceTeardown(c) \/ ReserveIdentity(c) \/ LockForRead(c)
        PROVE  CacheIsLastCompleted'
    BY <2>2, HostAssumption DEF TeardownStep, LockForTeardown, StartReady, StartSession,
       StartFails, Stop, IdentityStep, LockForIdentity, Open, DropReservation, Read,
       CaptureContext, ReadStatus, AnnounceTeardown, ReserveIdentity, LockForRead, Acquire,
       Release, supervisorVars
  <2>3. CASE ChildBreaks \/ CancelPlan \/ Expiry \/ UNCHANGED <<planVars, hostVars>>
    BY <2>3 DEF ChildBreaks, CancelPlan, Expiry, hostVars, supervisorVars
  <2> QED BY <2>1, <2>2, <2>3 DEF HostNext, Proceed
<1> QED BY <1>1, <1>2, PTL DEF HostSpec

\* A host that says it is ready owns a child, unless a read was malformed.
THEOREM ReadyAlwaysOwnsChild == HostSpec /\ ~MalformedReads => []ReadyOwnsChild
<1> SUFFICES ASSUME ~MalformedReads PROVE HostSpec => []ReadyOwnsChild
  OBVIOUS
<1>1. HostInit => ReadyOwnsChild
  BY DEF HostInit, ReadyOwnsChild
<1>2. ReadyOwnsChild /\ [HostNext]_<<planVars, hostVars>> => ReadyOwnsChild'
  <2> SUFFICES ASSUME ReadyOwnsChild, [HostNext]_<<planVars, hostVars>>
               PROVE  ReadyOwnsChild'
    OBVIOUS
  <2> USE DEF ReadyOwnsChild
  <2>1. ASSUME NEW c \in Callers, PlanStep(c)
        PROVE  ReadyOwnsChild'
    BY <2>1 DEF PlanStep, BeginPlan, Announce, AnnounceFails, LockForPlan,
       UseAnswered, CallRejected, CallFatal, CallWithoutProcess, CreateAnswered, Retain,
       FinishPlan, Recheck, Invalidate, Inspected, Terminated, supervisorVars
  <2>2. ASSUME NEW c \in Callers,
               TeardownStep(c) \/ IdentityStep(c) \/ Read(c) \/ CaptureContext(c)
                 \/ ReadStatus(c) \/ AnnounceTeardown(c) \/ ReserveIdentity(c) \/ LockForRead(c)
        PROVE  ReadyOwnsChild'
    BY <2>2 DEF TeardownStep, LockForTeardown, StartReady, StartSession,
       StartFails, Stop, IdentityStep, LockForIdentity, Open, DropReservation, Read,
       CaptureContext, ReadStatus, AnnounceTeardown, ReserveIdentity, LockForRead, Inspected,
       Terminated, supervisorVars
  <2>3. CASE ChildBreaks \/ CancelPlan \/ Expiry \/ UNCHANGED <<planVars, hostVars>>
    BY <2>3 DEF ChildBreaks, CancelPlan, Expiry, hostVars, supervisorVars
  <2> QED BY <2>1, <2>2, <2>3 DEF HostNext, Proceed
<1> QED BY <1>1, <1>2, PTL DEF HostSpec

\* No plan is of a session yet to come, and one of this session is about the
\* project and sources the session has.
RetainedFits ==
  retained # NoPlan =>
    /\ retained.generation <= session
    /\ retained.generation = session => Covers(Current, retained.project, retained.sources)

LEMMA FitsKept ==
  ASSUME RetainedFits, retained' \in {retained, NoPlan}, UNCHANGED <<session, project, sources>>
  PROVE  RetainedFits'
BY DEF RetainedFits, Covers, Current

LEMMA RetainedFitsNext ==
  ASSUME HostBase, Owned, RetainedFits, [HostNext]_<<planVars, hostVars>>
  PROVE  RetainedFits'
<1>1. CASE UNCHANGED planVars /\ UNCHANGED <<session, project, sources>>
  BY <1>1, FitsKept DEF planVars, innerVars
<1>2. ASSUME NEW c \in Callers, PlanStep(c)
      PROVE  RetainedFits'
  <2>1. CASE BeginPlan(c)
    BY <2>1, FitsKept, UnexpiredFacts DEF BeginPlan, supervisorVars, Begin, BeginRefused,
       BeginUnauthentic, BeginCreate, BeginUse
  <2>2. CASE AnnounceFails(c) \/ FinishPlan(c) \/ Invalidate(c)
    BY <2>2, FitsKept DEF AnnounceFails, FinishPlan, Invalidate, supervisorVars, Cancel, Finish,
       InvalidateAll
  <2>3. CASE Announce(c) \/ LockForPlan(c) \/ UseAnswered(c) \/ CallRejected(c)
             \/ CallFatal(c) \/ CallWithoutProcess(c) \/ Recheck(c)
    BY <1>1, <2>3 DEF Announce, LockForPlan, UseAnswered, CallRejected, CallFatal,
       CallWithoutProcess, Recheck, Inspected, Terminated, supervisorVars
  <2>4. CASE CreateAnswered(c)
    BY <2>4, FitsKept DEF CreateAnswered, SidecarMints, innerVars, Terminated, supervisorVars
  <2>5. CASE Retain(c)
    <3>1. RetainCreated(Current, clock) /\ UNCHANGED <<session, project, sources>>
      BY <2>5 DEF Retain, Terminated, supervisorVars
    <3>2. CASE MayRetain(Current)
      <4>1. /\ retained'.generation = session /\ retained'.project = begun.project
            /\ retained'.sources = begun.sources
            /\ Covers(Current, begun.project, begun.sources)
        BY <3>1, <3>2 DEF RetainCreated, MayRetain, Current
      <4> QED BY <3>1, <4>1, HostAssumption
              DEF RetainedFits, Covers, Current, HostBase, HostTypeOK
    <3>3. CASE ~MayRetain(Current)
      BY <3>1, <3>3, FitsKept DEF RetainCreated
    <3> QED BY <3>2, <3>3
  <2> QED BY <1>2, <2>1, <2>2, <2>3, <2>4, <2>5 DEF PlanStep
<1>3. ASSUME NEW c \in Callers, StartSession(c)
      PROVE  RetainedFits'
  <2>1. retained' = retained /\ session' = session + 1 /\ session \in Nat
    BY <1>3, HostAssumption DEF StartSession, planVars, innerVars, HostBase, HostTypeOK
  <2>2. retained # NoPlan => retained.generation \in Nat
    BY DEF HostBase, PlanInv, PlanTypeOK, Plan
  <2> QED BY <2>1, <2>2 DEF RetainedFits
<1>4. ASSUME NEW c \in Callers, Open(c)
      PROVE  RetainedFits'
  <2>1. identityChange
    BY <1>4 DEF Open, At, Owned, InIdentity
  <2>2. retained' = NoPlan
    BY <1>4, <2>1 DEF Open, planVars, innerVars, HostBase, PlanInv, IdentityExclusive
  <2> QED BY <2>2 DEF RetainedFits
<1>5. ASSUME NEW c \in Callers,
             LockForTeardown(c) \/ StartReady(c) \/ StartFails(c) \/ Stop(c)
               \/ LockForIdentity(c) \/ Read(c) \/ CaptureContext(c) \/ ReadStatus(c)
               \/ LockForRead(c)
      PROVE  RetainedFits'
  BY <1>1, <1>5 DEF LockForTeardown, StartReady, StartFails, Stop, LockForIdentity, Read,
     CaptureContext, ReadStatus, LockForRead, Inspected, Terminated, supervisorVars
<1>6. ASSUME NEW c \in Callers, DropReservation(c) \/ AnnounceTeardown(c) \/ ReserveIdentity(c)
      PROVE  RetainedFits'
  BY <1>6, FitsKept, UnexpiredFacts DEF DropReservation, EndIdentityChange, AnnounceTeardown,
     InvalidateAll, ReserveIdentity, BeginIdentityChange, IdentityChangeRefused, supervisorVars
<1>7. CASE ChildBreaks \/ UNCHANGED <<planVars, hostVars>>
  BY <1>1, <1>7 DEF ChildBreaks, hostVars, supervisorVars
<1>8. CASE CancelPlan \/ Expiry
  BY <1>8, FitsKept, UnexpiredFacts DEF CancelPlan, Cancel, Expiry, ExpiryTurn, Tick, innerVars,
     hostVars, supervisorVars
<1> QED BY <1>2, <1>3, <1>4, <1>5, <1>6, <1>7, <1>8
        DEF HostNext, Proceed, TeardownStep, IdentityStep

\* While the user has a plan of the running session before them, nobody replaces
\* the project or the sources it was made for.
THEOREM RetainedStaysCurrent == HostSpec => []RetainedIsCurrent
<1>1. HostInit => RetainedFits
  BY DEF HostInit, PlanInit, RetainedFits
<1>2. RetainedFits => RetainedIsCurrent
  BY DEF RetainedFits, RetainedIsCurrent
<1>3. HostBase /\ Owned /\ RetainedFits /\ [HostNext]_<<planVars, hostVars>> => RetainedFits'
  BY RetainedFitsNext
<1>4. HostBase /\ Owned /\ [HostNext]_<<planVars, hostVars>> => Owned'
  BY OwnedNext
<1> QED BY <1>1, <1>2, <1>3, <1>4, OwnedInit, HostBaseInvariance, PTL DEF HostSpec
===============================================================================
