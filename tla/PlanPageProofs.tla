----------------------------- MODULE PlanPageProofs -----------------------------
(***************************************************************************)
(* Proofs about PlanPage, for any number of operations, identities and     *)
(* stages of progress.  A plan under review is of the identity of now and  *)
(* not given out because no operation is under way beside it: the plan is  *)
(* on the page either under review, with the channel free, or in the hands *)
(* of the operation of this generation.  An event is not called invalid    *)
(* because the wire holds later and later events of one operation, all of  *)
(* them later than what is shown.                                          *)
(***************************************************************************)
EXTENDS PlanPage, TLAPS

Plan == [op : Nat, identity : Nat]
Lanes == {"planning", "applying"}
At == [lane : Lanes, position : Nat]
Event == [op : Nat, sequence : Nat, at : At \cup {None}, cancelling : BOOLEAN]
Answers == {"ready", "applied", "indeterminate", "discarded", "failed", "stale", "cancelled",
            "preserve"}
Stages == {"sent", "runs", "retained", "answered"}
States == Busy \cup {"idle", "ready", "expired", "applied", "indeterminate", "discarded", "failed",
                     "stale", "cancelled"}

View == [state : States, plan : Plan \cup {None}, handle : Nat \cup {None}, last : Nat,
         at : At \cup {None}, checked : BOOLEAN,
         refused : [event : Event, state : States] \cup {None}]
Call == [op : Nat, kind : {"planning", "applying", "discarding"}, plan : Plan \cup {None},
         generation : Nat, identity : Nat, stage : Stages, sequence : Nat, position : Nat,
         cancel : BOOLEAN, told : BOOLEAN, wire : Seq(Event), answer : Answers \cup {None}]

Run == [generation : Nat \ {0}, inFlight : BOOLEAN, identity : Nat, started : Nat]

PageTypeOK ==
  /\ view \in View
  /\ run \in Run
  /\ call # None => call \in Call
  /\ \A done \in after :
       /\ done.generation \in Nat \ {0}
       /\ done.answer \in {"applied", "indeterminate"}
  /\ kept \in [plan : Plan \cup {None}, used : SUBSET Nat, mismatch : SUBSET Nat]

Mine == call.generation = run.generation
Lane == IF call.kind = "applying" THEN "applying" ELSE "planning"

\* What is under way was started before, for the generation and the identity it knows.
CallInOrder ==
  call # None =>
    /\ call.op <= run.started /\ call.generation <= run.generation
    /\ Mine => call.identity = run.identity
    /\ call.kind # "planning" => call.plan \in Plan /\ call.plan.op < call.op
    /\ call.stage \in {"retained", "answered"} =>
         /\ call.answer \in Answers
         /\ call.answer = "preserve" /\ call.kind # "planning" => call.plan.op \in kept.mismatch

\* A generation is reconciled after its answer.
AfterInOrder ==
  \A done \in after :
    /\ done.generation <= run.generation
    /\ call # None => done.generation # call.generation

\* A plan is under review with the channel free, or in use by what is under way.
PlanInHand ==
  /\ view.state = "ready" => call = None /\ view.plan \in Plan /\ view.plan.op <= run.started
  /\ view.plan # None => view.plan.op <= run.started
  /\ view.plan # None /\ view.state # "ready" =>
       /\ run.inFlight
       /\ \/ \E done \in after : done.generation = run.generation
          \/ Mine /\ call.kind # "planning" /\ call.plan = view.plan

UsedInOrder ==
  \A op \in kept.used : op <= run.started /\ (call # None => op < call.op)

\* The events of a wire come one after the other, and are of the call.
Ordered(w) ==
  \A i, j \in 1..Len(w) : i < j =>
    /\ w[i].sequence < w[j].sequence
    /\ w[i].at # None /\ w[j].at # None => w[i].at.position < w[j].at.position
Sent(w, op, lane, sequence, position) ==
  \A i \in 1..Len(w) :
    /\ w[i].op = op /\ w[i].sequence <= sequence
    /\ w[i].at # None => w[i].at.lane = lane /\ w[i].at.position <= position
\* They are later than what is shown.
Beyond(w, shown, at) ==
  \A i \in 1..Len(w) :
    /\ shown < w[i].sequence
    /\ at # None /\ w[i].at # None => at.position < w[i].at.position

WireInOrder ==
  call # None =>
    /\ Ordered(call.wire)
    /\ Sent(call.wire, call.op, Lane, call.sequence, call.position)
    /\ Mine =>
         /\ Beyond(call.wire, view.last, view.at)
         /\ view.last <= call.sequence
         /\ view.handle \in {None, call.op}
         /\ view.at # None => view.at.lane = Lane /\ view.at.position <= call.position
         /\ call.kind # "applying" => view.state # "applying"

PageInv ==
  /\ PageTypeOK /\ CallInOrder /\ AfterInOrder /\ PlanInHand /\ UsedInOrder /\ WireInOrder
  /\ PageInStep
-----------------------------------------------------------------------------

LEMMA PageInvInit == PageInit => PageInv
<1> SUFFICES ASSUME PageInit PROVE PageInv
  OBVIOUS
<1>1. PageTypeOK
  BY DEF PageInit, InitialPlanState, PageTypeOK, View, States, Run
<1>2. call = None /\ after = {} /\ view.plan = None /\ view.refused = None /\ view.state = "idle"
      /\ kept.used = {}
  BY DEF PageInit, InitialPlanState
<1> QED
  BY <1>1, <1>2 DEF PageInv, CallInOrder, AfterInOrder, PlanInHand, UsedInOrder, WireInOrder,
     PageInStep, PlanOfThisIdentity, ReviewedPlanIsUnused, GoodEventsAreShown

\* An operation that is called is in order, and nothing of it is on the wire.
LEMMA CalledInOrder ==
  ASSUME NEW op \in Nat, NEW kind \in {"planning", "applying", "discarding"},
         NEW plan \in Plan \cup {None}, NEW generation \in Nat, PageTypeOK
  PROVE  /\ Called(op, kind, plan, generation) \in Call
         /\ Called(op, kind, plan, generation).wire = <<>>
BY DEF Called, Call, PageTypeOK, Stages, Run

LEMMA OperateKeeps ==
  ASSUME PageInv, NEW kind \in {"planning", "applying", "discarding"}, Operate(kind)
  PROVE  PageInv'
<1> USE DEF PageInv
<1>0. /\ run.generation \in Nat \ {0} /\ run.started \in Nat /\ run.identity \in Nat
      /\ view \in View /\ view.plan \in Plan \cup {None}
      /\ run'.generation = run.generation + 1 /\ run'.started = run.started + 1
      /\ run'.identity = run.identity /\ run'.inFlight = (call = None)
      /\ after' = after /\ kept' = kept /\ run' \in Run
  <2>1. /\ run \in Run /\ view \in View /\ (call = None) \in BOOLEAN
        /\ run' = [run EXCEPT !.generation = @ + 1, !.started = @ + 1, !.inFlight = (call = None)]
    BY DEF PageTypeOK, Operate
  <2>2. run.generation + 1 \in Nat \ {0} /\ run.started + 1 \in Nat
    BY <2>1 DEF Run
  <2> QED BY <2>1, <2>2 DEF View, Run, Operate
<1>1. CASE call = None
  <2> DEFINE new == Called(run.started + 1, kind, view.plan, run.generation + 1)
  <2>0. /\ call' = new /\ view' = Underway(kind)
        /\ new \in Call /\ new.wire = <<>> /\ new.op = run.started + 1 /\ new.kind = kind
        /\ new.plan = view.plan /\ new.generation = run.generation + 1
        /\ new.identity = run.identity /\ new.stage = "sent" /\ new.sequence = 0 /\ new.answer = None
    <3>1. new \in Call /\ new.wire = <<>>
      <4>1. run.started + 1 \in Nat /\ run.generation + 1 \in Nat
        BY <1>0
      <4> QED BY <1>0, <4>1, CalledInOrder
    <3>2. call' = new /\ view' = Underway(kind)
      BY <1>1 DEF Operate
    <3>3. /\ new.op = run.started + 1 /\ new.kind = kind
          /\ new.plan = view.plan /\ new.generation = run.generation + 1
          /\ new.identity = run.identity /\ new.stage = "sent" /\ new.sequence = 0
          /\ new.answer = None
      BY DEF Called
    <3> QED BY <3>1, <3>2, <3>3
  <2> HIDE DEF new
  <2>1. /\ view'.state = kind /\ view'.plan = view.plan /\ view'.handle = None /\ view'.last = 0
        /\ view'.at = None /\ view'.refused = None /\ view' \in View
    <3>1. Underway(kind) \in View
      BY <1>0 DEF Underway, View, States, Busy
    <3> QED BY <1>0, <2>0, <3>1 DEF Underway, View
  <2>2. kind # "planning" => view.state = "ready"
    BY DEF Operate, MayOperate
  <2>3. kind = "planning" => view.plan = None
    BY <1>1 DEF Operate, MayOperate, PlanInHand, Mine
  <2>4. PageTypeOK'
    BY <1>0, <2>0, <2>1 DEF PageTypeOK, Operate
  <2>5. view.plan # None \/ kind # "planning" =>
          view.plan.op \in Nat /\ view.plan.op <= run.started
    BY <1>0, <2>2 DEF PlanInHand, Plan
  <2>6. CallInOrder'
    BY <1>0, <2>0, <2>2, <2>5 DEF CallInOrder, PlanInHand, Mine
  <2>7. AfterInOrder'
    <3>1. \A done \in after : done.generation \in Nat
      BY DEF PageTypeOK
    <3> QED BY <1>0, <2>0, <3>1 DEF AfterInOrder
  <2>8. UsedInOrder'
    <3>1. kept.used \subseteq Nat
      BY DEF PageTypeOK
    <3> QED BY <1>0, <2>0, <3>1 DEF UsedInOrder
  <2>9. PlanInHand'
    <3>1. run'.inFlight /\ Mine'
      BY <1>0, <1>1, <2>0 DEF Mine, Operate
    <3> QED BY <1>0, <2>0, <2>1, <2>3, <2>5, <3>1 DEF PlanInHand
  <2>10. WireInOrder'
    BY <1>0, <2>0, <2>1 DEF WireInOrder, Ordered, Sent, Beyond, Mine
  <2>11. PageInStep'
    BY <1>0, <2>1 DEF PageInStep, PlanOfThisIdentity, ReviewedPlanIsUnused, GoodEventsAreShown
  <2> QED BY <2>4, <2>6, <2>7, <2>8, <2>9, <2>10, <2>11
<1>2. CASE call # None
  <2>0. call' = call /\ view' = [Underway(kind) EXCEPT !.state = "failed", !.plan = None]
    BY <1>2 DEF Operate
  <2>1. /\ view'.state = "failed" /\ view'.plan = None /\ view'.refused = None /\ view' \in View
    BY <1>0, <2>0 DEF Underway, View, States
  <2>2. call \in Call /\ ~Mine'
    BY <1>0, <1>2, <2>0 DEF PageTypeOK, Mine, CallInOrder, Call
  <2>4. PageTypeOK'
    BY <1>0, <2>0, <2>1, <2>2 DEF PageTypeOK, Operate
  <2>5. CallInOrder' /\ AfterInOrder' /\ UsedInOrder'
    BY <1>0, <2>0, <2>2 DEF CallInOrder, AfterInOrder, UsedInOrder, PageTypeOK, Call
  <2>6. PlanInHand'
    BY <2>1 DEF PlanInHand
  <2>7. WireInOrder'
    BY <2>0, <2>2 DEF WireInOrder, Lane
  <2>8. PageInStep'
    BY <2>1 DEF PageInStep, PlanOfThisIdentity, ReviewedPlanIsUnused, GoodEventsAreShown
  <2> QED BY <2>4, <2>5, <2>6, <2>7, <2>8
<1> QED BY <1>1, <1>2
-----------------------------------------------------------------------------
(* What is on a wire.                                                      *)

\* A wire takes an event later than all it has.
LEMMA WireGrows ==
  ASSUME NEW w \in Seq(Event), NEW e \in Event, NEW op, NEW lane, NEW sequence \in Nat,
         NEW position \in Nat, NEW reached \in Nat, NEW shown \in Nat, NEW at,
         Ordered(w), Sent(w, op, lane, sequence, position),
         e.op = op, e.sequence = sequence + 1, position <= reached,
         e.at # None => e.at.lane = lane /\ e.at.position = position + 1 /\ reached = position + 1
  PROVE  /\ Append(w, e) \in Seq(Event)
         /\ Ordered(Append(w, e))
         /\ Sent(Append(w, e), op, lane, sequence + 1, reached)
         /\ /\ Beyond(w, shown, at) /\ shown <= sequence
            /\ at # None => at.position \in Nat /\ at.position <= position
            => Beyond(Append(w, e), shown, at)
<1> DEFINE v == Append(w, e)
<1>1. /\ v \in Seq(Event) /\ Len(v) = Len(w) + 1 /\ Len(w) \in Nat
      /\ \A i \in 1..Len(w) : v[i] = w[i] /\ w[i] \in Event
      /\ v[Len(w) + 1] = e
  OBVIOUS
<1>2. \A i \in 1..Len(v) : i \in 1..Len(w) \/ i = Len(w) + 1
  BY <1>1
<1>3. \A i \in 1..Len(w) :
        /\ w[i].sequence \in Nat
        /\ w[i].at # None => w[i].at.position \in Nat
  BY <1>1 DEF Event, At
<1> HIDE DEF v
<1>4. Ordered(v)
  <2> SUFFICES ASSUME NEW i \in 1..Len(v), NEW j \in 1..Len(v), i < j
               PROVE  /\ v[i].sequence < v[j].sequence
                      /\ v[i].at # None /\ v[j].at # None => v[i].at.position < v[j].at.position
    BY DEF Ordered
  <2>1. i \in 1..Len(w)
    BY <1>1, <1>2
  <2>2. CASE j \in 1..Len(w)
    BY <1>1, <2>1, <2>2 DEF Ordered
  <2>3. CASE j = Len(w) + 1
    BY <1>1, <1>3, <2>1, <2>3 DEF Sent
  <2> QED BY <1>2, <2>2, <2>3
<1>5. Sent(v, op, lane, sequence + 1, reached)
  <2> SUFFICES ASSUME NEW i \in 1..Len(v)
               PROVE  /\ v[i].op = op /\ v[i].sequence <= sequence + 1
                      /\ v[i].at # None => v[i].at.lane = lane /\ v[i].at.position <= reached
    BY DEF Sent
  <2>1. CASE i \in 1..Len(w)
    BY <1>1, <1>3, <2>1 DEF Sent
  <2>2. CASE i = Len(w) + 1
    BY <1>1, <2>2
  <2> QED BY <1>2, <2>1, <2>2
<1>6. ASSUME Beyond(w, shown, at), shown <= sequence,
             at # None => at.position \in Nat /\ at.position <= position
      PROVE  Beyond(v, shown, at)
  <2> SUFFICES ASSUME NEW i \in 1..Len(v)
               PROVE  /\ shown < v[i].sequence
                      /\ at # None /\ v[i].at # None => at.position < v[i].at.position
    BY DEF Beyond
  <2>1. CASE i \in 1..Len(w)
    BY <1>1, <1>6, <2>1 DEF Beyond
  <2>2. CASE i = Len(w) + 1
    BY <1>1, <1>6, <2>2
  <2> QED BY <1>2, <2>1, <2>2
<1> QED BY <1>1, <1>4, <1>5, <1>6 DEF v

\* When the first event is taken the others are later than it.
LEMMA WireShrinks ==
  ASSUME NEW w \in Seq(Event), w # <<>>, NEW op, NEW lane, NEW sequence, NEW position,
         NEW shown, NEW at, Ordered(w), Sent(w, op, lane, sequence, position)
  PROVE  /\ Head(w) \in Event /\ Tail(w) \in Seq(Event)
         /\ Ordered(Tail(w)) /\ Sent(Tail(w), op, lane, sequence, position)
         /\ Beyond(Tail(w), Head(w).sequence, Head(w).at)
         /\ Beyond(w, shown, at) => Beyond(Tail(w), shown, at)
         /\ Head(w).op = op /\ Head(w).sequence <= sequence
         /\ Head(w).at # None => Head(w).at.lane = lane /\ Head(w).at.position <= position
         /\ Beyond(w, shown, at) =>
              /\ shown < Head(w).sequence
              /\ at # None /\ Head(w).at # None => at.position < Head(w).at.position
<1> DEFINE v == Tail(w)
<1>1. /\ v \in Seq(Event) /\ Len(v) = Len(w) - 1 /\ Len(w) \in Nat \ {0}
      /\ Head(w) = w[1] /\ w[1] \in Event
      /\ \A i \in 1..Len(v) : v[i] = w[i + 1]
  OBVIOUS
<1>2. \A i \in 1..Len(v) : i + 1 \in 1..Len(w) /\ 1 < i + 1
  BY <1>1
<1>3. 1 \in 1..Len(w)
  BY <1>1
<1> HIDE DEF v
<1>4. Ordered(v)
  <2> SUFFICES ASSUME NEW i \in 1..Len(v), NEW j \in 1..Len(v), i < j
               PROVE  /\ v[i].sequence < v[j].sequence
                      /\ v[i].at # None /\ v[j].at # None => v[i].at.position < v[j].at.position
    BY DEF Ordered
  <2>1. i + 1 < j + 1 /\ i + 1 \in 1..Len(w) /\ j + 1 \in 1..Len(w)
    BY <1>1, <1>2
  <2> QED BY <1>1, <2>1 DEF Ordered
<1>5. Sent(v, op, lane, sequence, position)
  BY <1>1, <1>2 DEF Sent
<1>6. Beyond(v, w[1].sequence, w[1].at)
  BY <1>1, <1>2, <1>3 DEF Ordered, Beyond
<1>7. Beyond(w, shown, at) => Beyond(v, shown, at)
  BY <1>1, <1>2 DEF Beyond
<1> QED BY <1>1, <1>3, <1>4, <1>5, <1>6, <1>7 DEF v, Sent, Beyond
-----------------------------------------------------------------------------
(* The page.                                                               *)

\* The view changes for the operation of this generation, or that operation is over.
LEMMA PageMoves ==
  ASSUME PageInv, view' \in View, run' \in Run, kept' = kept,
         run'.generation = run.generation, run'.identity = run.identity,
         run'.started = run.started,
         call' = call \/ call' = None,
         \A done \in after' :
           \/ done \in after
           \/ /\ call # None /\ call' = None /\ done.generation = call.generation /\ Mine
              /\ done.answer \in {"applied", "indeterminate"},
         view'.last = view.last, view'.at \in {view.at, None}, view'.handle \in {view.handle, None},
         view'.state # "applying" \/ view'.state = view.state,
         PlanInHand', PlanOfThisIdentity', ReviewedPlanIsUnused', GoodEventsAreShown'
  PROVE  PageInv'
<1> USE DEF PageInv
<1>1. call' # None => call' = call /\ call # None
  OBVIOUS
<1>2. Mine' <=> call'.generation = run.generation
  BY DEF Mine
<1>3. PageTypeOK'
  BY <1>1 DEF PageTypeOK, Run, Mine
<1>4. CallInOrder' /\ UsedInOrder'
  BY <1>1, <1>2 DEF CallInOrder, UsedInOrder, Mine
<1>5. AfterInOrder'
  BY <1>1 DEF AfterInOrder, PageTypeOK, Run, Mine
<1>6. WireInOrder'
  <2> SUFFICES ASSUME call' # None PROVE WireInOrder'
    BY DEF WireInOrder
  <2>1. call' = call /\ call # None /\ Lane' = Lane
    BY <1>1 DEF Lane
  <2>2. Mine => Beyond(call.wire, view'.last, view'.at)
    BY <2>1 DEF WireInOrder, Beyond
  <2> QED BY <1>2, <2>1, <2>2 DEF WireInOrder, Mine
<1> QED BY <1>3, <1>4, <1>5, <1>6 DEF PageInStep

LEMMA PageFacts ==
  ASSUME PageInv
  PROVE  /\ view \in View /\ run \in Run
         /\ run.generation \in Nat \ {0} /\ run.started \in Nat /\ run.identity \in Nat
         /\ view.plan \in Plan \cup {None} /\ view.state \in States /\ view.last \in Nat
         /\ view.at \in At \cup {None}
         /\ call # None => call \in Call /\ call.wire \in Seq(Event) /\ view.state # "ready"
         /\ view.state = "ready" => call = None
         /\ PlanInHand /\ PlanOfThisIdentity /\ ReviewedPlanIsUnused /\ GoodEventsAreShown
BY DEF PageInv, PageTypeOK, View, Run, Call, PlanInHand, PageInStep

\* The review is over: acknowledged, expired, or given up with an error.
LEMMA ReviewKeeps ==
  ASSUME PageInv, Acknowledge \/ Expire \/ Asked
  PROVE  PageInv'
<1>1. /\ UNCHANGED <<run, call, after, kept>>
      /\ \/ view' = view
         \/ view' = [view EXCEPT !.checked = ~@]
         \/ view' = [view EXCEPT !.state = "expired", !.plan = None, !.checked = FALSE]
         \/ view' = Ended("failed")
  BY DEF Acknowledge, Expire, Asked
<1>2. /\ view' \in View /\ view'.last = view.last /\ view'.at = view.at
      /\ view'.handle \in {view.handle, None} /\ view'.refused = view.refused
      /\ \/ view'.plan = view.plan /\ view'.state = view.state
         \/ view'.plan = None /\ view'.state \in {"expired", "failed"}
  BY <1>1, PageFacts DEF Ended, View, States
<1>3. PlanInHand' /\ PlanOfThisIdentity' /\ ReviewedPlanIsUnused' /\ GoodEventsAreShown'
  BY <1>1, <1>2, PageFacts DEF PlanInHand, PlanOfThisIdentity, ReviewedPlanIsUnused,
     GoodEventsAreShown, Mine
<1> QED BY <1>1, <1>2, <1>3, PageFacts, PageMoves

LEMMA ReconciledKeeps ==
  ASSUME PageInv, Reconciled
  PROVE  PageInv'
<1>1. PICK done \in after :
        /\ after' = after \ {done}
        /\ IF done.generation = run.generation
             THEN view' = Ended(done.answer) /\ run' = [run EXCEPT !.inFlight = FALSE]
             ELSE UNCHANGED <<view, run>>
        /\ UNCHANGED <<call, ask, quiet, kept>>
  BY DEF Reconciled
<1>2. done.answer \in {"applied", "indeterminate"}
  BY DEF PageInv, PageTypeOK
<1>3. CASE done.generation = run.generation
  <2>1. /\ view' \in View /\ view'.last = view.last /\ view'.at = view.at /\ view'.handle = None
        /\ view'.refused = view.refused /\ view'.plan = None /\ view'.state = done.answer
        /\ run' \in Run /\ run'.generation = run.generation /\ run'.identity = run.identity
        /\ run'.started = run.started
    <3>1. done.answer \in States
      BY <1>2 DEF States
    <3>2. view' = Ended(done.answer) /\ run' = [run EXCEPT !.inFlight = FALSE]
      BY <1>1, <1>3
    <3>3. /\ view' \in View /\ view'.last = view.last /\ view'.at = view.at /\ view'.handle = None
          /\ view'.refused = view.refused /\ view'.plan = None /\ view'.state = done.answer
      BY <3>1, <3>2, PageFacts DEF Ended, View
    <3> QED BY <3>2, <3>3, PageFacts DEF Run
  <2>2. PlanInHand' /\ PlanOfThisIdentity' /\ ReviewedPlanIsUnused' /\ GoodEventsAreShown'
    BY <1>2, <2>1, PageFacts DEF PlanInHand, PlanOfThisIdentity, ReviewedPlanIsUnused,
       GoodEventsAreShown
  <2> QED BY <1>1, <1>2, <2>1, <2>2, PageMoves
<1>4. CASE done.generation # run.generation
  <2>1. UNCHANGED <<view, run, call, kept>> /\ after' \subseteq after
    BY <1>1, <1>4
  <2>2. PlanInHand' /\ PlanOfThisIdentity' /\ ReviewedPlanIsUnused' /\ GoodEventsAreShown'
    BY <1>1, <1>4, <2>1, PageFacts DEF PlanInHand, PlanOfThisIdentity, ReviewedPlanIsUnused,
       GoodEventsAreShown, Mine
  <2> QED BY <2>1, <2>2, PageFacts, PageMoves
<1> QED BY <1>3, <1>4

LEMMA LeaveKeeps ==
  ASSUME PageInv, Leave
  PROVE  PageInv'
<1> USE DEF PageInv
<1> DEFINE discards == ~(view.state \in Busy /\ view.handle # None) /\ view.plan # None /\ call = None
           new == Called(run.started + 1, "discarding", view.plan, 0)
<1>0. /\ call' = (IF discards THEN new ELSE call)
      /\ run' = [run EXCEPT !.generation = @ + 1, !.identity = @ + 1, !.inFlight = FALSE,
                            !.started = IF discards THEN @ + 1 ELSE @]
      /\ view' = InitialPlanState /\ after' = after /\ kept' = kept
  BY DEF Leave
<1> HIDE DEF new
<1>1. /\ run' \in Run /\ run'.generation = run.generation + 1
      /\ run'.started = IF discards THEN run.started + 1 ELSE run.started
      /\ run.started <= run'.started
  <2>1. run' = [run EXCEPT !.generation = @ + 1, !.identity = @ + 1, !.inFlight = FALSE,
                          !.started = IF discards THEN run.started + 1 ELSE run.started]
    BY <1>0, PageFacts DEF Run
  <2> DEFINE started == IF discards THEN run.started + 1 ELSE run.started
  <2>2. /\ run.generation + 1 \in Nat \ {0} /\ run.identity + 1 \in Nat
        /\ started \in Nat /\ run.started <= started
    BY PageFacts
  <2> HIDE DEF started
  <2>3. /\ run' \in Run /\ run'.generation = run.generation + 1 /\ run'.started = started
    <3>1. run' = [run EXCEPT !.generation = @ + 1, !.identity = @ + 1, !.inFlight = FALSE,
                            !.started = started]
      BY <2>1 DEF started
    <3> QED BY <2>2, <3>1, PageFacts DEF Run
  <2> QED BY <2>2, <2>3 DEF started
<1>2. view' \in View /\ view'.plan = None /\ view'.state = "idle" /\ view'.refused = None
  BY <1>0 DEF InitialPlanState, View, States
<1>3. CASE discards
  <2>0. call' = new /\ call = None /\ run'.started = run.started + 1
    BY <1>0, <1>1, <1>3
  <2>1. /\ new \in Call /\ new.wire = <<>> /\ new.op = run.started + 1 /\ new.kind = "discarding"
        /\ new.plan = view.plan /\ new.generation = 0 /\ new.stage = "sent"
    <3>1. run.started + 1 \in Nat
      BY PageFacts
    <3>2. new \in Call /\ new.wire = <<>>
      BY <3>1, PageFacts, CalledInOrder DEF new
    <3>3. /\ new.op = run.started + 1 /\ new.kind = "discarding" /\ new.plan = view.plan
          /\ new.generation = 0 /\ new.stage = "sent"
      BY DEF new, Called
    <3> QED BY <3>2, <3>3
  <2>2. view.plan \in Plan /\ view.plan.op \in Nat /\ view.plan.op <= run.started
    BY <1>3, PageFacts DEF PlanInHand, Plan
  <2>3. ~Mine'
    BY <1>1, <2>0, <2>1, PageFacts DEF Mine
  <2>4. PageTypeOK'
    BY <1>0, <1>1, <1>2, <2>0, <2>1 DEF PageTypeOK
  <2>5. CallInOrder'
    BY <1>1, <2>0, <2>1, <2>2, <2>3, PageFacts DEF CallInOrder
  <2>6. AfterInOrder'
    <3>1. \A done \in after : done.generation \in Nat \ {0} /\ done.generation <= run.generation
      BY DEF AfterInOrder, PageTypeOK
    <3> QED BY <1>0, <1>1, <2>0, <2>1, <3>1, PageFacts DEF AfterInOrder
  <2>7. UsedInOrder'
    <3>1. \A op \in kept.used : op \in Nat /\ op <= run.started
      BY DEF UsedInOrder, PageTypeOK
    <3> QED BY <1>0, <2>0, <2>1, <3>1, PageFacts DEF UsedInOrder
  <2>8. WireInOrder'
    BY <2>0, <2>1, <2>3 DEF WireInOrder, Ordered, Sent
  <2> QED BY <1>2, <2>4, <2>5, <2>6, <2>7, <2>8
          DEF PlanInHand, PageInStep, PlanOfThisIdentity, ReviewedPlanIsUnused, GoodEventsAreShown
<1>4. CASE ~discards
  <2>0. call' = call /\ run'.started = run.started
    BY <1>0, <1>1, <1>4
  <2>1. call # None => ~Mine' /\ call.generation \in Nat /\ call.op \in Nat
    BY <1>1, <2>0, PageFacts DEF Mine, CallInOrder, Call
  <2>2. PageTypeOK'
    BY <1>0, <1>1, <1>2, <2>0 DEF PageTypeOK
  <2>3. CallInOrder'
    BY <1>0, <1>1, <2>0, <2>1, PageFacts DEF CallInOrder
  <2>4. AfterInOrder'
    BY <1>0, <1>1, <2>0, PageFacts DEF AfterInOrder, PageTypeOK
  <2>5. UsedInOrder'
    BY <1>0, <2>0 DEF UsedInOrder
  <2>6. WireInOrder'
    BY <2>0, <2>1 DEF WireInOrder, Lane
  <2> QED BY <1>2, <2>2, <2>3, <2>4, <2>5, <2>6
          DEF PlanInHand, PageInStep, PlanOfThisIdentity, ReviewedPlanIsUnused, GoodEventsAreShown
<1> QED BY <1>3, <1>4

\* An answer is taken by the generation that asked.
LEMMA AnsweredKeeps ==
  ASSUME PageInv, Answered
  PROVE  PageInv'
<1> DEFINE reconciles == Mine /\ call.answer \in {"applied", "indeterminate"}
           fresh == [op |-> call.op, identity |-> call.identity]
<1>0. /\ call # None /\ call.stage = "answered" /\ call' = None /\ kept' = kept
      /\ run' = [run EXCEPT !.inFlight = @ /\ (reconciles \/ ~Mine)]
      /\ after' = IF reconciles
                  THEN after \cup {[generation |-> call.generation, answer |-> call.answer]}
                  ELSE after
      /\ view' = IF ~Mine \/ reconciles THEN view
                 ELSE IF call.answer = "ready" THEN Reviewed(fresh)
                 ELSE IF call.answer = "discarded" THEN Ended("discarded")
                 ELSE Failed(call.answer)
  BY DEF Answered, Mine
<1>1. /\ call \in Call /\ call.answer \in Answers /\ view.state # "ready"
      /\ call.op \in Nat /\ call.op <= run.started /\ fresh \in Plan
      /\ Mine => call.identity = run.identity
    BY <1>0, PageFacts DEF PageInv, CallInOrder, Call, Plan
<1>2. /\ run' \in Run /\ run'.generation = run.generation /\ run'.identity = run.identity
      /\ run'.started = run.started
      /\ ~Mine \/ reconciles => run'.inFlight = run.inFlight
  <2>1. (run.inFlight /\ (reconciles \/ ~Mine)) \in BOOLEAN /\ run.inFlight \in BOOLEAN
    BY PageFacts DEF Run
  <2>2. run' = [run EXCEPT !.inFlight = run.inFlight /\ (reconciles \/ ~Mine)]
    BY <1>0
  <2>3. run'.inFlight = (run.inFlight /\ (reconciles \/ ~Mine))
    BY <2>2, PageFacts DEF Run
  <2>4. ~Mine \/ reconciles => run'.inFlight = run.inFlight
    BY <2>1, <2>3
  <2> QED BY <2>1, <2>2, <2>4, PageFacts DEF Run
<1>3. \A done \in after' :
        \/ done \in after
        \/ /\ done.generation = call.generation /\ Mine
           /\ done.answer \in {"applied", "indeterminate"}
  BY <1>0
<1>4. CASE ~Mine
  <2>1. view' = view /\ after' = after
    BY <1>0, <1>4
  <2>2. PlanInHand'
    BY <1>0, <1>1, <1>2, <1>4, <2>1, PageFacts DEF PlanInHand
  <2> QED BY <1>0, <1>2, <1>3, <2>1, <2>2, PageFacts, PageMoves
          DEF PlanOfThisIdentity, ReviewedPlanIsUnused, GoodEventsAreShown
<1>5. CASE reconciles
  <2>1. /\ view' = view
        /\ \E done \in after' : done.generation = run.generation
    <3> DEFINE it == [generation |-> call.generation, answer |-> call.answer]
    <3>1. view' = view /\ it \in after'
      BY <1>0, <1>5
    <3>2. it.generation = run.generation
      BY <1>5 DEF Mine
    <3> QED BY <3>1, <3>2
  <2>2. PlanInHand'
    BY <1>0, <1>1, <1>2, <1>5, <2>1, PageFacts DEF PlanInHand
  <2> QED BY <1>0, <1>2, <1>3, <2>1, <2>2, PageFacts, PageMoves
          DEF PlanOfThisIdentity, ReviewedPlanIsUnused, GoodEventsAreShown
<1>6. CASE Mine /\ ~reconciles
  <2>0. after' = after
    BY <1>0, <1>6
  <2>1. ASSUME view' \in View, view'.last = view.last, view'.at \in {view.at, None},
               view'.handle \in {view.handle, None}, view'.refused = view.refused,
               \/ view'.plan = None /\ view'.state \notin {"ready", "applying"}
               \/ /\ view'.state = "ready" /\ view'.plan \in Plan
                  /\ view'.plan.op <= run.started /\ view'.plan.identity = run.identity
                  /\ view'.plan.op \in kept.used => view'.plan.op \in kept.mismatch
        PROVE  PageInv'
    <3>1. PlanInHand' /\ PlanOfThisIdentity' /\ ReviewedPlanIsUnused' /\ GoodEventsAreShown'
      BY <1>0, <1>2, <2>1, PageFacts
         DEF PlanInHand, PlanOfThisIdentity, ReviewedPlanIsUnused, GoodEventsAreShown
    <3> QED BY <1>0, <1>2, <2>0, <2>1, <3>1, PageMoves
  <2>2. CASE call.answer = "ready"
    <3>1. view' = Reviewed(fresh)
      BY <1>0, <1>6, <2>2
    <3>2. /\ view' \in View /\ view'.state = "ready" /\ view'.plan = fresh /\ view'.last = view.last
          /\ view'.at = view.at /\ view'.handle = view.handle /\ view'.refused = view.refused
      BY <1>1, <3>1, PageFacts DEF Reviewed, View, States
    <3>3. call.op \notin kept.used
      BY <1>0, <1>1 DEF PageInv, UsedInOrder, PageTypeOK
    <3> QED BY <1>1, <1>6, <2>1, <3>2, <3>3
  <2>3. ASSUME NEW state \in States \ {"ready", "applying"}, view' = Ended(state)
        PROVE  PageInv'
    BY <2>1, <2>3, PageFacts DEF Ended, View
  <2>4. CASE call.answer = "preserve"
    <3>1. view' = Preserved
      BY <1>0, <1>6, <2>4 DEF Failed
    <3>2. CASE view.plan = None
      BY <2>1, <3>1, <3>2, PageFacts DEF Preserved, View, States
    <3>3. CASE view.plan # None
      <4>1. call.kind # "planning" /\ call.plan = view.plan
        BY <1>0, <1>1, <1>6, <3>3, PageFacts DEF PageInv, PlanInHand, AfterInOrder, Mine
      <4>2. call.plan.op \in kept.mismatch
        BY <1>0, <2>4, <4>1 DEF PageInv, CallInOrder
      <4>3. /\ view' \in View /\ view'.state = "ready" /\ view'.plan = view.plan
            /\ view'.last = view.last /\ view'.at = None /\ view'.handle = None
            /\ view'.refused = view.refused
        BY <3>1, <3>3, PageFacts DEF Preserved, View, States
      <4> QED BY <2>1, <3>3, <4>1, <4>2, <4>3, PageFacts DEF PlanInHand, PlanOfThisIdentity
    <3> QED BY <3>2, <3>3
  <2>5. CASE call.answer \notin {"ready", "preserve"}
    <3>1. call.answer \in States \ {"ready", "applying"} /\ view' = Ended(call.answer)
      BY <1>0, <1>1, <1>6, <2>5 DEF Failed, Answers, States
    <3> QED BY <2>3, <3>1
  <2> QED BY <2>2, <2>4, <2>5
<1> QED BY <1>4, <1>5, <1>6
\* The next event is shown, or called invalid, by the generation that asked.
LEMMA DeliverKeeps ==
  ASSUME PageInv, Deliver
  PROVE  PageInv'
<1> USE DEF PageInv
<1> DEFINE event == Head(call.wire)
<1>0. /\ call # None /\ call.wire # <<>> /\ UNCHANGED <<run, after, kept>>
      /\ call' = [call EXCEPT !.wire = Tail(call.wire)]
      /\ view' = IF Mine THEN Shown(event) ELSE view
  BY DEF Deliver, Mine
<1>1. /\ call \in Call /\ call.wire \in Seq(Event) /\ view.state # "ready"
      /\ Ordered(call.wire) /\ Sent(call.wire, call.op, Lane, call.sequence, call.position)
  BY <1>0, PageFacts DEF WireInOrder
<1>2. /\ event \in Event /\ Tail(call.wire) \in Seq(Event)
      /\ Ordered(Tail(call.wire))
      /\ Sent(Tail(call.wire), call.op, Lane, call.sequence, call.position)
      /\ Beyond(Tail(call.wire), event.sequence, event.at)
      /\ Mine => Beyond(Tail(call.wire), view.last, view.at)
      /\ event.op = call.op /\ event.sequence <= call.sequence
      /\ event.at # None => event.at.lane = Lane /\ event.at.position <= call.position
      /\ Mine => /\ view.last < event.sequence
                 /\ view.at # None /\ event.at # None => view.at.position < event.at.position
  BY <1>0, <1>1, WireShrinks DEF WireInOrder
<1> HIDE DEF event
<1>3. /\ call' \in Call /\ call'.wire = Tail(call.wire) /\ call'.op = call.op /\ call'.kind = call.kind
      /\ call'.plan = call.plan /\ call'.generation = call.generation
      /\ call'.identity = call.identity /\ call'.stage = call.stage
      /\ call'.sequence = call.sequence /\ call'.position = call.position
      /\ call'.answer = call.answer /\ (Mine' <=> Mine) /\ Lane' = Lane
  BY <1>0, <1>1, <1>2 DEF Call, Mine, Lane
<1>4. CallInOrder' /\ AfterInOrder' /\ UsedInOrder'
  BY <1>0, <1>3 DEF CallInOrder, AfterInOrder, UsedInOrder
<1>5. ASSUME view' \in View, view'.plan = view.plan, view'.state # "ready",
             Mine \/ view' = view,
             Mine => /\ Beyond(Tail(call.wire), view'.last, view'.at)
                     /\ view'.last <= call.sequence /\ view'.handle \in {None, call.op}
                     /\ view'.at # None => view'.at.lane = Lane /\ view'.at.position <= call.position
                     /\ view'.state # "applying" \/ view'.state = view.state,
             GoodEventsAreShown'
      PROVE  PageInv'
  <2>1. PageTypeOK'
    BY <1>0, <1>3, <1>5 DEF PageTypeOK
  <2>2. PlanInHand'
    BY <1>0, <1>1, <1>3, <1>5, PageFacts DEF PlanInHand, Mine
  <2>3. WireInOrder'
    BY <1>0, <1>2, <1>3, <1>5 DEF WireInOrder
  <2>4. PageInStep'
    BY <1>0, <1>5, PageFacts DEF PageInStep, PlanOfThisIdentity, ReviewedPlanIsUnused
  <2> QED BY <1>4, <2>1, <2>2, <2>3, <2>4
<1>6. CASE ~Mine
  BY <1>0, <1>1, <1>5, <1>6, PageFacts DEF GoodEventsAreShown
<1>7. CASE Mine /\ Acceptable(event)
  <2>1. view' = [view EXCEPT !.state = IF event.cancelling THEN "cancellation-requested" ELSE view.state,
                             !.handle = event.op, !.last = event.sequence, !.at = event.at]
    BY <1>0, <1>7, PageFacts DEF Shown, View
  <2>2. event.op \in Nat /\ event.sequence \in Nat /\ event.at \in At \cup {None}
    BY <1>2 DEF Event
  <2>3. /\ view' \in View /\ view'.plan = view.plan /\ view'.refused = view.refused
        /\ view'.handle = event.op /\ view'.last = event.sequence /\ view'.at = event.at
        /\ view'.state \in {view.state, "cancellation-requested"}
    BY <2>1, <2>2, PageFacts DEF View, States, Busy
  <2> QED BY <1>1, <1>2, <1>5, <1>7, <2>3, PageFacts DEF GoodEventsAreShown
<1>8. CASE Mine /\ ~Acceptable(event)
  <2>1. view' = [view EXCEPT !.state = "failed", !.checked = FALSE,
                             !.refused = [event |-> event, state |-> view.state]]
    BY <1>0, <1>8 DEF Shown
  <2>2. [event |-> event, state |-> view.state] \in [event : Event, state : States]
    BY <1>2, PageFacts
  <2>3. /\ view' \in View /\ view'.plan = view.plan /\ view'.handle = view.handle
        /\ view'.last = view.last /\ view'.at = view.at /\ view'.state = "failed"
        /\ view'.refused.event = event /\ view'.refused.state = view.state
    BY <2>1, <2>2, PageFacts DEF View, States
  <2>4. view.handle \in {None, call.op} /\ view.last <= call.sequence
        /\ (view.at # None => view.at.lane = Lane /\ view.at.position <= call.position)
        /\ (call.kind # "applying" => view.state # "applying")
    BY <1>0, <1>8 DEF WireInOrder
  <2>5. /\ view.last \in Nat /\ event.sequence \in Nat
        /\ view.at # None => view.at.position \in Nat
        /\ event.at # None => event.at.position \in Nat
    BY <1>2, PageFacts DEF Event, At
  <2>6. event.at # None /\ event.at.lane # LaneOf(view)
    BY <1>2, <1>8, <2>4, <2>5 DEF Acceptable
  <2>7. event.at.lane = "applying" /\ view.state # "applying"
    BY <1>2, <2>4, <2>6 DEF LaneOf, Lane
  <2>8. GoodEventsAreShown'
    BY <2>3, <2>6, <2>7 DEF GoodEventsAreShown
  <2> QED BY <1>1, <1>2, <1>5, <1>8, <2>3, <2>4, <2>8
<1> QED BY <1>6, <1>7, <1>8

-----------------------------------------------------------------------------
(* The host.                                                               *)

\* The host moves the operation under way, and the page sees nothing of it yet.
LEMMA HostMoves ==
  ASSUME PageInv, view' = view, run' = run, after' = after, call # None, call' \in Call,
         call'.op = call.op, call'.kind = call.kind, call'.plan = call.plan,
         call'.generation = call.generation, call'.identity = call.identity,
         kept' \in [plan : Plan \cup {None}, used : SUBSET Nat, mismatch : SUBSET Nat],
         kept.mismatch \subseteq kept'.mismatch,
         \A op \in kept'.used : op \in kept.used \/ (op <= run.started /\ op < call.op),
         call'.stage \in {"retained", "answered"} =>
           /\ call'.answer \in Answers
           /\ call'.answer = "preserve" /\ call.kind # "planning" => call.plan.op \in kept'.mismatch,
         \/ call'.wire = call.wire /\ call'.sequence = call.sequence /\ call'.position = call.position
         \/ \E event \in Event :
              /\ event.op = call.op /\ event.sequence = call.sequence + 1
              /\ call'.wire = Append(call.wire, event) /\ call'.sequence = call.sequence + 1
              /\ call.position <= call'.position
              /\ event.at # None => /\ event.at.lane = Lane /\ event.at.position = call.position + 1
                                    /\ call'.position = call.position + 1
  PROVE  PageInv'
<1> USE DEF PageInv
<1>0. (Mine' <=> Mine) /\ Lane' = Lane /\ call \in Call /\ view.state # "ready"
  BY PageFacts DEF Mine, Lane
<1>1. PageTypeOK'
  BY DEF PageTypeOK
<1>2. CallInOrder'
  BY <1>0 DEF CallInOrder
<1>3. AfterInOrder' /\ UsedInOrder'
  BY DEF AfterInOrder, UsedInOrder
<1>4. PlanInHand'
  BY <1>0 DEF PlanInHand, Mine
<1>5. WireInOrder'
  <2>1. CASE call'.wire = call.wire /\ call'.sequence = call.sequence /\ call'.position = call.position
    BY <1>0, <2>1 DEF WireInOrder
  <2>2. ASSUME NEW event \in Event, event.op = call.op, event.sequence = call.sequence + 1,
               call'.wire = Append(call.wire, event), call'.sequence = call.sequence + 1,
               call.position <= call'.position,
               event.at # None => /\ event.at.lane = Lane /\ event.at.position = call.position + 1
                                  /\ call'.position = call.position + 1
        PROVE  WireInOrder'
    <3>1. /\ call.wire \in Seq(Event) /\ call.sequence \in Nat /\ call.position \in Nat
          /\ call'.position \in Nat /\ view.last \in Nat
          /\ view.at # None => view.at.position \in Nat
      BY <1>0, PageFacts DEF Call, At
    <3>2. /\ Ordered(call.wire) /\ Sent(call.wire, call.op, Lane, call.sequence, call.position)
          /\ Mine => /\ Beyond(call.wire, view.last, view.at) /\ view.last <= call.sequence
                     /\ view.handle \in {None, call.op}
                     /\ view.at # None => view.at.lane = Lane /\ view.at.position <= call.position
                     /\ call.kind # "applying" => view.state # "applying"
      BY DEF WireInOrder
    <3>3. /\ Ordered(call'.wire) /\ Sent(call'.wire, call.op, Lane, call'.sequence, call'.position)
          /\ Mine => Beyond(call'.wire, view.last, view.at)
      <4> DEFINE w == Append(call.wire, event)
                 fits == /\ Beyond(call.wire, view.last, view.at) /\ view.last <= call.sequence
                         /\ view.at # None => /\ view.at.position \in Nat
                                              /\ view.at.position <= call.position
      <4>1. /\ Ordered(w) /\ Sent(w, call.op, Lane, call.sequence + 1, call'.position)
            /\ fits => Beyond(w, view.last, view.at)
        BY <2>2, <3>1, <3>2, WireGrows
      <4>2. Mine => fits
        BY <3>1, <3>2
      <4> QED BY <2>2, <4>1, <4>2
    <3>4. Mine => /\ view.last <= call'.sequence
                  /\ view.at # None => view.at.lane = Lane /\ view.at.position <= call'.position
      BY <2>2, <3>1, <3>2
    <3> QED BY <1>0, <3>2, <3>3, <3>4 DEF WireInOrder
  <2> QED BY <2>1, <2>2
<1>6. PageInStep'
  BY <1>0 DEF PageInStep, PlanOfThisIdentity, ReviewedPlanIsUnused, GoodEventsAreShown
<1> QED BY <1>1, <1>2, <1>3, <1>4, <1>5, <1>6

\* What an event adds to the operation.
LEMMA EmittedFields ==
  ASSUME PageInv, call # None, NEW at \in At \cup {None}, NEW cancelling \in BOOLEAN
  PROVE  /\ Emitted(at, cancelling) \in Call
         /\ \E event \in Event :
              /\ event.op = call.op /\ event.sequence = call.sequence + 1 /\ event.at = at
              /\ Emitted(at, cancelling) =
                   [call EXCEPT !.sequence = call.sequence + 1, !.wire = Append(call.wire, event)]
<1> DEFINE event == [op |-> call.op, sequence |-> call.sequence + 1, at |-> at,
                     cancelling |-> cancelling]
<1>1. call \in Call /\ call.wire \in Seq(Event) /\ call.op \in Nat /\ call.sequence + 1 \in Nat
  BY PageFacts DEF Call
<1>2. event \in Event
  BY <1>1 DEF Event
<1>3. Append(call.wire, event) \in Seq(Event)
  BY <1>1, <1>2
<1>4. Emitted(at, cancelling) =
        [call EXCEPT !.sequence = call.sequence + 1, !.wire = Append(call.wire, event)]
  BY <1>1 DEF Emitted, Call
<1>5. Emitted(at, cancelling) \in Call
  BY <1>1, <1>3, <1>4 DEF Call
<1> QED BY <1>2, <1>4, <1>5
LEMMA PageStutters ==
  ASSUME PageInv, UNCHANGED <<view, run, call, after, kept>>
  PROVE  PageInv'
BY DEF PageInv, PageTypeOK, CallInOrder, AfterInOrder, PlanInHand, UsedInOrder, WireInOrder, Mine,
   Lane, PageInStep, PlanOfThisIdentity, ReviewedPlanIsUnused, GoodEventsAreShown

LEMMA HostFacts ==
  ASSUME PageInv, call # None
  PROVE  /\ call \in Call /\ call.op \in Nat /\ call.position \in Nat /\ call.identity \in Nat
         /\ kept \in [plan : Plan \cup {None}, used : SUBSET Nat, mismatch : SUBSET Nat]
         /\ call.kind # "planning" =>
              call.plan \in Plan /\ call.plan.op \in Nat /\ call.plan.op < call.op
         /\ call.op <= run.started /\ run.started \in Nat
BY PageFacts DEF PageInv, PageTypeOK, CallInOrder, Call, Plan

LEMMA HostBeginsKeeps ==
  ASSUME PageInv, HostBegins
  PROVE  PageInv'
<1>0. call # None /\ call.stage = "sent" /\ UNCHANGED <<view, run, after>>
  BY DEF HostBegins
<1>1. CASE /\ \/ kept' = kept
              \/ /\ call.kind # "planning"
                 /\ kept' = [kept EXCEPT !.plan = None, !.used = @ \cup {call.plan.op}]
           /\ call' = [Emitted(None, FALSE) EXCEPT !.stage = "runs"]
  <2>1. PICK event \in Event :
          /\ event.op = call.op /\ event.sequence = call.sequence + 1 /\ event.at = None
          /\ Emitted(None, FALSE) =
               [call EXCEPT !.sequence = call.sequence + 1, !.wire = Append(call.wire, event)]
    BY <1>0, EmittedFields
  <2>2. Emitted(None, FALSE) \in Call
    BY <1>0, EmittedFields
  <2>3. /\ call' \in Call /\ call'.op = call.op /\ call'.kind = call.kind /\ call'.plan = call.plan
        /\ call'.generation = call.generation /\ call'.identity = call.identity
        /\ call'.stage = "runs" /\ call'.wire = Append(call.wire, event)
        /\ call'.sequence = call.sequence + 1 /\ call'.position = call.position
    BY <1>0, <1>1, <2>1, <2>2, HostFacts DEF Call, Stages
  <2>4. /\ kept' \in [plan : Plan \cup {None}, used : SUBSET Nat, mismatch : SUBSET Nat]
        /\ kept.mismatch \subseteq kept'.mismatch
        /\ \A op \in kept'.used : op \in kept.used \/ (op <= run.started /\ op < call.op)
    <3>1. CASE kept' = kept
      BY <1>0, <3>1, HostFacts
    <3>2. CASE call.kind # "planning" /\ kept' = [kept EXCEPT !.plan = None, !.used = @ \cup {call.plan.op}]
      <4>1. call.plan.op \in Nat /\ call.plan.op < call.op /\ call.plan.op <= run.started
        BY <1>0, <3>2, HostFacts
      <4>2. /\ kept'.plan = None /\ kept'.used = kept.used \cup {call.plan.op}
            /\ kept'.mismatch = kept.mismatch
            /\ kept' \in [plan : Plan \cup {None}, used : SUBSET Nat, mismatch : SUBSET Nat]
        BY <1>0, <3>2, <4>1, HostFacts
      <4> QED BY <4>1, <4>2
    <3> QED BY <1>1, <3>1, <3>2
  <2>5. \E e \in Event :
          /\ e.op = call.op /\ e.sequence = call.sequence + 1
          /\ call'.wire = Append(call.wire, e) /\ call'.sequence = call.sequence + 1
          /\ call.position <= call'.position
          /\ e.at # None => /\ e.at.lane = Lane /\ e.at.position = call.position + 1
                            /\ call'.position = call.position + 1
    BY <1>0, <2>1, <2>3, HostFacts
  <2> QED BY <1>0, <2>3, <2>4, <2>5, HostMoves
<1>2. ASSUME NEW answer \in {"failed", "stale"},
             call' = [call EXCEPT !.stage = "answered", !.answer = answer],
             kept' \in {kept, [kept EXCEPT !.plan = None]}
      PROVE  PageInv'
  <2>1. /\ call' \in Call /\ call'.op = call.op /\ call'.kind = call.kind /\ call'.plan = call.plan
        /\ call'.generation = call.generation /\ call'.identity = call.identity
        /\ call'.answer = answer /\ call'.wire = call.wire
        /\ call'.sequence = call.sequence /\ call'.position = call.position
    BY <1>0, <1>2, HostFacts DEF Call, Stages, Answers
  <2>2. /\ kept' \in [plan : Plan \cup {None}, used : SUBSET Nat, mismatch : SUBSET Nat]
        /\ kept.mismatch \subseteq kept'.mismatch /\ kept'.used = kept.used
    BY <1>0, <1>2, HostFacts
  <2> QED BY <1>0, <1>2, <2>1, <2>2, HostMoves DEF Answers
<1> QED BY <1>0, <1>1, <1>2 DEF HostBegins

LEMMA HostEmitsKeeps ==
  ASSUME PageInv, HostProgresses \/ HostTellsCancel
  PROVE  PageInv'
<1>0. /\ call # None /\ call.stage = "runs" /\ UNCHANGED <<view, run, after, kept>>
  BY DEF HostProgresses, HostTellsCancel, Active
<1> DEFINE place == [lane |-> Lane, position |-> call.position + 1]
<1>1. place \in At /\ call.position + 1 \in Nat /\ Lane \in Lanes
  BY <1>0, HostFacts DEF At, Lanes, Lane
<1>2. CASE HostProgresses
  <2>1. call' = [Emitted(place, FALSE) EXCEPT !.position = @ + 1]
    BY <1>2 DEF HostProgresses, Lane
  <2> HIDE DEF place
  <2>2. PICK event \in Event :
          /\ event.op = call.op /\ event.sequence = call.sequence + 1 /\ event.at = place
          /\ Emitted(place, FALSE) =
               [call EXCEPT !.sequence = call.sequence + 1, !.wire = Append(call.wire, event)]
    BY <1>0, <1>1, EmittedFields
  <2>3. Emitted(place, FALSE) \in Call
    BY <1>0, <1>1, EmittedFields
  <2>4. /\ call' \in Call /\ call'.op = call.op /\ call'.kind = call.kind /\ call'.plan = call.plan
        /\ call'.generation = call.generation /\ call'.identity = call.identity
        /\ call'.stage = "runs" /\ call'.wire = Append(call.wire, event)
        /\ call'.sequence = call.sequence + 1 /\ call'.position = call.position + 1
    BY <1>0, <1>1, <2>1, <2>2, <2>3, HostFacts DEF Call
  <2>5. place.lane = Lane /\ place.position = call.position + 1
    BY DEF place
  <2>6. \E e \in Event :
          /\ e.op = call.op /\ e.sequence = call.sequence + 1
          /\ call'.wire = Append(call.wire, e) /\ call'.sequence = call.sequence + 1
          /\ call.position <= call'.position
          /\ e.at # None => /\ e.at.lane = Lane /\ e.at.position = call.position + 1
                            /\ call'.position = call.position + 1
    BY <1>0, <2>2, <2>4, <2>5, HostFacts
  <2> QED BY <1>0, <2>4, <2>6, HostMoves, HostFacts
<1>3. CASE HostTellsCancel
  <2>1. call' = [Emitted(None, TRUE) EXCEPT !.told = TRUE]
    BY <1>3 DEF HostTellsCancel
  <2>2. PICK event \in Event :
          /\ event.op = call.op /\ event.sequence = call.sequence + 1 /\ event.at = None
          /\ Emitted(None, TRUE) =
               [call EXCEPT !.sequence = call.sequence + 1, !.wire = Append(call.wire, event)]
    BY <1>0, EmittedFields
  <2>3. Emitted(None, TRUE) \in Call
    BY <1>0, EmittedFields
  <2>4. /\ call' \in Call /\ call'.op = call.op /\ call'.kind = call.kind /\ call'.plan = call.plan
        /\ call'.generation = call.generation /\ call'.identity = call.identity
        /\ call'.stage = "runs" /\ call'.wire = Append(call.wire, event)
        /\ call'.sequence = call.sequence + 1 /\ call'.position = call.position
    BY <1>0, <2>1, <2>2, <2>3, HostFacts DEF Call
  <2>5. \E e \in Event :
          /\ e.op = call.op /\ e.sequence = call.sequence + 1
          /\ call'.wire = Append(call.wire, e) /\ call'.sequence = call.sequence + 1
          /\ call.position <= call'.position
          /\ e.at # None => /\ e.at.lane = Lane /\ e.at.position = call.position + 1
                            /\ call'.position = call.position + 1
    BY <1>0, <2>2, <2>4, HostFacts
  <2> QED BY <1>0, <2>4, <2>5, HostMoves, HostFacts
<1> QED BY <1>2, <1>3

LEMMA HostEndsKeeps ==
  ASSUME PageInv, HostEnds
  PROVE  PageInv'
<1>0. call # None /\ UNCHANGED <<view, run, after>>
  BY DEF HostEnds, Active
<1>1. PICK answer \in Outcomes[call.kind] \cup {"failed", "stale", "cancelled", "preserve"} :
        /\ call' = [call EXCEPT !.stage = "retained", !.answer = answer]
        /\ kept' =
             IF answer = "ready"
             THEN [kept EXCEPT !.plan = [op |-> call.op, identity |-> call.identity]]
             ELSE IF answer = "preserve" /\ call.kind # "planning"
             THEN [kept EXCEPT !.mismatch = @ \cup {call.plan.op}] ELSE kept
  BY DEF HostEnds
<1>2. answer \in Answers
  <2>1. call.kind \in {"planning", "applying", "discarding"}
    BY <1>0, HostFacts DEF Call
  <2> QED BY <2>1 DEF Outcomes, Answers
<1>3. /\ call' \in Call /\ call'.op = call.op /\ call'.kind = call.kind /\ call'.plan = call.plan
      /\ call'.generation = call.generation /\ call'.identity = call.identity
      /\ call'.answer = answer /\ call'.wire = call.wire
      /\ call'.sequence = call.sequence /\ call'.position = call.position
  BY <1>0, <1>1, <1>2, HostFacts DEF Call, Stages
<1>4. /\ kept' \in [plan : Plan \cup {None}, used : SUBSET Nat, mismatch : SUBSET Nat]
      /\ kept.mismatch \subseteq kept'.mismatch /\ kept'.used = kept.used
      /\ answer = "preserve" /\ call.kind # "planning" => call.plan.op \in kept'.mismatch
  <2>1. [op |-> call.op, identity |-> call.identity] \in Plan
    BY <1>0, HostFacts DEF Plan
  <2> QED BY <1>0, <1>1, <2>1, HostFacts
<1> QED BY <1>0, <1>2, <1>3, <1>4, HostMoves

\* A cancellation, a plan dropped, or the end of an operation: the wire stays.
LEMMA HostQuietKeeps ==
  ASSUME PageInv, HostFinishes \/ HostCancels \/ HostDrops
  PROVE  PageInv'
<1>0. /\ UNCHANGED <<view, run, after>>
      /\ kept' = kept \/ kept' = [kept EXCEPT !.plan = None]
      /\ \/ call' = call
         \/ call # None /\ call' = [call EXCEPT !.cancel = TRUE]
         \/ call # None /\ call.stage = "retained" /\ call' = [call EXCEPT !.stage = "answered"]
  BY DEF HostFinishes, HostCancels, HostDrops, Active
<1>1. /\ kept \in [plan : Plan \cup {None}, used : SUBSET Nat, mismatch : SUBSET Nat]
      /\ kept' \in [plan : Plan \cup {None}, used : SUBSET Nat, mismatch : SUBSET Nat]
      /\ kept'.mismatch = kept.mismatch /\ kept'.used = kept.used
  BY <1>0 DEF PageInv, PageTypeOK
<1>2. CASE call # None
  <2>1. /\ call' \in Call /\ call'.op = call.op /\ call'.kind = call.kind /\ call'.plan = call.plan
        /\ call'.generation = call.generation /\ call'.identity = call.identity
        /\ call'.answer = call.answer /\ call'.wire = call.wire
        /\ call'.sequence = call.sequence /\ call'.position = call.position
        /\ call'.stage \in {"retained", "answered"} => call.stage \in {"retained", "answered"}
    BY <1>0, <1>2, HostFacts DEF Call, Stages
  <2>2. call'.stage \in {"retained", "answered"} =>
          /\ call'.answer \in Answers
          /\ call'.answer = "preserve" /\ call.kind # "planning" => call.plan.op \in kept'.mismatch
    BY <1>1, <1>2, <2>1 DEF PageInv, CallInOrder
  <2> QED BY <1>0, <1>1, <1>2, <2>1, <2>2, HostMoves
<1>3. CASE call = None
  <2>1. call' = call
    BY <1>0, <1>3
  <2> QED BY <1>0, <1>1, <1>3, <2>1 DEF PageInv, PageTypeOK, CallInOrder, AfterInOrder, PlanInHand,
             UsedInOrder, WireInOrder, Mine, PageInStep, PlanOfThisIdentity, ReviewedPlanIsUnused,
             GoodEventsAreShown
<1> QED BY <1>2, <1>3

LEMMA PageInvAlways == PageSpec => []PageInv
<1>1. PageInv /\ [PageNext]_pageVars => PageInv'
  <2> SUFFICES ASSUME PageInv, [PageNext]_pageVars PROVE PageInv'
    OBVIOUS
  <2>1. ASSUME NEW kind \in DOMAIN Outcomes, Operate(kind) PROVE PageInv'
    <3>1. kind \in {"planning", "applying", "discarding"}
      BY DEF Outcomes
    <3> QED BY <2>1, <3>1, OperateKeeps
  <2>2. CASE AskCancel \/ UNCHANGED pageVars
    BY <2>2, PageStutters DEF AskCancel, pageVars
  <2>3. CASE Acknowledge \/ Expire \/ Asked
    BY <2>3, ReviewKeeps
  <2>4. CASE Leave
    BY <2>4, LeaveKeeps
  <2>5. CASE Deliver
    BY <2>5, DeliverKeeps
  <2>6. CASE Answered
    BY <2>6, AnsweredKeeps
  <2>7. CASE Reconciled
    BY <2>7, ReconciledKeeps
  <2>8. CASE HostBegins
    BY <2>8, HostBeginsKeeps
  <2>9. CASE HostProgresses \/ HostTellsCancel
    BY <2>9, HostEmitsKeeps
  <2>10. CASE HostEnds
    BY <2>10, HostEndsKeeps
  <2>11. CASE HostFinishes \/ HostCancels \/ HostDrops
    BY <2>11, HostQuietKeeps
  <2> QED
    BY <2>1, <2>2, <2>3, <2>4, <2>5, <2>6, <2>7, <2>8, <2>9, <2>10, <2>11
       DEF PageNext, User, Serve, Continue
<1> QED BY PageInvInit, <1>1, PTL DEF PageSpec

-----------------------------------------------------------------------------
\* The plan on the page is of the identity of now and, under review, not given out unless the
\* sidecar called it mismatched; and no event of the operation on screen is called invalid
\* but the progress of an apply that is not shown as applying (PlanWorkspace.tsx,
\* plan-state.ts).
THEOREM PageStaysInStep == PageSpec => []PageInStep
<1>1. PageInv => PageInStep
  BY DEF PageInv
<1> QED BY PageInvAlways, <1>1, PTL

ReviewIsAlone == view.state = "ready" => call = None

\* While a plan is under review no operation of the page is under way, of this generation
\* or of an earlier one (inFlight of PlanWorkspace.tsx, #planChannel).
THEOREM ReviewAlone == PageSpec => []ReviewIsAlone
<1>1. PageInv => ReviewIsAlone
  BY DEF PageInv, PlanInHand, ReviewIsAlone
<1> QED BY PageInvAlways, <1>1, PTL
===============================================================================
