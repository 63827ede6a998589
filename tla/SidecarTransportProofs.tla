-------------------------- MODULE SidecarTransportProofs --------------------------
(***************************************************************************)
(* Proofs about the requests to the sidecar: about RequestCoordinator      *)
(* alone, and about SidecarTransport, which composes it with the loops,    *)
(* the channels and the child.                                             *)
(***************************************************************************)
EXTENDS SidecarTransport, TLAPS

-----------------------------------------------------------------------------
(***************************************************************************)
(* The bookkeeping.                                                        *)
(*                                                                         *)
(* Proofs about RequestCoordinator, for any identifiers and any bound on   *)
(* the histories. The inductive invariant is the conjunction of the type   *)
(* and the three safety invariants: forgetting the oldest identifier of a  *)
(* history is right only because the order has no duplicates, and it has   *)
(* none only because the current request is in no history.                 *)
(***************************************************************************)

\* What is remembered of a history that holds an identifier once, and of an
\* identifier that is not in it: still each once, the set still faithful, and
\* no longer than the bound.
LEMMA RememberedFaithful ==
  ASSUME NEW order \in Seq(Ids), NEW set \in SUBSET Ids, NEW id \in Ids,
         Faithful(order, set), Len(order) <= HistoryBound, id \notin set
  PROVE  /\ Pushed(order, id) \in Seq(Ids)
         /\ Remembered(order, set, id) \in SUBSET Ids
         /\ Faithful(Pushed(order, id), Remembered(order, set, id))
         /\ Len(Pushed(order, id)) <= HistoryBound
         /\ Remembered(order, set, id) \subseteq set \cup {id}
<1> DEFINE longer == Append(order, id)
           wider  == set \cup {id}
<1>1. /\ longer \in Seq(Ids) /\ Len(longer) = Len(order) + 1 /\ longer # <<>>
      /\ \A i \in 1..Len(order) : longer[i] = order[i]
      /\ longer[Len(order) + 1] = id
  OBVIOUS
<1>2. HistoryBound \in Nat /\ HistoryBound >= 1 /\ Len(order) \in Nat
  BY CoordinatorAssumption
<1>3. Faithful(longer, wider)
  <2>1. wider = {longer[i] : i \in 1..Len(longer)}
    <3>1. ASSUME NEW x \in wider PROVE \E i \in 1..Len(longer) : x = longer[i]
      <4>1. CASE x = id
        BY <1>1, <1>2, <4>1
      <4>2. CASE x \in set
        <5>1. PICK i \in 1..Len(order) : x = order[i]
          BY <4>2 DEF Faithful
        <5> QED BY <5>1, <1>1, <1>2
      <4> QED BY <4>1, <4>2
    <3>2. ASSUME NEW i \in 1..Len(longer) PROVE longer[i] \in wider
      <4>1. CASE i \in 1..Len(order)
        BY <4>1, <1>1 DEF Faithful
      <4>2. CASE i = Len(order) + 1
        BY <4>2, <1>1
      <4> QED BY <4>1, <4>2, <1>1, <1>2
    <3> QED BY <3>1, <3>2
  <2>2. ASSUME NEW i \in 1..Len(longer), NEW j \in 1..Len(longer), longer[i] = longer[j]
        PROVE  i = j
    <3>1. \A k \in 1..Len(order) : longer[k] # id
      BY <1>1 DEF Faithful
    <3>2. CASE i \in 1..Len(order) /\ j \in 1..Len(order)
      BY <3>2, <2>2, <1>1 DEF Faithful
    <3>3. CASE i = Len(order) + 1 \/ j = Len(order) + 1
      BY <3>3, <3>1, <2>2, <1>1, <1>2
    <3> QED BY <3>2, <3>3, <1>1, <1>2
  <2> QED BY <2>1, <2>2 DEF Faithful
<1>4. CASE Len(longer) > HistoryBound
  <2>1. Pushed(order, id) = Tail(longer) /\ Remembered(order, set, id) = wider \ {longer[1]}
    BY <1>4, <1>1 DEF Pushed, Remembered
  <2>2. /\ Tail(longer) \in Seq(Ids) /\ Len(Tail(longer)) = Len(order)
        /\ \A i \in 1..Len(order) : Tail(longer)[i] = longer[i + 1]
    BY <1>1, <1>2
  <2>3. wider \ {longer[1]} = {Tail(longer)[i] : i \in 1..Len(order)}
    <3>1. ASSUME NEW x \in wider, x # longer[1]
          PROVE  \E i \in 1..Len(order) : x = Tail(longer)[i]
      <4>1. PICK j \in 1..Len(longer) : x = longer[j]
        BY <1>3 DEF Faithful
      <4>2. j - 1 \in 1..Len(order) /\ x = Tail(longer)[j - 1]
        BY <4>1, <3>1, <1>1, <1>2, <2>2
      <4> QED BY <4>2
    <3>2. ASSUME NEW i \in 1..Len(order)
          PROVE  Tail(longer)[i] \in wider /\ Tail(longer)[i] # longer[1]
      <4>1. i + 1 \in 1..Len(longer) /\ 1 \in 1..Len(longer) /\ i + 1 # 1
        BY <1>1, <1>2
      <4> QED BY <4>1, <2>2, <1>3 DEF Faithful
    <3> QED BY <3>1, <3>2
  <2>4. ASSUME NEW i \in 1..Len(order), NEW j \in 1..Len(order),
               Tail(longer)[i] = Tail(longer)[j]
        PROVE  i = j
    <3>1. i + 1 \in 1..Len(longer) /\ j + 1 \in 1..Len(longer)
      BY <1>1, <1>2
    <3>2. i + 1 = j + 1
      BY <3>1, <2>4, <2>2, <1>3 DEF Faithful
    <3> QED BY <3>2
  <2>5. Faithful(Tail(longer), wider \ {longer[1]})
    BY <2>2, <2>3, <2>4 DEF Faithful
  <2> QED BY <2>1, <2>2, <2>5
<1>5. CASE ~(Len(longer) > HistoryBound)
  BY <1>5, <1>1, <1>2, <1>3 DEF Pushed, Remembered
<1> QED BY <1>4, <1>5

CoordinatorInv ==
  /\ CoordinatorTypeOK
  /\ HistoriesAgree
  /\ HistoriesBounded
  /\ ClassesDisjoint

LEMMA CoordinatorInvInit == CoordinatorInit => CoordinatorInv
<1> SUFFICES ASSUME CoordinatorInit PROVE CoordinatorInv
  OBVIOUS
<1>1. CoordinatorTypeOK
  BY DEF CoordinatorInit, CoordinatorTypeOK
<1>2. HistoriesAgree
  BY DEF CoordinatorInit, HistoriesAgree, Faithful
<1>3. HistoriesBounded
  BY CoordinatorAssumption DEF CoordinatorInit, HistoriesBounded
<1>4. ClassesDisjoint
  BY CoordinatorAssumption DEF CoordinatorInit, ClassesDisjoint
<1> QED BY <1>1, <1>2, <1>3, <1>4 DEF CoordinatorInv

LEMMA CoordinatorInvNext ==
  CoordinatorInv /\ [CoordinatorNext]_coordinatorVars => CoordinatorInv'
<1> SUFFICES ASSUME CoordinatorInv, [CoordinatorNext]_coordinatorVars
             PROVE  CoordinatorInv'
  OBVIOUS
<1> USE DEF CoordinatorInv
<1>0. NoId \notin Ids /\ NoId # 0
  <2>1. 0 \in Nat
    OBVIOUS
  <2>2. Ids \subseteq Nat /\ NoId \notin Nat
    BY CoordinatorAssumption, Zenon
  <2> QED BY <2>1, <2>2, Zenon
<1>1. ASSUME NEW id \in Ids, Begin(id) PROVE CoordinatorInv'
  <2>1. CoordinatorTypeOK'
    BY <1>1 DEF Begin, CoordinatorTypeOK
  <2>2. HistoriesAgree' /\ HistoriesBounded'
    BY <1>1 DEF Begin, HistoriesAgree, HistoriesBounded, Faithful
  <2>3. ClassesDisjoint'
    BY <1>1 DEF Begin, CanBegin, ClassesDisjoint
  <2> QED BY <2>1, <2>2, <2>3
<1>2. ASSUME NEW id \in Ids, Abandon(id) PROVE CoordinatorInv'
  <2>1. CoordinatorTypeOK'
    BY <1>2 DEF Abandon, CoordinatorTypeOK
  <2>2. HistoriesAgree' /\ HistoriesBounded'
    BY <1>2 DEF Abandon, HistoriesAgree, HistoriesBounded, Faithful
  <2>3. ClassesDisjoint'
    BY <1>0, <1>2 DEF Abandon, ClassesDisjoint, CoordinatorTypeOK
  <2> QED BY <2>1, <2>2, <2>3
<1>3. ASSUME NEW id \in Ids, Complete(id) PROVE CoordinatorInv'
  <2>1. /\ Pushed(completedOrder, id) \in Seq(Ids)
        /\ Remembered(completedOrder, completed, id) \in SUBSET Ids
        /\ Faithful(Pushed(completedOrder, id), Remembered(completedOrder, completed, id))
        /\ Len(Pushed(completedOrder, id)) <= HistoryBound
        /\ Remembered(completedOrder, completed, id) \subseteq completed \cup {id}
    BY <1>3, RememberedFaithful DEF Complete, CoordinatorTypeOK, HistoriesAgree,
       HistoriesBounded, ClassesDisjoint
  <2>2. CoordinatorTypeOK'
    BY <1>3, <2>1 DEF Complete, CoordinatorTypeOK
  <2>3. HistoriesAgree'
    BY <1>3, <2>1 DEF Complete, HistoriesAgree, Faithful
  <2>4. HistoriesBounded'
    BY <1>3, <2>1 DEF Complete, HistoriesBounded
  <2>5. ClassesDisjoint'
    <3>1. /\ active' = NoId /\ retired' = retired /\ completed' \subseteq completed \cup {id}
          /\ id \notin retired /\ completed \subseteq Ids /\ retired \subseteq Ids
      BY <1>3, <2>1 DEF Complete, ClassesDisjoint, CoordinatorTypeOK
    <3>2. completed' \cap retired' = {}
      BY <3>1 DEF ClassesDisjoint
    <3> QED BY <1>0, <3>1, <3>2 DEF ClassesDisjoint
  <2> QED BY <2>2, <2>3, <2>4, <2>5
<1>4. ASSUME NEW id \in Ids, RetireTimeout(id) PROVE CoordinatorInv'
  <2>1. /\ Pushed(retiredOrder, id) \in Seq(Ids)
        /\ Remembered(retiredOrder, retired, id) \in SUBSET Ids
        /\ Faithful(Pushed(retiredOrder, id), Remembered(retiredOrder, retired, id))
        /\ Len(Pushed(retiredOrder, id)) <= HistoryBound
        /\ Remembered(retiredOrder, retired, id) \subseteq retired \cup {id}
    BY <1>4, RememberedFaithful DEF RetireTimeout, CoordinatorTypeOK, HistoriesAgree,
       HistoriesBounded, ClassesDisjoint
  <2>2. CoordinatorTypeOK'
    BY <1>4, <2>1 DEF RetireTimeout, CoordinatorTypeOK
  <2>3. HistoriesAgree'
    BY <1>4, <2>1 DEF RetireTimeout, HistoriesAgree, Faithful
  <2>4. HistoriesBounded'
    BY <1>4, <2>1 DEF RetireTimeout, HistoriesBounded
  <2>5. ClassesDisjoint'
    <3>1. /\ active' = NoId /\ completed' = completed /\ retired' \subseteq retired \cup {id}
          /\ id \notin completed /\ retired \subseteq Ids /\ completed \subseteq Ids
      BY <1>4, <2>1 DEF RetireTimeout, ClassesDisjoint, CoordinatorTypeOK
    <3>2. completed' \cap retired' = {}
      BY <3>1 DEF ClassesDisjoint
    <3> QED BY <1>0, <3>1, <3>2 DEF ClassesDisjoint
  <2> QED BY <2>2, <2>3, <2>4, <2>5
<1>5. CASE UNCHANGED coordinatorVars
  <2>1. CoordinatorTypeOK'
    BY <1>5 DEF coordinatorVars, CoordinatorTypeOK
  <2>2. HistoriesAgree' /\ HistoriesBounded'
    BY <1>5 DEF coordinatorVars, HistoriesAgree, HistoriesBounded, Faithful
  <2>3. ClassesDisjoint'
    BY <1>5 DEF coordinatorVars, ClassesDisjoint
  <2> QED BY <2>1, <2>2, <2>3
<1> QED BY <1>1, <1>2, <1>3, <1>4, <1>5 DEF CoordinatorNext

LEMMA CoordinatorInvariance == CoordinatorSpec => []CoordinatorInv
<1> QED BY CoordinatorInvInit, CoordinatorInvNext, PTL DEF CoordinatorSpec

\* The bookkeeping keeps its shape whatever requests are issued and however
\* they end.
THEOREM CoordinatorTypeCorrect == CoordinatorSpec => []CoordinatorTypeOK
<1>1. CoordinatorInv => CoordinatorTypeOK
  BY DEF CoordinatorInv
<1> QED BY <1>1, CoordinatorInvariance, PTL

\* insert_bounded keeps each set equal to its order, for every bound: the set
\* neither leaks forgotten identifiers nor forgets remembered ones.
THEOREM HistoriesAlwaysAgree == CoordinatorSpec => []HistoriesAgree
<1>1. CoordinatorInv => HistoriesAgree
  BY DEF CoordinatorInv
<1> QED BY <1>1, CoordinatorInvariance, PTL

\* is_bounded, the code's own assertion, never fails.
THEOREM HistoriesAlwaysBounded == CoordinatorSpec => []HistoriesBounded
<1>1. CoordinatorInv => HistoriesBounded
  BY DEF CoordinatorInv
<1> QED BY <1>1, CoordinatorInvariance, PTL

\* classify gives the one class an identifier is in.
THEOREM ClassesAlwaysDisjoint == CoordinatorSpec => []ClassesDisjoint
<1>1. CoordinatorInv => ClassesDisjoint
  BY DEF CoordinatorInv
<1> QED BY <1>1, CoordinatorInvariance, PTL

\* A timed-out request is never revived: it stays retired until it is the
\* oldest of a full history, and then it is unknown.
THEOREM RetiredStaysFinal == CoordinatorSpec => RetiredIsFinal
<1> DEFINE Final == \A id \in retired :
                      \/ id \in retired'
                      \/ /\ Len(retiredOrder) = HistoryBound
                         /\ id = Head(retiredOrder)
                         /\ Classify(id)' = "unknown"
<1>1. CoordinatorInv /\ CoordinatorInv' /\ [CoordinatorNext]_coordinatorVars
        => [Final]_coordinatorVars
  <2> SUFFICES ASSUME CoordinatorInv, CoordinatorInv', CoordinatorNext,
                      NEW gone \in retired, gone \notin retired'
               PROVE  /\ Len(retiredOrder) = HistoryBound
                      /\ gone = Head(retiredOrder)
                      /\ Classify(gone)' = "unknown"
    OBVIOUS
  <2>1. PICK id \in Ids : RetireTimeout(id)
    BY DEF CoordinatorNext, Begin, Abandon, Complete
  <2>2. /\ Len(retiredOrder) \in Nat /\ Len(retiredOrder) <= HistoryBound
        /\ HistoryBound \in Nat /\ HistoryBound >= 1 /\ retiredOrder \in Seq(Ids)
    BY CoordinatorAssumption DEF CoordinatorInv, CoordinatorTypeOK, HistoriesBounded
  <2>3. /\ Len(Append(retiredOrder, id)) > HistoryBound
        /\ gone = Head(Append(retiredOrder, id))
    BY <2>1 DEF RetireTimeout, Remembered
  <2>4. Len(retiredOrder) = HistoryBound /\ gone = Head(retiredOrder)
    BY <2>2, <2>3
  <2>5. active' = NoId /\ gone \notin completed' /\ gone # NoId
    BY <2>1, CoordinatorAssumption
    DEF RetireTimeout, CoordinatorInv, CoordinatorTypeOK, ClassesDisjoint
  <2> QED BY <2>4, <2>5 DEF Classify
<1> QED BY <1>1, CoordinatorInvariance, PTL DEF CoordinatorSpec, RetiredIsFinal

-----------------------------------------------------------------------------
(***************************************************************************)
(* The loops.                                                              *)
(*                                                                         *)
(* Proofs about SidecarTransport, for any channel bound, histories, number *)
(* of requests and child. The bookkeeping invariant CoordinatorInv is       *)
(* carried along: every step of a session is a                             *)
(* step of its bookkeeping, and a new session starts it again. What has to *)
(* be added is where the request stands: while it is in flight it is the   *)
(* current one, identifiers of the future are in no history, and a frame   *)
(* kept as an answer carries the identifier of the request.                *)
(***************************************************************************)

\* Identifiers are taken from one counter.
IdsInOrder ==
  /\ \A id \in completed \cup retired : id < nextId
  /\ InFlight => request.id \in Ids /\ request.id < nextId

IdleIsFree == pc = "idle" => active = NoId

AnswerInHand == pc = "answer" => frame.kind = "response" /\ frame.id = request.id

TransportInv ==
  /\ CoordinatorInv
  /\ TransportTypeOK
  /\ IdsInOrder
  /\ InFlightIsCurrent
  /\ IdleIsFree
  /\ AnswerInHand
  /\ AnswersItsOwnRequest

-----------------------------------------------------------------------------

LEMMA TransportNoId == NoId \notin Ids /\ NoId \notin Nat /\ 1..MaxId \subseteq Ids /\ MaxId \in Nat
<1>1. 1..MaxId \subseteq Ids /\ MaxId \in Nat
  BY TransportAssumption
<1>2. Ids \subseteq Nat /\ NoId \notin Nat
  BY CoordinatorAssumption, Zenon
<1> QED BY <1>1, <1>2, Zenon

\* What is left of a history once an identifier was remembered.
LEMMA RememberedFrom ==
  ASSUME NEW order, NEW set, NEW id
  PROVE  Remembered(order, set, id) \subseteq set \cup {id}
BY DEF Remembered

LEMMA TransportInvInit == TransportInit => TransportInv
<1> SUFFICES ASSUME TransportInit PROVE TransportInv
  OBVIOUS
<1>1. CoordinatorInv
  BY CoordinatorInvInit DEF TransportInit
<1>2. TransportTypeOK
  <2>1. CoordinatorTypeOK /\ nextId \in 1..MaxId
    BY <1>1, TransportAssumption DEF TransportInit, CoordinatorInv
  <2>2. channel \in Seq(Frame \cup {Garbage} \cup Closing) /\ Len(channel) <= ChannelBound
    BY TransportAssumption DEF TransportInit
  <2>3. {expired, cancel, cancelSent} \subseteq BOOLEAN
    BY DEF TransportInit
  <2>4. request \in [id : Ids \cup {NoId}, mode : {"host", "plan"}]
    BY DEF TransportInit, NoRequest
  <2> QED BY <2>1, <2>2, <2>3, <2>4 DEF TransportInit, TransportTypeOK, NoVerdict
<1>3. IdsInOrder /\ InFlightIsCurrent /\ IdleIsFree /\ AnswerInHand /\ AnswersItsOwnRequest
  BY DEF TransportInit, CoordinatorInit, IdsInOrder, InFlightIsCurrent, InFlight, Writing, IdleIsFree,
     AnswerInHand, AnswersItsOwnRequest, NoVerdict
<1> QED BY <1>1, <1>2, <1>3 DEF TransportInv

\* The end of a request: the coordinator forgets or remembers it, and the
\* client stops or waits for the next.
LEMMA FinishKeepsInv ==
  ASSUME TransportInv, InFlight, NEW outcome, NEW on,
         outcome \in {"answered", "timeout", "protocolInvalid", "crashed"},
         outcome = "answered" => on.kind = "response" /\ on.id = request.id,
         \/ Complete(request.id) \/ RetireTimeout(request.id) \/ Abandon(request.id)
         \/ UNCHANGED coordinatorVars /\ outcome \notin {"answered", "timeout"},
         Finish(outcome, on),
         nextId' = nextId, overflowed' = overflowed, child' = child, alive' = alive,
         reader' = reader, working' = working,
         channel' \in Seq(Frame \cup {Garbage} \cup Closing), Len(channel') <= ChannelBound
  PROVE  TransportInv'
<1>1. request.id \in Ids /\ active = request.id /\ request.id < nextId
  BY TransportNoId DEF TransportInv, InFlightIsCurrent, TransportTypeOK, CoordinatorTypeOK,
     CoordinatorInv, IdsInOrder, InFlight, Writing
<1>2. [CoordinatorNext]_coordinatorVars
  BY <1>1 DEF CoordinatorNext
<1>3. CoordinatorInv'
  BY <1>2, CoordinatorInvNext DEF TransportInv
<1>4. pc' = "idle" => active' = NoId
  BY DEF Finish, Complete, RetireTimeout, Abandon
<1>5. TransportTypeOK'
  BY <1>3 DEF TransportInv, TransportTypeOK, CoordinatorInv, Finish
<1>6. IdsInOrder'
  <2>1. completed' \cup retired' \subseteq completed \cup retired \cup {request.id}
    BY RememberedFrom DEF Complete, RetireTimeout, Abandon, coordinatorVars
  <2> QED BY <2>1, <1>1 DEF TransportInv, IdsInOrder, Finish, InFlight, Writing
<1>7. InFlightIsCurrent' /\ IdleIsFree' /\ AnswerInHand' /\ AnswersItsOwnRequest'
  BY <1>4 DEF Finish, InFlightIsCurrent, InFlight, Writing, IdleIsFree, AnswerInHand, AnswersItsOwnRequest
<1> QED BY <1>3, <1>5, <1>6, <1>7 DEF TransportInv
LEMMA TransportInvNext ==
  TransportInv /\ [TransportNext]_transportVars => TransportInv'
<1> SUFFICES ASSUME TransportInv, [TransportNext]_transportVars PROVE TransportInv'
  OBVIOUS
<1> USE TransportNoId
<1> DEFINE Events == Frame \cup {Garbage} \cup Closing
<1>0. /\ channel \in Seq(Events) /\ Len(channel) <= ChannelBound
      /\ ChannelBound \in Nat /\ nextId \in Nat /\ CoordinatorTypeOK
  BY TransportAssumption DEF TransportInv, TransportTypeOK
<1>1. CASE UNCHANGED transportVars
  <2>1. CoordinatorInv'
    BY <1>1, CoordinatorInvNext DEF TransportInv, transportVars
  <2> QED
    BY <1>1, <2>1 DEF transportVars, coordinatorVars, sessionVars, clientVars, TransportInv,
       TransportTypeOK, CoordinatorInv, IdsInOrder, InFlightIsCurrent, InFlight, Writing, IdleIsFree,
       AnswerInHand, AnswersItsOwnRequest
\* A step that leaves the request and the bookkeeping where they are.
<1>2. ASSUME UNCHANGED <<coordinatorVars, nextId, request, verdict>>,
             InFlight' => InFlight, pc' = "idle" => pc = "idle",
             pc' = "answer" => frame'.kind = "response" /\ frame'.id = request.id,
             TransportTypeOK'
      PROVE  TransportInv'
  <2>1. CoordinatorInv'
    BY <1>2, CoordinatorInvNext DEF TransportInv
  <2>2. IdsInOrder' /\ InFlightIsCurrent' /\ IdleIsFree' /\ AnswersItsOwnRequest'
    BY <1>2 DEF TransportInv, coordinatorVars, IdsInOrder, InFlightIsCurrent, InFlight,
       Writing, IdleIsFree, AnswersItsOwnRequest
  <2> QED BY <1>2, <2>1, <2>2 DEF TransportInv, AnswerInHand
\* What the child and the reader do.
<1>3. ASSUME NEW event \in Events, Publish(event)
      PROVE  /\ channel' \in Seq(Events) /\ Len(channel') <= ChannelBound
             /\ overflowed' \in BOOLEAN /\ reader' \in {"running", "done"}
  <2>1. CASE overflowed \/ Len(channel) >= ChannelBound
    BY <1>0, <1>3, <2>1 DEF Publish
  <2>2. CASE ~(overflowed \/ Len(channel) >= ChannelBound)
    <3>1. channel' = Append(channel, event) /\ overflowed' = overflowed
      BY <1>3, <2>2 DEF Publish
    <3>2. Append(channel, event) \in Seq(Events) /\ Len(Append(channel, event)) = Len(channel) + 1
      BY <1>0
    <3>3. reader' \in {"running", "done"} /\ overflowed \in BOOLEAN
      BY <1>3, <2>2 DEF Publish, TransportInv, TransportTypeOK
    <3> QED BY <1>0, <2>2, <3>1, <3>2, <3>3
  <2> QED BY <2>1, <2>2
<1>4. CASE \E f \in Frame \cup {Garbage} : ChildSends(f)
  <2>1. PICK f \in Frame \cup {Garbage} : ChildSends(f)
    BY <1>4
  <2>2. f \in Events /\ Publish(f)
    BY <2>1 DEF ChildSends
  <2>3. TransportTypeOK'
    BY <2>1, <1>3, <2>2 DEF ChildSends, TransportInv, TransportTypeOK, CoordinatorTypeOK,
       coordinatorVars, clientVars
  <2> QED BY <1>2, <2>1, <2>3 DEF ChildSends, clientVars, InFlight, Writing, TransportInv, AnswerInHand
<1>5. CASE ReaderCloses
  <2>1. PICK event \in Closing : Publish(event)
    BY <1>5 DEF ReaderCloses
  <2>2. TransportTypeOK'
    BY <2>1, <1>3, <1>5 DEF ReaderCloses, TransportInv, TransportTypeOK, CoordinatorTypeOK,
       coordinatorVars, clientVars
  <2> QED BY <1>2, <1>5, <2>2 DEF ReaderCloses, clientVars, InFlight, Writing, TransportInv, AnswerInHand
<1>6. CASE ChildExits \/ DeadlinePasses \/ RequestCancel \/ StatusReaps
  <2>1. TransportTypeOK'
    BY <1>6 DEF ChildExits, DeadlinePasses, RequestCancel, StatusReaps, TransportInv,
       TransportTypeOK, CoordinatorTypeOK, coordinatorVars, sessionVars, clientVars
  <2> QED
    BY <1>2, <1>6, <2>1 DEF ChildExits, DeadlinePasses, RequestCancel, StatusReaps, clientVars,
       InFlight, Writing, TransportInv, AnswerInHand
\* The client.
<1>7. CASE \E mode \in Modes : Start(mode)
  <2>1. PICK mode \in Modes : Start(mode)
    BY <1>7
  <2>2. nextId \in Ids /\ nextId' = nextId + 1 /\ nextId' \in 1..MaxId
    BY <2>1 DEF Start, TransportInv, TransportTypeOK
  <2>0. \A id \in completed \cup retired : id < nextId /\ id < nextId + 1
    BY <1>0, CoordinatorAssumption DEF TransportInv, IdsInOrder, CoordinatorTypeOK
  <2>3. request' = [id |-> nextId, mode |-> mode] /\ mode \in {"host", "plan"}
    BY <2>1, TransportAssumption DEF Start
  <2>4. ASSUME Begin(nextId), pc' = "writing", verdict' = NoVerdict
        PROVE  TransportInv'
    <3>1. CoordinatorInv'
      BY <2>2, <2>4, CoordinatorInvNext DEF CoordinatorNext, TransportInv
    <3>2. TransportTypeOK'
      BY <2>1, <2>2, <2>3, <2>4, <3>1 DEF Start, CoordinatorInv, TransportInv, TransportTypeOK,
         NoVerdict, sessionVars
    <3>3. IdsInOrder' /\ InFlightIsCurrent' /\ IdleIsFree' /\ AnswerInHand'
          /\ AnswersItsOwnRequest'
      BY <1>0, <2>0, <2>2, <2>3, <2>4 DEF Begin, TransportInv, IdsInOrder, InFlightIsCurrent, InFlight,
         Writing, IdleIsFree, AnswerInHand, AnswersItsOwnRequest, NoVerdict
    <3> QED BY <3>1, <3>2, <3>3 DEF TransportInv
  <2>5. ASSUME verdict' = [outcome |-> "crashed", id |-> nextId, on |-> Nothing], pc' = "down",
               UNCHANGED coordinatorVars
        PROVE  TransportInv'
    <3>1. CoordinatorInv'
      BY <2>5, CoordinatorInvNext DEF TransportInv
    <3>2. TransportTypeOK'
      BY <2>1, <2>2, <2>3, <2>5, <3>1 DEF Start, CoordinatorInv, TransportInv, TransportTypeOK,
         sessionVars
    <3>3. IdsInOrder' /\ InFlightIsCurrent' /\ IdleIsFree' /\ AnswerInHand'
          /\ AnswersItsOwnRequest'
      BY <1>0, <2>0, <2>2, <2>5 DEF coordinatorVars, TransportInv, IdsInOrder, InFlightIsCurrent,
         InFlight, Writing, IdleIsFree, AnswerInHand, AnswersItsOwnRequest
    <3> QED BY <3>1, <3>2, <3>3 DEF TransportInv
  <2> QED BY <2>1, <2>4, <2>5 DEF Start
\* Every way a request ends.
<1>8. ASSUME InFlight, UNCHANGED <<nextId, overflowed, reader, child, alive, working>>,
             channel' \in Seq(Events), Len(channel') <= ChannelBound,
             NEW on, TimedOut \/ Rejected(on) \/ Crashed
      PROVE  TransportInv'
  BY <1>8, FinishKeepsInv DEF TimedOut, Rejected, Crashed
\* A step of the loop that ends nothing.
<1>9. ASSUME InFlight, UNCHANGED <<coordinatorVars, nextId, request, verdict, overflowed, reader,
                                   child, alive, expired>>,
             working' \subseteq Ids, channel' \in Seq(Events), Len(channel') <= ChannelBound,
             pc' \in {"top", "cancelling", "recv", "frame", "answer"},
             pc' = "answer" => frame'.kind = "response" /\ frame'.id = request.id,
             frame' \in Frame \cup {Garbage, Nothing}, {cancel', cancelSent'} \subseteq BOOLEAN
      PROVE  TransportInv'
  <2>1. TransportTypeOK'
    BY <1>9 DEF coordinatorVars, TransportInv, TransportTypeOK, CoordinatorTypeOK
  <2> QED BY <1>2, <1>9, <2>1 DEF InFlight, Writing
<1>10. CASE LoopTop
  <2>1. InFlight
    BY <1>10 DEF LoopTop, InFlight, Writing
  <2>2. UNCHANGED <<nextId, sessionVars>>
    BY <1>10 DEF LoopTop
  <2>3. CASE TimedOut \/ Rejected(Nothing)
    BY <1>0, <1>8, <2>1, <2>2, <2>3 DEF sessionVars
  <2>4. CASE ~(TimedOut \/ Rejected(Nothing))
    <3>1. /\ UNCHANGED <<coordinatorVars, request, verdict, expired, cancel, cancelSent, frame>>
          /\ pc' \in {"recv", "cancelling"}
      BY <1>10, <2>4 DEF LoopTop, Goto
    <3> QED BY <1>0, <1>9, <2>1, <2>2, <3>1 DEF sessionVars, TransportInv, TransportTypeOK
  <2> QED BY <2>3, <2>4
<1>11. CASE Receive
  <2>1. InFlight /\ UNCHANGED <<nextId, overflowed, reader, child, alive, working>>
    BY <1>11 DEF Receive, InFlight, Writing
  <2>2. /\ channel' \in Seq(Events) /\ Len(channel') <= ChannelBound
        /\ Head(channel) \in Events
    BY <1>0, <1>11 DEF Receive
  <2>3. CASE Head(channel) \in Closing
    BY <1>8, <1>11, <2>1, <2>2, <2>3 DEF Receive
  <2>4. CASE Head(channel) \notin Closing
    BY <1>9, <1>11, <2>1, <2>2, <2>4 DEF Receive, TransportInv, TransportTypeOK
  <2> QED BY <2>3, <2>4
<1>12. CASE ReceiveNothing
  <2>1. InFlight /\ UNCHANGED <<nextId, sessionVars>>
    BY <1>12 DEF ReceiveNothing, InFlight, Writing
  <2>2. CASE TimedOut \/ Crashed
    BY <1>0, <1>8, <2>1, <2>2 DEF sessionVars
  <2>3. CASE Goto("top")
    BY <1>0, <1>9, <2>1, <2>3 DEF Goto, sessionVars, TransportInv, TransportTypeOK
  <2> QED BY <1>12, <2>2, <2>3 DEF ReceiveNothing
<1>13. CASE HandleFrame
  <2>1. InFlight /\ UNCHANGED <<nextId, sessionVars>>
    BY <1>13 DEF HandleFrame, InFlight, Writing
  <2>2. CASE TimedOut \/ Rejected(frame)
    BY <1>0, <1>8, <2>1, <2>2 DEF sessionVars
  <2>3. CASE Goto("top")
    BY <1>0, <1>9, <2>1, <2>3 DEF Goto, sessionVars, TransportInv, TransportTypeOK
  <2>4. ASSUME pc' = "top", cancel' \in {cancel, TRUE},
               UNCHANGED <<coordinatorVars, request, expired, cancelSent, frame, verdict>>
        PROVE  TransportInv'
    BY <1>0, <1>9, <2>1, <2>4 DEF sessionVars, TransportInv, TransportTypeOK
  <2>5. ASSUME frame.kind = "response", Classify(frame.id) = "current", Goto("answer")
        PROVE  TransportInv'
    <3>1. frame.id = request.id
      BY <2>1, <2>5 DEF Classify, TransportInv, InFlightIsCurrent
    <3> QED BY <1>0, <1>9, <2>1, <2>5, <3>1 DEF Goto, sessionVars, TransportInv, TransportTypeOK
  <2>6. CASE Finish("protocolInvalid", frame) /\ UNCHANGED coordinatorVars
    BY <1>0, <2>1, <2>6, FinishKeepsInv DEF sessionVars
  <2> QED BY <1>13, <2>2, <2>3, <2>4, <2>5, <2>6 DEF HandleFrame
<1>14. CASE AcceptAnswer
  <2>1. InFlight /\ UNCHANGED <<nextId, sessionVars>>
    BY <1>14 DEF AcceptAnswer, InFlight, Writing
  <2>2. frame.kind = "response" /\ frame.id = request.id
    BY <1>14 DEF AcceptAnswer, TransportInv, AnswerInHand
  <2>3. CASE Rejected(frame)
    BY <1>0, <1>8, <2>1, <2>3 DEF sessionVars
  <2>4. CASE Complete(request.id) /\ Finish("answered", frame)
    BY <1>0, <2>1, <2>2, <2>4, FinishKeepsInv DEF sessionVars
  <2> QED BY <1>14, <2>3, <2>4 DEF AcceptAnswer
\* A new session starts the bookkeeping again.
<1>15. CASE Spawn
  <2>1. CoordinatorInv'
    <3>1. CoordinatorInit'
      BY <1>15 DEF Spawn, CoordinatorInit
    <3>2. CoordinatorInit' => CoordinatorInv'
      BY CoordinatorInvInit, PTL
    <3> QED BY <3>1, <3>2
  <2>2. TransportTypeOK'
    <3>1. <<>> \in Seq(Events) /\ Len(<<>>) = 0
      OBVIOUS
    <3>2. channel' \in Seq(Events) /\ Len(channel') <= ChannelBound
      BY <1>0, <1>15, <3>1 DEF Spawn
    <3>3. UNCHANGED <<nextId, expired, cancel, cancelSent, frame>>
      BY <1>15 DEF Spawn
    <3>4. /\ request' \in [id : Ids \cup {NoId}, mode : {"host", "plan"}]
          /\ verdict'.outcome = "none" /\ pc' = "idle"
      BY <1>15 DEF Spawn, NoRequest, NoVerdict
    <3>5. /\ overflowed' \in BOOLEAN /\ child' \in Children /\ alive' \in BOOLEAN
          /\ reader' \in {"running", "done"} /\ working' \subseteq Ids
      BY <1>15 DEF Spawn
    <3> QED
      BY <2>1, <3>2, <3>3, <3>4, <3>5 DEF CoordinatorInv, TransportInv, TransportTypeOK
  <2>3. IdsInOrder' /\ InFlightIsCurrent' /\ IdleIsFree' /\ AnswerInHand'
        /\ AnswersItsOwnRequest'
    BY <1>15 DEF Spawn, IdsInOrder, InFlightIsCurrent, InFlight, Writing, IdleIsFree, AnswerInHand,
       AnswersItsOwnRequest, NoVerdict
  <2> QED BY <2>1, <2>2, <2>3 DEF TransportInv
\* The writes.
<1>16. CASE RequestWritten \/ CancelWritten
  <2>1. InFlight /\ request.id \in Ids
    BY <1>16 DEF RequestWritten, CancelWritten, InFlight, Writing, TransportInv, IdsInOrder
  <2>2. working \subseteq Ids /\ {cancel, cancelSent} \subseteq BOOLEAN
        /\ frame \in Frame \cup {Garbage, Nothing}
    BY DEF TransportInv, TransportTypeOK
  <2>3. CASE RequestWritten
    BY <1>0, <1>9, <2>1, <2>2, <2>3 DEF RequestWritten, Goto
  <2>4. CASE CancelWritten
    BY <1>0, <1>9, <2>1, <2>2, <2>4 DEF CancelWritten, sessionVars
  <2> QED BY <1>16, <2>3, <2>4
<1>17. CASE WriteFails
  BY <1>0, <1>8, <1>17 DEF WriteFails, InFlight, Writing, sessionVars
<1> QED
  BY <1>1, <1>4, <1>5, <1>6, <1>7, <1>10, <1>11, <1>12, <1>13, <1>14, <1>15, <1>16, <1>17
  DEF TransportNext, ClientStep

-----------------------------------------------------------------------------

LEMMA TransportInvariance == TransportSpec => []TransportInv
<1> QED BY TransportInvInit, TransportInvNext, PTL DEF TransportSpec

\* The session and the request loop keep their shape, whatever the child sends.
THEOREM TransportTypeCorrect == TransportSpec => []TransportTypeOK
<1>1. TransportInv => TransportTypeOK
  BY DEF TransportInv
<1> QED BY <1>1, TransportInvariance, PTL

\* No path that keeps the process leaves its request current, and the next identifier is
\* in no history (the error paths of SidecarSupervisor::request and plan_transport).
THEOREM KeptSessionsCanBegin == TransportSpec => []KeptSessionCanBegin
<1>1. TransportInv => KeptSessionCanBegin
  BY TransportAssumption
  DEF TransportInv, KeptSessionCanBegin, CanBegin, IdleIsFree, IdsInOrder, TransportTypeOK
<1> QED BY <1>1, TransportInvariance, PTL

\* A request in flight is the coordinator's current one.
THEOREM InFlightAlwaysCurrent == TransportSpec => []InFlightIsCurrent
<1>1. TransportInv => InFlightIsCurrent
  BY DEF TransportInv
<1> QED BY <1>1, TransportInvariance, PTL

\* Only a response that carries its identifier ends a request as answered, whatever frames
\* a faulty child repeats or invents (Classify, the two request loops).
THEOREM OnlyOwnAnswers == TransportSpec => []AnswersItsOwnRequest
<1>1. TransportInv => AnswersItsOwnRequest
  BY DEF TransportInv
<1> QED BY <1>1, TransportInvariance, PTL

\* The histories stay faithful over whole sessions.
THEOREM SessionHistoriesAgree == TransportSpec => []HistoriesAgree
<1>1. TransportInv => HistoriesAgree
  BY DEF TransportInv, CoordinatorInv
<1> QED BY <1>1, TransportInvariance, PTL

\* The host loop never reports an answer once a frame was lost (the second look at the
\* overflow flag, under the transport lock).
THEOREM NoAnswerAfterOverflow == TransportSpec => NoHostAnswerAfterOverflow
<1>1. [TransportNext]_transportVars =>
        [verdict' # verdict /\ verdict'.outcome = "answered" /\ request.mode = "host"
           => ~overflowed]_transportVars
  <2> SUFFICES ASSUME TransportNext, verdict' # verdict, verdict'.outcome = "answered",
                      request.mode = "host"
               PROVE  ~overflowed
    OBVIOUS
  <2>1. CASE AcceptAnswer
    BY <2>1 DEF AcceptAnswer, Rejected, Finish
  <2>2. CASE \E mode \in Modes : Start(mode)
    BY <2>2 DEF Start, NoVerdict
  <2>3. CASE LoopTop
    BY <2>3 DEF LoopTop, TimedOut, Rejected, Crashed, Finish, Goto
  <2>4. CASE Receive
    BY <2>4 DEF Receive, TimedOut, Rejected, Finish
  <2>5. CASE ReceiveNothing
    BY <2>5 DEF ReceiveNothing, TimedOut, Crashed, Finish, Goto
  <2>6. CASE HandleFrame
    BY <2>6 DEF HandleFrame, TimedOut, Rejected, Finish, Goto
  <2>7. CASE \/ DeadlinePasses \/ RequestCancel \/ ChildExits \/ ReaderCloses \/ StatusReaps
             \/ \E f \in Frame \cup {Garbage} : ChildSends(f)
    BY <2>7 DEF DeadlinePasses, RequestCancel, ChildExits, ReaderCloses, StatusReaps, ChildSends,
       clientVars
  <2>8. CASE Spawn
    BY <2>8 DEF Spawn, NoVerdict
  <2>9. CASE RequestWritten \/ CancelWritten \/ WriteFails
    BY <2>9 DEF RequestWritten, CancelWritten, WriteFails, Goto, Crashed, Finish
  <2> QED BY <2>1, <2>2, <2>3, <2>4, <2>5, <2>6, <2>7, <2>8, <2>9 DEF TransportNext, ClientStep
<1> QED BY <1>1, PTL DEF TransportSpec, NoHostAnswerAfterOverflow

-----------------------------------------------------------------------------
(* A healthy child: whatever of its frames is still under way belongs to   *)
(* the current request or to a remembered timeout, and a response is the   *)
(* last frame of its request.                                              *)

Events == Frame \cup {Garbage} \cup Closing

\* Of the requests the host knows, those the child works on, and the frames under way.
Traffic(known, work, frames) ==
  /\ work \subseteq known
  /\ \A i \in 1..Len(frames) :
       \/ frames[i] \in Closing
       \/ frames[i] \in Frame /\ frames[i].valid /\ frames[i].id \in known
  /\ \A i \in 1..Len(frames) : frames[i].kind = "response" =>
       /\ frames[i].id \notin work
       /\ \A j \in 1..Len(frames) : j > i => frames[j].id # frames[i].id

\* The frame the client has taken from them.
InHand(known, work, frames, f) ==
  /\ f \in Frame /\ f.valid /\ f.id \in known
  /\ f.kind = "response" =>
       /\ f.id \notin work
       /\ \A j \in 1..Len(frames) : frames[j].id # f.id

Remembers == child = "healthy" /\ pc # "down" /\ Len(retiredOrder) < HistoryBound
Handling == pc \in {"frame", "answer"}

\* The requests of which the child can have heard: not the one that is being written.
Told == IF pc = "writing" THEN retired ELSE {active} \cup retired

HealthyTraffic ==
  Remembers =>
    /\ Traffic(Told, working, channel)
    /\ Handling => InHand(Told, working, channel, frame)

LEMMA EventFields ==
  /\ \A f \in Frame : f.kind \in {"progress", "response"} /\ f.id \in Ids /\ f.id # NoId
  /\ \A e \in Closing : e.kind \notin {"progress", "response"} /\ e.id = NoId
  /\ Garbage.kind \notin {"progress", "response"} /\ Garbage \notin Frame
BY TransportNoId DEF Frame, Closing, Garbage

\* The child sends a frame of a request it works on.
LEMMA SentTraffic ==
  ASSUME NEW known, NEW work, NEW frames \in Seq(Events), NEW f \in Frame,
         Traffic(known, work, frames), f.valid, f.id \in work
  PROVE  LET left == IF f.kind = "response" THEN work \ {f.id} ELSE work
         IN  /\ Traffic(known, left, frames)
             /\ Traffic(known, left, Append(frames, f))
             /\ \A g : InHand(known, work, frames, g) =>
                  /\ InHand(known, left, frames, g)
                  /\ InHand(known, left, Append(frames, f), g)
<1> DEFINE left == IF f.kind = "response" THEN work \ {f.id} ELSE work
           more == Append(frames, f)
<1>1. /\ Len(more) = Len(frames) + 1 /\ Len(frames) \in Nat
      /\ more[Len(frames) + 1] = f
      /\ \A i \in 1..Len(frames) : more[i] = frames[i]
  BY DEF Events
<1>2. left \subseteq work /\ work \subseteq known /\ f.id \in known
  BY DEF Traffic
<1>3. \A i \in 1..Len(more) : i \in 1..Len(frames) \/ i = Len(frames) + 1
  BY <1>1
<1>4. Traffic(known, left, frames)
  BY <1>2 DEF Traffic
<1>5. Traffic(known, left, more)
  <2>1. \A i \in 1..Len(more) :
          \/ more[i] \in Closing
          \/ more[i] \in Frame /\ more[i].valid /\ more[i].id \in known
    BY <1>1, <1>2, <1>3 DEF Traffic
  <2>2. ASSUME NEW i \in 1..Len(more), more[i].kind = "response"
        PROVE  /\ more[i].id \notin left
               /\ \A j \in 1..Len(more) : j > i => more[j].id # more[i].id
    <3>1. CASE i \in 1..Len(frames)
      <4>1. more[i] = frames[i] /\ frames[i].id \notin work
        BY <1>1, <2>2, <3>1 DEF Traffic
      <4>2. ASSUME NEW j \in 1..Len(more), j > i PROVE more[j].id # more[i].id
        BY <1>1, <1>3, <2>2, <3>1, <4>1, <4>2 DEF Traffic
      <4> QED BY <1>2, <4>1, <4>2
    <3>2. CASE i = Len(frames) + 1
      BY <1>1, <2>2, <3>2
    <3> QED BY <1>3, <3>1, <3>2
  <2> QED BY <1>2, <2>1, <2>2 DEF Traffic
<1>6. ASSUME NEW g, InHand(known, work, frames, g)
      PROVE  InHand(known, left, frames, g) /\ InHand(known, left, more, g)
  BY <1>1, <1>2, <1>3, <1>6 DEF InHand
<1> QED BY <1>4, <1>5, <1>6

\* The reader closes the channel.
LEMMA ClosedTraffic ==
  ASSUME NEW known, NEW work, NEW frames \in Seq(Events), NEW e \in Closing,
         Traffic(known, work, frames)
  PROVE  /\ Traffic(known, work, Append(frames, e))
         /\ \A g : InHand(known, work, frames, g) => InHand(known, work, Append(frames, e), g)
<1> DEFINE more == Append(frames, e)
<1>1. /\ Len(more) = Len(frames) + 1 /\ Len(frames) \in Nat
      /\ more[Len(frames) + 1] = e
      /\ \A i \in 1..Len(frames) : more[i] = frames[i]
  BY DEF Events
<1>2. \A i \in 1..Len(more) : i \in 1..Len(frames) \/ i = Len(frames) + 1
  BY <1>1
<1>3. \A i \in 1..Len(frames) : frames[i].kind = "response" => frames[i].id # NoId
  BY EventFields DEF Traffic
<1>4. \A i \in 1..Len(more) :
        \/ more[i] \in Closing
        \/ more[i] \in Frame /\ more[i].valid /\ more[i].id \in known
  BY <1>1, <1>2 DEF Traffic
<1>5. ASSUME NEW i \in 1..Len(more), more[i].kind = "response"
      PROVE  /\ more[i].id \notin work
             /\ \A j \in 1..Len(more) : j > i => more[j].id # more[i].id
  <2>1. i \in 1..Len(frames)
    BY <1>1, <1>2, <1>5, EventFields
  <2>2. more[i] = frames[i] /\ frames[i].id \notin work
    BY <1>1, <1>5, <2>1 DEF Traffic
  <2>3. ASSUME NEW j \in 1..Len(more), j > i PROVE more[j].id # more[i].id
    BY <1>1, <1>2, <1>3, <1>5, <2>1, <2>2, <2>3, EventFields DEF Traffic
  <2> QED BY <2>2, <2>3
<1>6. Traffic(known, work, more)
  BY <1>4, <1>5 DEF Traffic
<1>7. ASSUME NEW g, InHand(known, work, frames, g) PROVE InHand(known, work, more, g)
  BY <1>1, <1>2, <1>7, EventFields DEF InHand
<1> QED BY <1>6, <1>7

\* The client takes the first event.
LEMMA TakenTraffic ==
  ASSUME NEW known, NEW work, NEW frames \in Seq(Events), frames # <<>>,
         Traffic(known, work, frames)
  PROVE  /\ Traffic(known, work, Tail(frames))
         /\ Head(frames) \notin Closing => InHand(known, work, Tail(frames), Head(frames))
<1> DEFINE rest == Tail(frames)
<1>1. /\ Len(frames) \in Nat /\ Len(frames) > 0 /\ Len(rest) = Len(frames) - 1
      /\ Head(frames) = frames[1]
      /\ \A i \in 1..Len(rest) : rest[i] = frames[i + 1] /\ i + 1 \in 1..Len(frames) /\ i + 1 > 1
  BY DEF Events
<1>2. Traffic(known, work, rest)
  <2>1. \A i \in 1..Len(rest) :
          \/ rest[i] \in Closing
          \/ rest[i] \in Frame /\ rest[i].valid /\ rest[i].id \in known
    BY <1>1 DEF Traffic
  <2>2. ASSUME NEW i \in 1..Len(rest), rest[i].kind = "response"
        PROVE  /\ rest[i].id \notin work
               /\ \A j \in 1..Len(rest) : j > i => rest[j].id # rest[i].id
    <3>1. i + 1 \in 1..Len(frames) /\ frames[i + 1].kind = "response"
      BY <1>1, <2>2
    <3>2. ASSUME NEW j \in 1..Len(rest), j > i PROVE rest[j].id # rest[i].id
      <4>1. j + 1 \in 1..Len(frames) /\ j + 1 > i + 1
        BY <1>1, <3>2
      <4> QED BY <1>1, <3>1, <4>1 DEF Traffic
    <3> QED BY <1>1, <3>1, <3>2 DEF Traffic
  <2> QED BY <2>1, <2>2 DEF Traffic
<1>3. ASSUME Head(frames) \notin Closing PROVE InHand(known, work, rest, Head(frames))
  BY <1>1, <1>3 DEF Traffic, InHand
<1> QED BY <1>2, <1>3

\* A request is begun: the host knows it, and so does the child.
LEMMA BegunTraffic ==
  ASSUME NEW known, NEW more, NEW work, NEW frames, NEW id \in Ids,
         Traffic(known, work, frames), known \subseteq more, id \in more, id \notin known
  PROVE  Traffic(more, work \cup {id}, frames)
BY EventFields DEF Traffic

HealthyInv == TransportInv /\ HealthyTraffic /\ HealthyChildNeverRejected

\* While a history has room, remembering forgets nothing.
LEMMA RoomToRemember ==
  ASSUME TransportInv, NEW id \in Ids, RetireTimeout(id), Len(retiredOrder') < HistoryBound
  PROVE  Len(retiredOrder) < HistoryBound /\ retired' = retired \cup {id}
<1>1. /\ retiredOrder \in Seq(Ids) /\ Len(retiredOrder) <= HistoryBound
      /\ HistoryBound \in Nat \ {0} /\ Len(retiredOrder) \in Nat
  BY CoordinatorAssumption
  DEF TransportInv, CoordinatorInv, CoordinatorTypeOK, HistoriesBounded
<1>2. Append(retiredOrder, id) \in Seq(Ids)
      /\ Len(Append(retiredOrder, id)) = Len(retiredOrder) + 1
  BY <1>1
<1>3. Len(retiredOrder) < HistoryBound
  <2> SUFFICES ASSUME Len(retiredOrder) >= HistoryBound PROVE FALSE
    BY <1>1
  <2>1. Len(retiredOrder') = HistoryBound
    BY <1>1, <1>2 DEF RetireTimeout, Pushed
  <2> QED BY <1>1, <2>1
<1> QED BY <1>1, <1>2, <1>3 DEF RetireTimeout, Remembered

\* A request that ends keeps what is said of the child's traffic.
LEMMA FinishKeepsTraffic ==
  ASSUME TransportInv, HealthyTraffic, InFlight, pc # "writing", NEW outcome, NEW on,
         \/ Complete(request.id) /\ pc = "answer"
         \/ RetireTimeout(request.id)
         \/ Abandon(request.id) /\ outcome \notin {"answered", "timeout"}
         \/ UNCHANGED coordinatorVars /\ outcome \notin {"answered", "timeout"},
         Finish(outcome, on), child' = child, working' = working,
         channel' = channel \/ (channel # <<>> /\ channel' = Tail(channel))
  PROVE  HealthyTraffic'
<1> SUFFICES ASSUME Remembers' PROVE Traffic({active'} \cup retired', working', channel')
  BY DEF HealthyTraffic, Finish, Handling, Told
<1>0. Told = {active} \cup retired
  BY DEF Told
<1>1. pc' = "idle" /\ outcome \in {"answered", "timeout"}
  BY DEF Finish, Remembers
<1>2. /\ request.id \in Ids /\ active = request.id /\ request.id \notin retired
      /\ channel \in Seq(Events)
  BY DEF TransportInv, InFlightIsCurrent, TransportTypeOK, CoordinatorInv, ClassesDisjoint,
     IdsInOrder, InFlight, Writing, Events
<1>3. CASE RetireTimeout(request.id)
  <2>1. Len(retiredOrder) < HistoryBound /\ retired' = retired \cup {request.id}
    BY <1>2, <1>3, RoomToRemember DEF Remembers
  <2>2. Traffic({active} \cup retired, working, channel)
    BY <1>0, <2>1, <1>1 DEF HealthyTraffic, Remembers, InFlight, Writing
  <2>3. Traffic({active} \cup retired, working, channel')
    BY <1>2, <2>2, TakenTraffic
  <2>4. {active} \cup retired \subseteq {active'} \cup retired'
    BY <1>2, <2>1
  <2> QED BY <2>3, <2>4 DEF Traffic
<1>4. CASE Complete(request.id) /\ pc = "answer"
  <2>1. Len(retiredOrder) < HistoryBound /\ retired' = retired
    BY <1>4 DEF Complete, Remembers
  <2>2. /\ Traffic({active} \cup retired, working, channel)
        /\ InHand({active} \cup retired, working, channel, frame)
        /\ frame.kind = "response" /\ frame.id = request.id
    BY <1>0, <2>1, <1>4 DEF HealthyTraffic, Remembers, Handling, TransportInv, AnswerInHand
  <2>3. request.id \notin working /\ \A j \in 1..Len(channel) : channel[j].id # request.id
    BY <2>2 DEF InHand
  <2>4. Traffic({active'} \cup retired', working, channel)
    BY <1>2, <2>1, <2>2, <2>3 DEF Traffic
  <2> QED BY <1>2, <2>4, TakenTraffic
<1> QED BY <1>1, <1>3, <1>4

\* A step of the child, of the reader or of the loop that ends no request.
LEMMA TrafficGoesOn ==
  ASSUME HealthyTraffic, UNCHANGED <<coordinatorVars, child>>, pc' = "down" \/ pc # "down",
         pc' = "writing" <=> pc = "writing",
         Traffic(Told, working, channel) => Traffic(Told, working', channel'),
         Handling' /\ Remembers => InHand(Told, working', channel', frame')
  PROVE  HealthyTraffic'
BY DEF HealthyTraffic, Remembers, Told, coordinatorVars

LEMMA HealthyTrafficNext ==
  TransportInv /\ HealthyTraffic /\ [TransportNext]_transportVars => HealthyTraffic'
<1> SUFFICES ASSUME TransportInv, HealthyTraffic, [TransportNext]_transportVars
             PROVE  HealthyTraffic'
  OBVIOUS
<1> DEFINE known == Told
<1>0. channel \in Seq(Events)
  BY DEF TransportInv, TransportTypeOK, Events
<1>1. CASE UNCHANGED transportVars
  BY <1>1, TrafficGoesOn
  DEF transportVars, sessionVars, clientVars, Handling, HealthyTraffic
<1>2. CASE \E f \in Frame \cup {Garbage} : ChildSends(f)
  <2>1. PICK f \in Frame \cup {Garbage} : ChildSends(f)
    BY <1>2
  <2>2. CASE child = "healthy" /\ Remembers
    <3>1. f \in Frame /\ f.valid /\ f.id \in working
      BY <2>1, <2>2 DEF ChildSends, Garbage
    <3>2. channel' = channel \/ channel' = Append(channel, f)
      BY <2>1 DEF ChildSends, Publish
    <3>3. Traffic(known, working, channel)
      BY <2>2 DEF HealthyTraffic
    <3>4. Traffic(known, working', channel')
          /\ \A g : InHand(known, working, channel, g) => InHand(known, working', channel', g)
      BY <1>0, <2>1, <3>1, <3>2, <3>3, SentTraffic DEF ChildSends
    <3> QED
      BY <2>1, <2>2, <3>4, TrafficGoesOn DEF ChildSends, clientVars, Handling, HealthyTraffic
  <2>3. CASE ~Remembers
    BY <2>1, <2>3 DEF ChildSends, clientVars, coordinatorVars, Remembers, HealthyTraffic
  <2> QED BY <2>2, <2>3 DEF Remembers
<1>3. CASE ReaderCloses
  <2>1. PICK e \in Closing : Publish(e)
    BY <1>3 DEF ReaderCloses
  <2>2. channel' = channel \/ channel' = Append(channel, e)
    BY <2>1 DEF Publish
  <2>3. /\ Traffic(known, working, channel) => Traffic(known, working, channel')
        /\ \A g : Traffic(known, working, channel) /\ InHand(known, working, channel, g) =>
             InHand(known, working, channel', g)
    BY <1>0, <2>2, ClosedTraffic
  <2> QED
    BY <1>3, <2>3, TrafficGoesOn DEF ReaderCloses, clientVars, Handling, HealthyTraffic
<1>4. CASE ChildExits \/ DeadlinePasses \/ RequestCancel \/ StatusReaps
  BY <1>4, TrafficGoesOn
  DEF ChildExits, DeadlinePasses, RequestCancel, StatusReaps, sessionVars, clientVars, Handling,
      HealthyTraffic, InFlight, Writing
<1>5. CASE \E mode \in Modes : Start(mode)
  <2>1. PICK mode \in Modes : Start(mode)
    BY <1>5
  <2>2. nextId \in Ids /\ pc = "idle" /\ active = NoId /\ NoId \notin Ids
    BY <2>1, TransportNoId DEF Start, TransportInv, TransportTypeOK, IdleIsFree
  <2>3. CASE Begin(nextId) /\ pc' = "writing"
    <3>1. Told' = retired /\ Told = {NoId} \cup retired /\ retiredOrder' = retiredOrder
      BY <2>2, <2>3 DEF Begin, Told
    <3>2. ASSUME Traffic(known, working, channel) PROVE Traffic(retired, working, channel)
      <4>1. \A e \in Frame : e.id # NoId
        BY EventFields
      <4>2. NoId \notin working
        BY <2>2 DEF TransportInv, TransportTypeOK
      <4> QED BY <3>1, <3>2, <4>1, <4>2 DEF Traffic
    <3> QED
      BY <2>1, <2>2, <2>3, <3>1, <3>2 DEF Start, HealthyTraffic, Remembers, Handling, sessionVars
  <2>4. CASE pc' = "down"
    BY <2>4 DEF HealthyTraffic, Remembers
  <2> QED BY <2>1, <2>3, <2>4 DEF Start
\* Every way a request ends, but the answer.
<1>6. ASSUME InFlight, pc # "writing", UNCHANGED <<child, working>>,
             channel' = channel \/ (channel # <<>> /\ channel' = Tail(channel)),
             NEW on, TimedOut \/ Rejected(on) \/ Crashed
      PROVE  HealthyTraffic'
  BY <1>6, FinishKeepsTraffic DEF TimedOut, Rejected, Crashed
<1>7. CASE LoopTop
  <2>1. InFlight /\ pc = "top" /\ UNCHANGED sessionVars
    BY <1>7 DEF LoopTop, InFlight, Writing
  <2>2. CASE TimedOut \/ Rejected(Nothing)
    BY <1>6, <2>1, <2>2 DEF sessionVars
  <2>3. CASE ~(TimedOut \/ Rejected(Nothing))
    <3>1. UNCHANGED coordinatorVars /\ pc' \in {"recv", "cancelling"}
      BY <1>7, <2>3 DEF LoopTop, Goto
    <3> QED BY <2>1, <3>1, TrafficGoesOn DEF sessionVars, InFlight, Writing, Handling
  <2> QED BY <2>2, <2>3
<1>8. CASE Receive
  <2>1. /\ InFlight /\ pc = "recv" /\ UNCHANGED <<child, working>>
        /\ channel # <<>> /\ channel' = Tail(channel)
    BY <1>8 DEF Receive, InFlight, Writing
  <2>2. CASE Head(channel) \in Closing
    BY <1>6, <1>8, <2>1, <2>2 DEF Receive
  <2>3. CASE Head(channel) \notin Closing
    <3>1. UNCHANGED coordinatorVars /\ pc' = "frame" /\ frame' = Head(channel)
      BY <1>8, <2>3 DEF Receive
    <3>2. Traffic(known, working, channel) =>
            Traffic(known, working', channel') /\ InHand(known, working', channel', frame')
      BY <1>0, <2>1, <2>3, <3>1, TakenTraffic
    <3> QED BY <2>1, <3>1, <3>2, TrafficGoesOn DEF InFlight, Writing, HealthyTraffic
  <2> QED BY <2>2, <2>3
<1>9. CASE ReceiveNothing
  <2>1. InFlight /\ pc = "recv" /\ UNCHANGED sessionVars
    BY <1>9 DEF ReceiveNothing, InFlight, Writing
  <2>2. CASE TimedOut \/ Crashed
    BY <1>6, <2>1, <2>2 DEF sessionVars
  <2>3. CASE Goto("top")
    BY <2>1, <2>3, TrafficGoesOn DEF Goto, sessionVars, InFlight, Writing, Handling
  <2> QED BY <1>9, <2>2, <2>3 DEF ReceiveNothing
<1>10. CASE HandleFrame
  <2>1. InFlight /\ UNCHANGED sessionVars /\ pc = "frame" /\ Handling
    BY <1>10 DEF HandleFrame, InFlight, Writing, Handling
  <2>2. CASE TimedOut \/ Rejected(frame)
    BY <1>6, <2>1, <2>2 DEF sessionVars
  <2>3. CASE UNCHANGED coordinatorVars /\ pc' = "top"
    BY <2>1, <2>3, TrafficGoesOn DEF sessionVars, InFlight, Writing, Handling
  <2>4. CASE Goto("answer")
    BY <2>1, <2>4, TrafficGoesOn DEF Goto, sessionVars, InFlight, Writing, HealthyTraffic
  <2>5. CASE Finish("protocolInvalid", frame) /\ UNCHANGED coordinatorVars
    BY <2>1, <2>5, FinishKeepsTraffic DEF sessionVars
  <2> QED BY <1>10, <2>2, <2>3, <2>4, <2>5 DEF HandleFrame, Goto
<1>11. CASE AcceptAnswer
  <2>1. InFlight /\ UNCHANGED sessionVars /\ pc = "answer"
    BY <1>11 DEF AcceptAnswer, InFlight, Writing
  <2>2. CASE Rejected(frame)
    BY <1>6, <2>1, <2>2 DEF sessionVars
  <2>3. CASE Complete(request.id) /\ Finish("answered", frame)
    BY <2>1, <2>3, FinishKeepsTraffic DEF sessionVars
  <2> QED BY <1>11, <2>2, <2>3 DEF AcceptAnswer
<1>12. CASE Spawn
  BY <1>12 DEF Spawn, HealthyTraffic, Traffic, Handling
\* The request is told: no frame under way can be of it yet.
<1>13. CASE RequestWritten
  <2>1. /\ pc = "writing" /\ pc' = "top" /\ UNCHANGED <<coordinatorVars, child, channel>>
        /\ working' = working \cup {request.id}
    BY <1>13 DEF RequestWritten, Goto
  <2>2. request.id \in Ids /\ active = request.id /\ request.id \notin retired
    BY <2>1 DEF TransportInv, InFlightIsCurrent, TransportTypeOK, CoordinatorInv, ClassesDisjoint,
       IdsInOrder, InFlight, Writing
  <2>3. Told = retired /\ Told' = {active} \cup retired
    BY <2>1 DEF Told, coordinatorVars
  <2>4. Traffic(Told, working, channel) => Traffic(Told', working', channel')
    BY <2>1, <2>2, <2>3, BegunTraffic
  <2> QED BY <2>1, <2>4 DEF HealthyTraffic, Remembers, Handling, coordinatorVars
<1>14. CASE CancelWritten
  BY <1>14, TrafficGoesOn DEF CancelWritten, sessionVars, Handling
<1>15. CASE WriteFails
  BY <1>15 DEF WriteFails, Crashed, Finish, HealthyTraffic, Remembers
<1> QED
  BY <1>1, <1>2, <1>3, <1>4, <1>5, <1>7, <1>8, <1>9, <1>10, <1>11, <1>12, <1>13, <1>14, <1>15
  DEF TransportNext, ClientStep

LEMMA HealthyInvInit == TransportInit => HealthyInv
<1>1. TransportInit => HealthyTraffic
  BY DEF TransportInit, CoordinatorInit, HealthyTraffic, Traffic, Handling
<1>2. TransportInit => HealthyChildNeverRejected
  BY DEF TransportInit, HealthyChildNeverRejected, NoRequest, NoVerdict
<1> QED BY <1>1, <1>2, TransportInvInit DEF HealthyInv

\* The host loop finds no fault with the frame it holds, unless frames were lost.
LEMMA FrameIsSound ==
  ASSUME TransportInv, HealthyTraffic, pc = "frame", Remembers, request.mode = "host"
  PROVE  /\ frame.valid
         /\ Classify(frame.id) = "current" \/ Skips(frame)
<1>1. InHand({active} \cup retired, working, channel, frame)
  BY DEF HealthyTraffic, Handling, Told
<1>2. frame \in Frame /\ frame.valid /\ (frame.id = active \/ frame.id \in retired)
  BY <1>1 DEF InHand
<1> QED BY <1>2, EventFields DEF Skips, Classify

LEMMA HealthyInvNext ==
  HealthyInv /\ [TransportNext]_transportVars => HealthyInv'
<1> SUFFICES ASSUME HealthyInv, [TransportNext]_transportVars
             PROVE  HealthyChildNeverRejected'
  BY TransportInvNext, HealthyTrafficNext DEF HealthyInv
<1> USE DEF HealthyInv
\* A verdict that stands is not undone: nothing brings a lost frame back.
<1>1. ASSUME UNCHANGED <<verdict, request, child, coordinatorVars>>, overflowed => overflowed'
      PROVE  HealthyChildNeverRejected'
  BY <1>1 DEF HealthyChildNeverRejected, coordinatorVars
\* Any other rejection is over no frame of the child, or after a loss.
<1>2. ASSUME NEW outcome, NEW on, Finish(outcome, on), overflowed' = overflowed,
             \/ outcome # "protocolInvalid" \/ overflowed
             \/ on.kind \notin {"progress", "response"}
      PROVE  HealthyChildNeverRejected'
  BY <1>2 DEF Finish, HealthyChildNeverRejected
<1>3. CASE UNCHANGED transportVars
  BY <1>1, <1>3 DEF transportVars, sessionVars, clientVars
<1>4. CASE \/ \E f \in Frame \cup {Garbage} : ChildSends(f)
           \/ ReaderCloses \/ ChildExits \/ DeadlinePasses \/ RequestCancel \/ StatusReaps
  BY <1>1, <1>4 DEF ChildSends, ReaderCloses, ChildExits, DeadlinePasses, RequestCancel,
     StatusReaps, Publish, sessionVars, clientVars
<1>5. CASE \/ Spawn \/ \E mode \in Modes : Start(mode)
  BY <1>5 DEF Spawn, Start, NoVerdict, HealthyChildNeverRejected
<1>6. CASE LoopTop
  BY <1>1, <1>2, <1>6 DEF LoopTop, TimedOut, Rejected, Crashed, Goto, Nothing, sessionVars
<1>7. CASE Receive
  <2>1. CASE Head(channel) \in Closing
    BY <1>2, <1>7, <2>1, EventFields DEF Receive, TimedOut, Rejected
  <2>2. CASE Head(channel) \notin Closing
    BY <1>1, <1>7, <2>2 DEF Receive
  <2> QED BY <2>1, <2>2
<1>8. CASE ReceiveNothing
  BY <1>1, <1>2, <1>8 DEF ReceiveNothing, TimedOut, Crashed, Goto, sessionVars
<1>9. CASE AcceptAnswer
  BY <1>2, <1>9 DEF AcceptAnswer, Rejected, sessionVars
<1>10. CASE HandleFrame
  <2>1. UNCHANGED sessionVars /\ pc = "frame"
    BY <1>10 DEF HandleFrame
  <2>2. CASE TimedOut \/ (overflowed /\ Rejected(frame))
    BY <1>2, <2>1, <2>2 DEF TimedOut, Rejected, sessionVars
  <2>3. CASE UNCHANGED <<verdict, request, coordinatorVars>>
    BY <1>1, <2>1, <2>3 DEF sessionVars
  <2>4. ASSUME ~overflowed, Rejected(frame), ~Skips(frame),
               Classify(frame.id) # "current" \/ ~frame.valid
        PROVE  HealthyChildNeverRejected'
    <3>1. ~(Remembers /\ request.mode = "host")
      BY <2>1, <2>4, FrameIsSound
    <3> QED
      BY <2>1, <2>4, <3>1 DEF Rejected, Abandon, Finish, Remembers, sessionVars,
         HealthyChildNeverRejected
  <2>5. ASSUME Finish("protocolInvalid", frame), UNCHANGED coordinatorVars,
               frame.kind = "garbage" \/ (Classify(frame.id) = "current" /\ ~frame.valid)
        PROVE  HealthyChildNeverRejected'
    <3>1. CASE frame.kind = "garbage"
      BY <1>2, <2>1, <2>5, <3>1 DEF sessionVars
    <3>2. CASE ~frame.valid
      <4>1. ~(Remembers /\ request.mode = "host")
        BY <2>1, <3>2, FrameIsSound
      <4> QED
        BY <2>1, <2>5, <4>1 DEF Finish, Remembers, coordinatorVars, sessionVars,
           HealthyChildNeverRejected
    <3> QED BY <2>5, <3>1, <3>2
  <2> QED BY <1>10, <2>2, <2>3, <2>4, <2>5 DEF HandleFrame, Goto
<1>11. CASE RequestWritten \/ CancelWritten \/ WriteFails
  BY <1>1, <1>2, <1>11 DEF RequestWritten, CancelWritten, WriteFails, Goto, Crashed, sessionVars
<1> QED
  BY <1>3, <1>4, <1>5, <1>6, <1>7, <1>8, <1>9, <1>10, <1>11 DEF TransportNext, ClientStep

\* The host loop does not blame a healthy child for its frames, however late they come,
\* as long as no frame was lost and no timed-out request has been forgotten
\* (SidecarSupervisor::request skips what it remembers as retired).
THEOREM HealthyChildrenNeverRejected == TransportSpec => []HealthyChildNeverRejected
<1>1. HealthyInv => HealthyChildNeverRejected
  BY DEF HealthyInv
<1> QED BY <1>1, HealthyInvInit, HealthyInvNext, PTL DEF TransportSpec
===============================================================================
