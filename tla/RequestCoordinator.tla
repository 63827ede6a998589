-------------------------- MODULE RequestCoordinator --------------------------
(***************************************************************************)
(* The identifier bookkeeping of one sidecar session                       *)
(* (src-tauri/src/sidecar/coordinator.rs).  A session has at most one      *)
(* current request; a finished request is remembered in one of two bounded *)
(* histories, so that a frame arriving late can be told apart from a frame *)
(* that answers nothing the host ever asked.                               *)
(*                                                                         *)
(* Each history is kept twice, as the code does: an arrival order, used to *)
(* decide what to forget, and a set, used to answer membership questions.  *)
(***************************************************************************)
EXTENDS Naturals, Sequences

CONSTANTS
  Ids,           \* request identifiers the host may issue; 0 is never valid
  HistoryBound,  \* how many finished identifiers each history remembers
  NoId           \* "no current request"

ASSUME CoordinatorAssumption ==
  /\ Ids \subseteq Nat
  /\ HistoryBound \in Nat \ {0}
  /\ NoId \notin Nat

VARIABLES
  active,          \* the current request, or NoId
  completedOrder,  \* answered identifiers, oldest first
  completed,       \* the same identifiers as a set
  retiredOrder,    \* timed-out identifiers, oldest first
  retired          \* the same identifiers as a set

coordinatorVars == <<active, completedOrder, completed, retiredOrder, retired>>

-----------------------------------------------------------------------------

\* Operators named Wrong... are variants of the one they precede with a bug in
\* them; nothing uses them but the tests of the properties.

\* What the histories become when an identifier is remembered.

Pushed(order, id) ==
  LET longer == Append(order, id)
  IN  IF Len(longer) > HistoryBound THEN Tail(longer) ELSE longer

\* Forgets the newest identifier instead of the oldest.
WrongRemembered(order, set, id) ==
  IF Len(order) >= HistoryBound THEN (set \ {order[Len(order)]}) \cup {id}
                                ELSE set \cup {id}

Remembered(order, set, id) ==
  LET longer == Append(order, id)
  IN  IF Len(longer) > HistoryBound THEN (set \cup {id}) \ {Head(longer)}
                                    ELSE set \cup {id}

\* How the host reads the identifier of an incoming frame.
WrongClassify(id) ==
  IF active # NoId THEN "current" ELSE "unknown"

Classify(id) ==
  IF active = id THEN "current"
  ELSE IF id \in retired THEN "retired"
  ELSE IF id \in completed THEN "completed"
  ELSE "unknown"

\* begin succeeds only for an identifier neither current nor remembered.

CanBegin(id) ==
  /\ id # 0
  /\ active = NoId
  /\ id \notin completed
  /\ id \notin retired

Begin(id) ==
  /\ CanBegin(id)
  /\ active' = id
  /\ UNCHANGED <<completedOrder, completed, retiredOrder, retired>>

\* The request failed without an answer: it leaves no trace.
Abandon(id) ==
  /\ active = id
  /\ active' = NoId
  /\ UNCHANGED <<completedOrder, completed, retiredOrder, retired>>

\* Clears the current request before remembering it.

Complete(id) ==
  /\ active = id
  /\ active' = NoId
  /\ completedOrder' = Pushed(completedOrder, id)
  /\ completed' = Remembered(completedOrder, completed, id)
  /\ UNCHANGED <<retiredOrder, retired>>

RetireTimeout(id) ==
  /\ active = id
  /\ active' = NoId
  /\ retiredOrder' = Pushed(retiredOrder, id)
  /\ retired' = Remembered(retiredOrder, retired, id)
  /\ UNCHANGED <<completedOrder, completed>>

-----------------------------------------------------------------------------

CoordinatorInit ==
  /\ active = NoId
  /\ completedOrder = <<>>
  /\ completed = {}
  /\ retiredOrder = <<>>
  /\ retired = {}

CoordinatorNext ==
  \/ \E id \in Ids : Begin(id)
  \/ \E id \in Ids : Abandon(id)
  \/ \E id \in Ids : Complete(id)
  \/ \E id \in Ids : RetireTimeout(id)

CoordinatorSpec == CoordinatorInit /\ [][CoordinatorNext]_coordinatorVars

-----------------------------------------------------------------------------

\* The shape of the bookkeeping: identifiers only, each order a sequence.
CoordinatorTypeOK ==
  /\ active \in Ids \cup {NoId}
  /\ completedOrder \in Seq(Ids)
  /\ completed \subseteq Ids
  /\ retiredOrder \in Seq(Ids)
  /\ retired \subseteq Ids

Faithful(order, set) ==
  /\ set = {order[i] : i \in 1..Len(order)}
  /\ \A i, j \in 1..Len(order) : order[i] = order[j] => i = j

\* Each set answers exactly for its order: forgetting the oldest identifier
\* of the order never leaves it in the set, and never removes one that is
\* still in the order (insert_bounded pushes without looking for duplicates).
HistoriesAgree ==
  /\ Faithful(completedOrder, completed)
  /\ Faithful(retiredOrder, retired)

\* is_bounded, asserted by the code after every retirement.
HistoriesBounded ==
  /\ Len(completedOrder) <= HistoryBound
  /\ Len(retiredOrder) <= HistoryBound

\* The four classes are disjoint: the current request is in no history and
\* no request is both answered and timed out, so the order in which classify
\* asks its questions does not matter.
ClassesDisjoint ==
  /\ active # 0
  /\ active \notin completed \cup retired
  /\ completed \cap retired = {}

\* A timed-out request is never revived: from "retired" an identifier can
\* only be forgotten, and only as the oldest of a full history.
RetiredIsFinal ==
  [][\A id \in retired :
        \/ id \in retired'
        \/ /\ Len(retiredOrder) = HistoryBound
           /\ id = Head(retiredOrder)
           /\ Classify(id)' = "unknown"]_coordinatorVars
=============================================================================
