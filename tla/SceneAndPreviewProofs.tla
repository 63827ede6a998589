-------------------------- MODULE SceneAndPreviewProofs --------------------------
(***************************************************************************)
(* Proofs about two components that read files in several steps between    *)
(* which others write: SceneTokens and PreviewCustody.                     *)
(***************************************************************************)
EXTENDS SceneTokens, PreviewCustody, TLAPS

-----------------------------------------------------------------------------
(***************************************************************************)
(* The tokens of a scene draft.                                            *)
(*                                                                         *)
(* Proofs about SceneTokens, for any callers and any number of changes,    *)
(* with and without edits on disk. A snapshot is of one brand because the  *)
(* brand only moves on and the status is read on both sides of the pages.  *)
(* A later change is reported because whoever makes it has advanced the    *)
(* generation after the bind, or is one of those that were pending at it.  *)
(***************************************************************************)

\* What a binder has read is of one brand after the other, the last not after today's.
ReadsInOrder ==
  \A c \in Binders :
    /\ pc[c] = "before" => seen[c].before <= brand
    /\ pc[c] = "first" => seen[c].before <= seen[c].first /\ seen[c].first <= brand
    /\ pc[c] = "second" => /\ seen[c].before <= seen[c].first /\ seen[c].first <= brand
                           /\ seen[c].first = seen[c].second
    /\ pc[c] = "read" => seen[c].before = seen[c].first /\ seen[c].first = seen[c].second

\* A change that was not pending at the last bind has a later generation.
ChangesAreLater ==
  bound # NoSnapshot =>
    /\ bound.generation <= generation
    /\ missed => bound.generation < generation
    /\ \A c \in Changers :
         pc[c] \in {"advanced", "changing"} /\ c \notin pending => bound.generation < generation

Reading == [expected : Nat, generation : Nat, before : Nat, first : Nat, second : Nat]

SceneShape ==
  /\ SceneTypeOK
  /\ seen \in [Binders -> Reading]
  /\ \A c \in Changers : pc[c] \in {"idle", "advanced", "changing"}
  /\ \A c \in Binders : pc[c] \in {"idle", "binding", "before", "first", "second", "read"}

SceneInv == SceneShape /\ ReadsInOrder /\ ChangesAreLater /\ SnapshotIsOneBrand

-----------------------------------------------------------------------------

LEMMA Bounds ==
  /\ \A n \in 0..MaxGeneration : n \in Nat
  /\ \A n \in 0..MaxRevision : n \in Nat
  /\ \A n \in 0..MaxBrand : n \in Nat
  /\ MaxGeneration \in Nat /\ MaxRevision \in Nat /\ MaxBrand \in Nat
BY SceneTokensAssumption

LEMMA SceneInvInit == SceneInit => SceneInv
<1> SUFFICES ASSUME SceneInit PROVE SceneInv
  OBVIOUS
<1>1. NothingSeen \in Reading
  BY DEF NothingSeen, Reading
<1>2. SceneShape
  <2>1. seen \in [Binders -> Reading] /\ \A c \in Binders : seen[c] = NothingSeen
    BY <1>1 DEF SceneInit
  <2>2. \A c \in Changers \cup Binders : pc[c] = "idle"
    BY DEF SceneInit
  <2>3. 0 \in 0..MaxGeneration /\ 0 \in 0..MaxRevision /\ 0 \in 0..MaxBrand
    BY Bounds
  <2> QED BY <2>1, <2>2, <2>3 DEF SceneInit, SceneShape, SceneTypeOK
<1> QED
  BY <1>2 DEF SceneInit, SceneInv, ReadsInOrder, ChangesAreLater, SnapshotIsOneBrand

\* A caller of one kind moves, with nothing it has read.
LEMMA ChangerMoves ==
  ASSUME SceneInv, NEW c \in Changers, NEW label \in {"idle", "advanced", "changing"},
         Goto(c, label), seen' = seen, revision' = revision, bound' = bound,
         gate' \in {gate, c, NoCaller}, pending' \in {pending, pending \ {c}},
         generation' \in 0..MaxGeneration, brand' \in 0..MaxBrand, brand <= brand',
         missed' \in BOOLEAN, ChangesAreLater'
  PROVE  SceneInv'
<1>1. SceneShape'
  BY SceneTokensAssumption DEF SceneInv, SceneShape, SceneTypeOK, Goto
<1>2. \A b \in Binders : pc'[b] = pc[b] /\ seen[b] \in Reading
  BY SceneTokensAssumption DEF SceneInv, SceneShape, SceneTypeOK, Goto
<1>3. ReadsInOrder'
  BY <1>2, Bounds DEF SceneInv, ReadsInOrder, SceneShape, SceneTypeOK, Reading
<1> QED BY <1>1, <1>3 DEF SceneInv, SnapshotIsOneBrand

\* A binder moves; the brand, the generation and the draft stay.
LEMMA BinderReads ==
  ASSUME SceneInv, NEW c \in Binders,
         NEW label \in {"idle", "binding", "before", "first", "second", "read"},
         Goto(c, label), UNCHANGED <<generation, brand, revision, bound, pending, missed>>,
         gate' \in {gate, c, NoCaller},
         NEW reads \in Reading, seen' = [seen EXCEPT ![c] = reads],
         label = "before" => reads.before <= brand,
         label = "first" => reads.before <= reads.first /\ reads.first <= brand,
         label = "second" => /\ reads.before <= reads.first /\ reads.first <= brand
                             /\ reads.first = reads.second,
         label = "read" => reads.before = reads.first /\ reads.first = reads.second
  PROVE  SceneInv'
<1>1. seen' \in [Binders -> Reading] /\ seen'[c] = reads /\ pc'[c] = label
  BY DEF SceneInv, SceneShape, SceneTypeOK, Goto
<1>2. \A b \in Binders \ {c} : seen'[b] = seen[b] /\ pc'[b] = pc[b]
  BY DEF SceneInv, SceneShape, SceneTypeOK, Goto
<1>3. \A w \in Changers : pc'[w] = pc[w]
  BY SceneTokensAssumption DEF SceneInv, SceneShape, SceneTypeOK, Goto
<1>4. SceneShape'
  <2>1. pc' \in [Changers \cup Binders ->
          {"idle", "advanced", "changing", "binding", "before", "first", "second", "read"}]
    BY DEF SceneInv, SceneShape, SceneTypeOK, Goto
  <2>2. \A b \in Binders : DOMAIN seen'[b] = DOMAIN NothingSeen
    BY <1>1 DEF Reading, NothingSeen
  <2> QED BY <1>1, <1>2, <1>3, <2>1, <2>2 DEF SceneInv, SceneShape, SceneTypeOK
<1>5. ReadsInOrder'
  BY <1>1, <1>2 DEF SceneInv, ReadsInOrder
<1>6. ChangesAreLater' /\ SnapshotIsOneBrand'
  BY <1>3 DEF SceneInv, ChangesAreLater, SnapshotIsOneBrand
<1> QED BY <1>4, <1>5, <1>6 DEF SceneInv

LEMMA SceneInvNext == SceneInv /\ [SceneNext]_sceneVars => SceneInv'
<1> SUFFICES ASSUME SceneInv, [SceneNext]_sceneVars PROVE SceneInv'
  OBVIOUS
<1>0. /\ generation \in Nat /\ brand \in Nat /\ revision \in Nat
      /\ generation \in 0..MaxGeneration /\ brand \in 0..MaxBrand /\ revision \in 0..MaxRevision
      /\ NothingSeen \in Reading /\ \A c \in Binders : seen[c] \in Reading
  BY Bounds DEF SceneInv, SceneShape, SceneTypeOK, NothingSeen, Reading
<1>1. CASE UNCHANGED sceneVars
  BY <1>1 DEF sceneVars, SceneInv, SceneShape, SceneTypeOK, ReadsInOrder, ChangesAreLater,
     SnapshotIsOneBrand
\* Callers that replace the brand.
<1>2. ASSUME NEW c \in Changers, Advance(c) PROVE SceneInv'
  <2>1. generation' = generation + 1 /\ generation' \in 0..MaxGeneration
    BY <1>0, <1>2, Bounds DEF Advance
  <2>2. bound # NoSnapshot => bound.generation \in Nat
    BY DEF SceneInv, SceneShape, SceneTypeOK, Snapshot
  <2>3. ChangesAreLater'
    BY <1>0, <1>2, <2>1, <2>2 DEF Advance, SceneInv, ChangesAreLater
  <2> QED BY <1>0, <1>2, <2>1, <2>3, ChangerMoves DEF Advance, Moves, SceneInv, SceneShape, SceneTypeOK
<1>3. ASSUME NEW c \in Changers, GiveUp(c) PROVE SceneInv'
  <2>1. ChangesAreLater'
    BY <1>3 DEF GiveUp, Moves, Goto, SceneInv, SceneShape, SceneTypeOK, ChangesAreLater
  <2> QED BY <1>0, <1>3, <2>1, ChangerMoves DEF GiveUp, Moves, SceneInv, SceneShape, SceneTypeOK
<1>4. ASSUME NEW c \in Changers, LockToChange(c) PROVE SceneInv'
  <2>1. ChangesAreLater'
    BY <1>4 DEF LockToChange, Moves, Goto, SceneInv, SceneShape, SceneTypeOK, ChangesAreLater
  <2> QED BY <1>0, <1>4, <2>1, ChangerMoves
          DEF LockToChange, Moves, SceneInv, SceneShape, SceneTypeOK
<1>5. ASSUME NEW c \in Changers, Change(c) PROVE SceneInv'
  <2>0. missed \in BOOLEAN
    BY DEF SceneInv, SceneShape, SceneTypeOK
  <2>1. brand' \in 0..MaxBrand /\ brand <= brand' /\ missed' \in BOOLEAN
        /\ (missed' => missed \/ c \notin pending)
    <3>1. CASE brand < MaxBrand /\ brand' = brand + 1 /\ missed' = (missed \/ c \notin pending)
      BY <1>0, <2>0, <3>1, Bounds
    <3>2. CASE UNCHANGED <<brand, missed>>
      BY <1>0, <2>0, <3>2
    <3> QED BY <1>5, <3>1, <3>2 DEF Change
  <2>2. ChangesAreLater'
    BY <1>5, <2>1 DEF Change, Leave, Goto, SceneInv, SceneShape, SceneTypeOK, ChangesAreLater
  <2> QED BY <1>0, <1>5, <2>1, <2>2, ChangerMoves DEF Change, Leave
\* A bind.
<1>6. ASSUME NEW c \in Binders, NEW expected \in 0..MaxRevision, BeginBind(c, expected)
      PROVE  SceneInv'
  <2> DEFINE reads == [NothingSeen EXCEPT !.expected = expected, !.generation = generation]
  <2>1. reads \in Reading
    BY <1>0, Bounds DEF NothingSeen, Reading
  <2>2. /\ Goto(c, "binding") /\ gate' = gate /\ seen' = [seen EXCEPT ![c] = reads]
        /\ UNCHANGED <<generation, brand, revision, bound, pending, missed>>
    BY <1>6 DEF BeginBind, Moves
  <2> HIDE DEF reads
  <2> QED BY <2>1, <2>2, BinderReads
<1>7. ASSUME NEW c \in Binders, ReadBefore(c) PROVE SceneInv'
  <2>1. CASE gate = NoCaller
    <3> DEFINE reads == [seen[c] EXCEPT !.before = brand]
    <3>1. reads \in Reading /\ reads.before <= brand
      BY <1>0 DEF Reading
    <3>2. seen' = [seen EXCEPT ![c] = reads]
      BY <1>7, <2>1 DEF ReadBefore, See
    <3>3. /\ Goto(c, "before") /\ gate' = c
          /\ UNCHANGED <<generation, brand, revision, bound, pending, missed>>
      BY <1>7, <2>1 DEF ReadBefore, Moves
    <3> HIDE DEF reads
    <3> QED BY <3>1, <3>2, <3>3, BinderReads
  <2>2. CASE gate # NoCaller
    BY <1>0, <1>7, <2>2, BinderReads DEF ReadBefore, Moves, Forget
  <2> QED BY <2>1, <2>2
<1>8. ASSUME NEW c \in Binders, ReadFirstPage(c) PROVE SceneInv'
  <2> DEFINE reads == [seen[c] EXCEPT !.first = brand]
  <2>1. seen[c].before <= brand
    BY <1>8 DEF ReadFirstPage, Moves, SceneInv, ReadsInOrder
  <2>2. reads \in Reading /\ reads.before <= reads.first /\ reads.first <= brand
    BY <1>0, <2>1 DEF Reading
  <2>3. seen' = [seen EXCEPT ![c] = reads]
    BY <1>8 DEF ReadFirstPage, See
  <2>4. /\ Goto(c, "first") /\ gate' = gate
        /\ UNCHANGED <<generation, brand, revision, bound, pending, missed>>
    BY <1>8 DEF ReadFirstPage, Moves
  <2> HIDE DEF reads
  <2> QED BY <2>2, <2>3, <2>4, BinderReads
<1>9. ASSUME NEW c \in Binders, ReadSecondPage(c) PROVE SceneInv'
  <2>1. seen[c].before <= seen[c].first /\ seen[c].first <= brand
    BY <1>9 DEF ReadSecondPage, Moves, SceneInv, ReadsInOrder
  <2>2. CASE brand = seen[c].first
    <3>1. [seen[c] EXCEPT !.second = brand] \in Reading
          /\ [seen[c] EXCEPT !.second = brand].before = seen[c].before
          /\ [seen[c] EXCEPT !.second = brand].first = seen[c].first
          /\ [seen[c] EXCEPT !.second = brand].second = brand
      BY <1>0 DEF Reading
    <3> QED BY <1>0, <1>9, <2>1, <2>2, <3>1, BinderReads DEF ReadSecondPage, Moves, See
  <2>3. CASE brand # seen[c].first
    BY <1>0, <1>9, <2>3, BinderReads DEF ReadSecondPage, Leave, Forget
  <2> QED BY <2>2, <2>3
<1>10. ASSUME NEW c \in Binders, ReadAfter(c) PROVE SceneInv'
  <2>1. /\ seen[c].before <= seen[c].first /\ seen[c].first <= brand
        /\ seen[c].first = seen[c].second /\ seen[c] \in Reading
    BY <1>0, <1>10 DEF ReadAfter, SceneInv, ReadsInOrder
  <2>2. CASE Settled(c)
    <3>1. seen[c].before = seen[c].first
      BY <1>0, <2>1, <2>2 DEF Settled, Reading
    <3>2. seen' = [seen EXCEPT ![c] = seen[c]]
      BY <1>10, <2>2 DEF ReadAfter, SceneInv, SceneShape
    <3> QED BY <1>10, <2>1, <2>2, <3>1, <3>2, BinderReads DEF ReadAfter
  <2>3. CASE ~Settled(c)
    BY <1>0, <1>10, <2>3, BinderReads DEF ReadAfter, Forget
  <2> QED BY <2>2, <2>3
<1>11. ASSUME NEW c \in Binders, Bind(c) PROVE SceneInv'
  <2>1. CASE ~(MayBind(c) /\ revision < MaxRevision)
    BY <1>0, <1>11, <2>1, BinderReads DEF Bind, Moves, Forget
  <2>2. CASE MayBind(c) /\ revision < MaxRevision
    <3> DEFINE snapshot == [generation |-> seen[c].generation, status |-> seen[c].before,
                            first |-> seen[c].first, second |-> seen[c].second]
    <3>1. /\ bound' = snapshot /\ snapshot \in Snapshot
          /\ revision' \in 0..MaxRevision
          /\ pending' = {w \in Changers : pc[w] \in {"advanced", "changing"}} /\ missed' = FALSE
      BY <1>0, <1>11, <2>2, Bounds DEF Bind, Snapshot, Reading
    <3>2. snapshot.status = snapshot.first /\ snapshot.first = snapshot.second
          /\ snapshot.generation = generation
      BY <1>11, <2>2 DEF Bind, Moves, MayBind, SceneInv, ReadsInOrder
    <3>3. pc' = [pc EXCEPT ![c] = "idle"] /\ \A w \in Changers : pc'[w] = pc[w]
      BY <1>11, SceneTokensAssumption
      DEF Bind, Moves, Goto, SceneInv, SceneShape, SceneTypeOK
    <3>4. seen' = [seen EXCEPT ![c] = NothingSeen] /\ seen' \in [Binders -> Reading]
      BY <1>0, <1>11 DEF Bind, Forget, SceneInv, SceneShape
    <3>5. SceneShape'
      <4>1. \A b \in Binders : DOMAIN seen'[b] = DOMAIN NothingSeen
        BY <3>4 DEF Reading, NothingSeen
      <4>2. pc' \in [Changers \cup Binders ->
              {"idle", "advanced", "changing", "binding", "before", "first", "second", "read"}]
            /\ \A b \in Binders : pc'[b] \in {pc[b], "idle"}
        BY <3>3 DEF SceneInv, SceneShape, SceneTypeOK
      <4> QED BY <1>11, <3>1, <3>3, <3>4, <4>1, <4>2 DEF Bind, SceneInv, SceneShape, SceneTypeOK
    <3>6. ReadsInOrder'
      BY <1>11, <3>3, <3>4 DEF Bind, SceneInv, ReadsInOrder, SceneShape, SceneTypeOK
    <3>7. ChangesAreLater'
      BY <1>0, <1>11, <3>1, <3>2, <3>3 DEF Bind, ChangesAreLater
    <3>8. SnapshotIsOneBrand'
      BY <3>1, <3>2 DEF SnapshotIsOneBrand
    <3> QED BY <3>5, <3>6, <3>7, <3>8 DEF SceneInv
  <2> QED BY <2>1, <2>2
\* Edits of the draft and of the project.
<1>12. CASE EditDraft
  <2>1. revision' \in 0..MaxRevision /\ bound' \in {bound, NoSnapshot}
    BY <1>0, <1>12, Bounds DEF EditDraft
  <2> QED
    BY <1>12, <2>1 DEF EditDraft, SceneInv, SceneShape, SceneTypeOK, ReadsInOrder,
       ChangesAreLater, SnapshotIsOneBrand
<1>13. CASE EditOnDisk
  <2>1. brand' = brand + 1 /\ brand' \in 0..MaxBrand
    BY <1>0, <1>13, Bounds DEF EditOnDisk
  <2>2. ReadsInOrder'
    BY <1>0, <1>13, <2>1 DEF EditOnDisk, SceneInv, ReadsInOrder, Reading
  <2> QED
    BY <1>13, <2>1, <2>2 DEF EditOnDisk, SceneInv, SceneShape, SceneTypeOK, ChangesAreLater,
       SnapshotIsOneBrand
<1> QED
  BY <1>1, <1>2, <1>3, <1>4, <1>5, <1>6, <1>7, <1>8, <1>9, <1>10, <1>11, <1>12, <1>13
  DEF SceneNext

LEMMA SceneInvariance == SceneSpec => []SceneInv
<1> QED BY SceneInvInit, SceneInvNext, PTL DEF SceneSpec

-----------------------------------------------------------------------------

\* The generations, the draft and its snapshot keep their shape.
THEOREM SceneTypeCorrect == SceneSpec => []SceneTypeOK
<1>1. SceneInv => SceneTypeOK
  BY DEF SceneInv, SceneShape
<1> QED BY <1>1, SceneInvariance, PTL

\* The tokens copied into a draft are those of one brand, although the project may be edited
\* on disk between any two of the reads (scene_tokens::read).
THEOREM SnapshotsAreOneBrand == SceneSpec => []SnapshotIsOneBrand
<1>1. SceneInv => SnapshotIsOneBrand
  BY DEF SceneInv
<1> QED BY <1>1, SceneInvariance, PTL

\* A change of the brand by the host that is begun after a bind is reported as soon as it is
\* made (status_with_host compares the generations).
THEOREM LaterChangesAlwaysReported == SceneSpec => []LaterChangesAreReported
<1>1. SceneInv => LaterChangesAreReported
  <2> SUFFICES ASSUME SceneInv, bound # NoSnapshot, missed PROVE TokenSourceChanged
    BY DEF LaterChangesAreReported
  <2>1. bound.generation \in Nat /\ generation \in Nat /\ bound.generation < generation
    BY Bounds DEF SceneInv, SceneShape, SceneTypeOK, Snapshot, ChangesAreLater
  <2> QED BY <2>1 DEF TokenSourceChanged
<1> QED BY <1>1, SceneInvariance, PTL

-----------------------------------------------------------------------------
(***************************************************************************)
(* The inputs of a candidate build.                                        *)
(*                                                                         *)
(* Proofs about PreviewCustody, for any editable inputs and any number of  *)
(* writes and failures. A file that is written after its admission keeps a *)
(* later frame than the admitted one for ever, and the last check cannot   *)
(* step over it. An undisturbed build finds everything as it left it, and  *)
(* its readings fit the budget, which is the sum of what every step reads. *)
(***************************************************************************)

\* Frames only grow; a written input is behind no check of the last round.
FramesInv ==
  /\ \A i \in Inputs : frames[i] <= inputs[i].frame
  /\ \A i \in past.changed : 0 < frames[i] /\ frames[i] < inputs[i].frame
  /\ work.at = "begin" => work.step = 1
  /\ work.at \in {"begin", "admit"} => \A i \in Inputs : work.step <= i => frames[i] = 0
  /\ work.at = "custody" /\ work.after = "final" =>
       \A i \in Inputs : i < work.step => i \notin past.changed
  /\ work.at = "returned" => past.changed = {}

\* Where the preview inside the application has been compared with what is pinned.
Compared ==
  \/ work.at \in {"readPins", "receipt", "records", "returned"}
  \/ work.at = "custody" /\ work.after \in {"post", "final"} /\ ~work.error

\* Where the preview is staged, and where the records are written.
Staged == \/ work.at \in {"sidecar", "loom"}
          \/ work.at = "custody" /\ work.after = "stage" /\ ~work.error
Recorded == \/ work.at = "returned"
            \/ work.at = "custody" /\ work.after = "final" /\ ~work.error

OutputsInv ==
  /\ Staged => outputs.neutral # "none"
  /\ work.at \in {"scene", "pins", "frontend", "built", "neutral", "public"} =>
       outputs.public # "none"
  /\ work.at \in {"built", "neutral", "public"} =>
       outputs.embedded = "pinned" \/ outputs.public = "other" \/ past.restored
  /\ Compared => outputs.embedded = "pinned" \/ past.restored
  /\ Compared \/ work.at \in {"frontend", "built", "neutral", "public"} =>
       outputs.bin = outputs.scene
  /\ Recorded => outputs.records = "written"
  /\ work.at = "custody" => work.after # "none"

\* The bytes of the first inputs: of all of them, and without the heavy ones.
Whole == <<0, 1048576, 1310720, 1572864, 114575808, 365242854, 366154012>>
Light == <<0, 1048576, 1310720, 1572864, 1572864, 1572864, 2484022>>

\* Looking, what was charged before and what the looks up to this one charge.
Sums == IF Rehash THEN Whole ELSE Light
Looked == IF work.seen = 0 THEN Sums[work.step] ELSE Sums[work.step + 1]
Base ==
  CASE work.at = "admit"                             -> 0
    [] work.at # "admit" /\ work.after = "stage"     -> 369149630
    [] work.at # "admit" /\ work.after = "post"      -> 390495328
    [] work.at # "admit" /\ work.after \notin {"stage", "post"} -> 775511016

Budget(at) ==
  CASE at = "begin"                                            -> 0
    [] at \in {"copy", "check"}                                -> 366154012
    [] at = "place"                                            -> 366416156
    [] at = "staged"                                           -> 368238472
    [] at \in {"sidecar", "loom", "scene", "pins", "frontend",
               "built", "neutral"}                             -> 371633652
    [] at = "public"                                           -> 372544810
    [] at = "readPins"                                         -> 373718112
    [] at = "receipt"                                          -> 756649340
    [] at = "records"                                          -> 775511016
    [] OTHER                                                   -> 777995038

BudgetInv ==
  ~past.disturbed => charged <= IF Looking THEN Base + Looked ELSE Budget(work.at)

\* What an undisturbed build finds.
UndisturbedInv ==
  ~past.disturbed =>
    /\ \A i \in Inputs : inputs[i].content = "pinned" /\ inputs[i].frame = 1 /\ ~inputs[i].extra
    /\ ~work.error /\ work.seen \in {0, 1} /\ outputs.runtime = 1
    /\ work.at = "admit" => \A i \in Inputs : i < work.step => frames[i] = 1
    /\ work.at \notin {"begin", "admit"} => \A i \in Inputs : frames[i] = 1
    /\ outputs.neutral = IF work.at \in {"begin", "admit", "copy", "check", "place"}
                         THEN "none" ELSE "pinned"
    /\ work.at \in {"scene", "pins", "frontend", "built", "neutral", "public", "receipt"}
         => outputs.public = "pinned"
    /\ work.at = "custody" /\ work.after = "post" => outputs.public = "pinned" /\ outputs.app = "pinned"
                                                     /\ outputs.pins = 1 /\ outputs.bin = 1
    /\ work.at \in {"loom", "scene", "pins", "frontend", "built", "neutral", "public",
                    "readPins", "receipt"} => outputs.bin = 1
    /\ work.at = "pins" => outputs.scene = 1
    /\ work.at \in {"frontend", "built", "neutral", "public", "readPins", "receipt"}
         => outputs.pins = 1
    /\ work.at \in {"built", "neutral", "public", "readPins", "receipt"} => outputs.app = "pinned"
    /\ work.at = "readPins" => outputs.public = "pinned"
    /\ work.at # "refused"

CustodyInv ==
  PreviewTypeOK /\ FramesInv /\ OutputsInv /\ BudgetInv /\ UndisturbedInv

-----------------------------------------------------------------------------
(* What a step that throws leaves, and how a check goes on.                *)

Afters == {"none", "stage", "post", "final"}
Work == [at : Places, step : Inputs, seen : Nat, after : Afters, error : BOOLEAN]
Outputs == [neutral : Texts, public : Texts, embedded : Texts, app : Texts,
            runtime : Nat, bin : Nat, scene : Nat, pins : Nat, records : {"none", "written"}]
Past == [edits : Nat, changed : SUBSET Inputs, restored : BOOLEAN, disturbed : BOOLEAN]
InputStates == [content : Contents, frame : Nat \ {0}, extra : BOOLEAN]

LEMMA Shape ==
  PreviewTypeOK <=> /\ inputs \in [Inputs -> InputStates] /\ outputs \in Outputs
                    /\ work \in Work /\ frames \in [Inputs -> Nat] /\ charged \in Nat
                    /\ past \in Past
BY DEF PreviewTypeOK, InputStates, Outputs, Work, Afters, Past

LEMMA WorkAtShape ==
  ASSUME NEW at \in Places
  PROVE  WorkAt(at) \in Work /\ WorkAt(at).at = at /\ WorkAt(at).step = 1 /\ WorkAt(at).seen = 0
         /\ WorkAt(at).after = "none" /\ WorkAt(at).error = FALSE
BY SMTT(10) DEF WorkAt, Work, Inputs, Afters

LEMMA CustodyShape ==
  ASSUME NEW after \in Afters, NEW error \in BOOLEAN
  PROVE  Custody(after, error) \in Work
         /\ Custody(after, error).at = "custody" /\ Custody(after, error).step = 1
         /\ Custody(after, error).seen = 0 /\ Custody(after, error).after = after
         /\ Custody(after, error).error = error
BY SMTT(10) DEF Custody, Work, Inputs, Places

LEMMA ThrownShape ==
  ASSUME work \in Work
  PROVE  Thrown = WorkAt("refused") \/ \E after \in Afters \ {"none"} : Thrown = Custody(after, TRUE)
<1>1. CASE work.at \in {"begin", "admit"}
  BY <1>1 DEF Thrown
<1>2. CASE work.at = "custody" /\ work.after = "final"
  BY <1>2 DEF Thrown
<1>3. CASE work.at \in {"check", "place", "staged"}
  BY <1>3 DEF Thrown, Afters
<1>4. CASE work.at \in {"neutral", "public", "readPins"}
  BY <1>4 DEF Thrown, Afters
<1>5. CASE /\ work.at \notin {"begin", "admit", "check", "place", "staged", "neutral",
                             "public", "readPins"}
           /\ ~(work.at = "custody" /\ work.after = "final")
  <2>1. Thrown = Custody("final", TRUE)
    BY <1>5 DEF Thrown
  <2> QED BY <2>1 DEF Afters
<1> QED BY <1>1, <1>2, <1>3, <1>4, <1>5

LEMMA CheckedShape ==
  ASSUME work \in Work
  PROVE  \/ \E at \in {"refused", "returned", "sidecar", "receipt"} : Checked = WorkAt(at)
         \/ Checked = Custody("final", TRUE)
<1>1. CASE work.after = "final"
  BY <1>1 DEF Checked
<1>2. CASE work.after # "final" /\ work.error
  BY <1>2 DEF Checked
<1>3. CASE work.after # "final" /\ ~work.error
  BY <1>3 DEF Checked
<1> QED BY <1>1, <1>2, <1>3

LEMMA ContractShape ==
  ASSUME NEW i \in Inputs
  PROVE  Contract[i].bytes \in Nat
BY SMTT(10) DEF Inputs, Contract, Manifest, Source, Recipe, Node, Dependencies, Preview

LEMMA NextLookShape ==
  ASSUME work \in Work, NEW w \in Work
  PROVE  NextLook(w) \in Work
BY SMTT(10) DEF NextLook, Work, Inputs

LEMMA SeenShape ==
  ASSUME work \in Work, inputs \in [Inputs -> InputStates]
  PROVE  [work EXCEPT !.seen = inputs[work.step].frame] \in Work
BY SMTT(10) DEF Work, InputStates

LEMMA OutputsShape ==
  ASSUME NEW o \in Outputs
  PROVE  /\ \A t \in Texts : /\ [o EXCEPT !.neutral = t] \in Outputs
                            /\ [o EXCEPT !.public = t] \in Outputs
                            /\ [o EXCEPT !.embedded = t] \in Outputs
                            /\ [o EXCEPT !.app = t] \in Outputs
         /\ \A n \in Nat : /\ [o EXCEPT !.runtime = n] \in Outputs
                          /\ [o EXCEPT !.bin = n] \in Outputs
                          /\ [o EXCEPT !.scene = n] \in Outputs
                          /\ [o EXCEPT !.pins = n] \in Outputs
         /\ [o EXCEPT !.records = "written"] \in Outputs
         /\ o.neutral \in Texts /\ o.public \in Texts /\ o.runtime \in Nat
         /\ o.runtime + 1 \in Nat /\ "pinned" \in Texts /\ "none" \in Texts
<1>1. "pinned" \in Texts /\ "none" \in Texts
  BY DEF Texts, Contents
<1>2. \A t \in Texts : /\ [o EXCEPT !.neutral = t] \in Outputs
                      /\ [o EXCEPT !.public = t] \in Outputs
                      /\ [o EXCEPT !.embedded = t] \in Outputs
                      /\ [o EXCEPT !.app = t] \in Outputs
  BY SMTT(10) DEF Outputs
<1>3. \A n \in Nat : /\ [o EXCEPT !.runtime = n] \in Outputs
                    /\ [o EXCEPT !.bin = n] \in Outputs
                    /\ [o EXCEPT !.scene = n] \in Outputs
                    /\ [o EXCEPT !.pins = n] \in Outputs
  BY SMTT(10) DEF Outputs
<1>4. [o EXCEPT !.records = "written"] \in Outputs
  BY SMTT(10) DEF Outputs
<1>5. o.neutral \in Texts /\ o.public \in Texts /\ o.runtime \in Nat /\ o.runtime + 1 \in Nat
  BY SMTT(10) DEF Outputs
<1> QED BY <1>1, <1>2, <1>3, <1>4, <1>5

\* What a step of the build does to the work and to the charge.
Spends(n, w) ==
  \/ work' = w /\ charged' = charged + n
  \/ work' = Thrown /\ charged' = charged

LEMMA SpendsShape ==
  ASSUME work \in Work, charged \in Nat, NEW n \in Nat, NEW w \in Work, Spends(n, w)
  PROVE  work' \in Work /\ charged' \in Nat
<1>1. Thrown \in Work
  BY ThrownShape, WorkAtShape, CustodyShape DEF Places, Afters
<1>2. CASE work' = w /\ charged' = charged + n
  BY <1>2
<1>3. CASE work' = Thrown /\ charged' = charged
  BY <1>1, <1>3
<1> QED BY <1>2, <1>3 DEF Spends

LEMMA ShapeNext ==
  ASSUME inputs' \in [Inputs -> InputStates], outputs' \in Outputs, work' \in Work,
         frames' \in [Inputs -> Nat], charged' \in Nat, past' \in Past
  PROVE  PreviewTypeOK'
BY DEF PreviewTypeOK, InputStates, Outputs, Work, Afters, Past

LEMMA ShapeStep == PreviewTypeOK /\ [PreviewNext]_previewVars => PreviewTypeOK'
<1> SUFFICES ASSUME PreviewTypeOK, [PreviewNext]_previewVars PROVE PreviewTypeOK'
  OBVIOUS
<1>1. /\ inputs \in [Inputs -> InputStates] /\ outputs \in Outputs
      /\ work \in Work /\ frames \in [Inputs -> Nat] /\ charged \in Nat /\ past \in Past
  BY Shape
<1>2. \A n \in Nat, w \in Work : Spends(n, w) => work' \in Work /\ charged' \in Nat
  BY <1>1, SpendsShape
<1>3. Checked \in Work
  <2>1. \A at \in {"refused", "returned", "sidecar", "receipt"} : WorkAt(at) \in Work
    BY WorkAtShape DEF Places
  <2>2. Custody("final", TRUE) \in Work
    BY CustodyShape DEF Afters
  <2> QED BY <1>1, <2>1, <2>2, CheckedShape, Zenon
<1>4. /\ Contract[work.step].bytes \in Nat
      /\ [work EXCEPT !.seen = inputs[work.step].frame] \in Work
  BY <1>1, ContractShape, SeenShape DEF Work
<1>5. \A at \in Places : WorkAt(at) \in Work
  BY WorkAtShape
<1>6. Custody("stage", FALSE) \in Work /\ Custody("post", FALSE) \in Work
      /\ Custody("final", FALSE) \in Work
  BY CustodyShape DEF Afters
<1>7. /\ Source.bytes \in Nat /\ 2 * Preview.bytes \in Nat /\ Preview.bytes \in Nat
      /\ AppBytes + Preview.bytes \in Nat /\ PinBytes \in Nat /\ 0 \in Nat
      /\ 2 * Preview.bytes + AppBytes + PinBytes \in Nat
  BY SMTT(10) DEF Source, Preview, AppBytes, PinBytes
\* The looks.
<1>8. CASE OpenFile
  <2>1. Spends(Contract[work.step].bytes, [work EXCEPT !.seen = inputs[work.step].frame])
    BY <1>8, Zenon DEF OpenFile, Charge, Spends
  <2> QED BY <1>1, <1>2, <1>4, <1>8, <2>1, ShapeNext, Zenon DEF OpenFile
<1>9. CASE WalkTree
  <2>1. Spends(Contract[work.step].bytes, [work EXCEPT !.seen = inputs[work.step].frame])
    BY <1>9, Zenon DEF WalkTree, Charge, Spends
  <2> QED BY <1>1, <1>2, <1>4, <1>9, <2>1, ShapeNext, Zenon DEF WalkTree
<1>10. CASE AdmitInput
  <2>1. NextLook(WorkAt("copy")) \in Work
    BY <1>1, <1>5, NextLookShape DEF Places
  <2>2. Spends(0, NextLook(WorkAt("copy")))
    BY <1>10, Zenon DEF AdmitInput, Charge, Spends
  <2>3. frames' \in [Inputs -> Nat]
    <3>1. [frames EXCEPT ![work.step] = work.seen] \in [Inputs -> Nat]
      BY <1>1, SMTT(10) DEF Work
    <3> QED BY <1>1, <1>10, <3>1, Zenon DEF AdmitInput
  <2> QED BY <1>1, <1>2, <1>7, <1>10, <2>1, <2>2, <2>3, ShapeNext, Zenon DEF AdmitInput
<1>11. CASE CheckInput
  <2>1. NextLook(Checked) \in Work
    BY <1>1, <1>3, NextLookShape
  <2>2. Spends(0, NextLook(Checked))
    BY <1>11, Zenon DEF CheckInput, Charge, Spends
  <2> QED BY <1>1, <1>2, <1>7, <1>11, <2>1, <2>2, ShapeNext, Zenon DEF CheckInput
<1>12. CASE CompareFrame
  <2>1. NextLook(Checked) \in Work
    BY <1>1, <1>3, NextLookShape
  <2>2. Spends(0, NextLook(Checked))
    BY <1>12, Zenon DEF CompareFrame, Charge, Spends
  <2> QED BY <1>1, <1>2, <1>7, <1>12, <2>1, <2>2, ShapeNext, Zenon DEF CompareFrame
\* Steps that change nothing else.
<1>13. CASE VerifySource
  <2>1. \E w \in {WorkAt("admit"), WorkAt("check"), WorkAt("neutral")} : Spends(0, w)
    <3>1. CASE work.at = "begin"
      BY <1>13, <3>1, Zenon DEF VerifySource, Charge, Spends
    <3>2. CASE work.at = "copy"
      BY <1>13, <3>2, Zenon DEF VerifySource, Charge, Spends
    <3>3. CASE work.at = "built"
      BY <1>13, <3>3, Zenon DEF VerifySource, Charge, Spends
    <3> QED BY <1>13, <3>1, <3>2, <3>3 DEF VerifySource
  <2>2. \A w \in {WorkAt("admit"), WorkAt("check"), WorkAt("neutral")} : w \in Work
    BY <1>5 DEF Places
  <2> QED BY <1>1, <1>2, <1>7, <1>13, <2>1, <2>2, ShapeNext, Zenon DEF VerifySource
<1>14. CASE CheckStage
  <2>1. Spends(Source.bytes, WorkAt("place"))
    BY <1>14, Zenon DEF CheckStage, Charge, Spends
  <2>2. WorkAt("place") \in Work
    BY <1>5 DEF Places
  <2> QED BY <1>1, <1>2, <1>7, <1>14, <2>1, <2>2, ShapeNext, Zenon DEF CheckStage
<1>15. CASE CheckNeutral
  <2>1. Spends(Preview.bytes, WorkAt("public"))
    BY <1>15, Zenon DEF CheckNeutral, Charge, Spends
  <2>2. WorkAt("public") \in Work
    BY <1>5 DEF Places
  <2> QED BY <1>1, <1>2, <1>7, <1>15, <2>1, <2>2, ShapeNext, Zenon DEF CheckNeutral
<1>16. CASE CheckPublic
  <2>1. Spends(AppBytes + Preview.bytes, WorkAt("readPins"))
    BY <1>16, Zenon DEF CheckPublic, Charge, Spends
  <2>2. WorkAt("readPins") \in Work
    BY <1>5 DEF Places
  <2> QED BY <1>1, <1>2, <1>7, <1>16, <2>1, <2>2, ShapeNext, Zenon DEF CheckPublic
<1>17. CASE SealReceipt
  <2>1. Spends(2 * Preview.bytes + AppBytes + PinBytes, WorkAt("records"))
    BY <1>17, Zenon DEF SealReceipt, Charge, Spends
  <2>2. WorkAt("records") \in Work
    BY <1>5 DEF Places
  <2> QED BY <1>1, <1>2, <1>7, <1>17, <2>1, <2>2, ShapeNext, Zenon DEF SealReceipt
<1>18. CASE CheckStaged
  <2>1. Spends(Preview.bytes, Custody("stage", FALSE))
    BY <1>18, Zenon DEF CheckStaged, Charge, Spends
  <2> QED BY <1>1, <1>2, <1>6, <1>7, <1>18, <2>1, ShapeNext, Zenon DEF CheckStaged
<1>19. CASE ReadPins
  <2>1. Spends(PinBytes, Custody("post", FALSE))
    BY <1>19, Zenon DEF ReadPins, Charge, Spends
  <2> QED BY <1>1, <1>2, <1>6, <1>7, <1>19, <2>1, ShapeNext, Zenon DEF ReadPins
\* Steps that write the outputs.
<1>20. CASE PlaceMembers
  <2>1. Spends(2 * Preview.bytes, WorkAt("staged"))
    BY <1>20, Zenon DEF PlaceMembers, Charge, Spends
  <2>2. WorkAt("staged") \in Work
    BY <1>5 DEF Places
  <2>3. outputs' \in Outputs
    BY <1>1, <1>20, OutputsShape, Zenon DEF PlaceMembers
  <2> QED BY <1>1, <1>2, <1>7, <1>20, <2>1, <2>2, <2>3, ShapeNext, Zenon DEF PlaceMembers
<1>21. CASE PrepareSidecar
  <2>1. Spends(0, WorkAt("loom"))
    BY <1>21, Zenon DEF PrepareSidecar, Charge, Spends
  <2>2. WorkAt("loom") \in Work
    BY <1>5 DEF Places
  <2>3. outputs' \in Outputs
    BY <1>1, <1>21, OutputsShape, Zenon DEF PrepareSidecar
  <2> QED BY <1>1, <1>2, <1>7, <1>21, <2>1, <2>2, <2>3, ShapeNext, Zenon DEF PrepareSidecar
<1>22. CASE PrepareScene
  <2>1. Spends(0, WorkAt("pins"))
    BY <1>22, Zenon DEF PrepareScene, Charge, Spends
  <2>2. WorkAt("pins") \in Work
    BY <1>5 DEF Places
  <2>3. outputs' \in Outputs
    BY <1>1, <1>22, OutputsShape, Zenon DEF PrepareScene
  <2> QED BY <1>1, <1>2, <1>7, <1>22, <2>1, <2>2, <2>3, ShapeNext, Zenon DEF PrepareScene
<1>23. CASE AssemblePins
  <2>1. Spends(0, WorkAt("frontend"))
    BY <1>23, Zenon DEF AssemblePins, Charge, Spends
  <2>2. WorkAt("frontend") \in Work
    BY <1>5 DEF Places
  <2>3. outputs' \in Outputs
    BY <1>1, <1>23, OutputsShape, Zenon DEF AssemblePins
  <2> QED BY <1>1, <1>2, <1>7, <1>23, <2>1, <2>2, <2>3, ShapeNext, Zenon DEF AssemblePins
<1>24. CASE PrepareLoom
  <2>1. Spends(0, WorkAt("scene"))
    BY <1>24, Zenon DEF PrepareLoom, Charge, Spends
  <2>2. WorkAt("scene") \in Work
    BY <1>5 DEF Places
  <2>3. outputs' \in Outputs
    BY <1>1, <1>24, OutputsShape, Zenon DEF PrepareLoom
  <2> QED BY <1>1, <1>2, <1>7, <1>24, <2>1, <2>2, <2>3, ShapeNext, Zenon DEF PrepareLoom
<1>25. CASE BuildFrontend
  <2>1. Spends(0, WorkAt("built"))
    BY <1>25, Zenon DEF BuildFrontend, Charge, Spends
  <2>2. WorkAt("built") \in Work
    BY <1>5 DEF Places
  <2>3. outputs' \in Outputs
    BY <1>1, <1>25, OutputsShape, Zenon DEF BuildFrontend
  <2> QED BY <1>1, <1>2, <1>7, <1>25, <2>1, <2>2, <2>3, ShapeNext, Zenon DEF BuildFrontend
<1>26. CASE WriteRecords
  <2>1. Spends(0, Custody("final", FALSE))
    BY <1>26, Zenon DEF WriteRecords, Charge, Spends
  <2>2. outputs' \in Outputs
    BY <1>1, <1>26, OutputsShape, Zenon DEF WriteRecords
  <2> QED BY <1>1, <1>2, <1>6, <1>7, <1>26, <2>1, <2>2, ShapeNext, Zenon DEF WriteRecords
\* Other programs.
<1>27. /\ past.restored \in BOOLEAN
      /\ \A restored \in BOOLEAN : Disturbed(past.changed, restored) \in Past
      /\ \A i \in Inputs : Disturbed(past.changed \cup {i}, past.restored) \in Past
  BY <1>1, SMTT(10) DEF Disturbed, Past
<1>28. ASSUME NEW i \in Inputs, WriteInput(i) PROVE PreviewTypeOK'
  <2>1. inputs[i] \in InputStates
    BY <1>1
  <2>2. inputs' \in [Inputs -> InputStates]
    BY <1>1, <1>28, <2>1 DEF WriteInput, InputStates
  <2>3. past' \in Past
    BY <1>1, <1>27, <1>28, Zenon DEF WriteInput
  <2> QED BY <1>1, <1>28, <2>2, <2>3, ShapeNext, Zenon DEF WriteInput
<1>29. ASSUME NEW i \in Inputs, AddOrRemove(i) PROVE PreviewTypeOK'
  <2>1. inputs[i] \in InputStates
    BY <1>1
  <2>2. inputs' \in [Inputs -> InputStates]
    BY <1>1, <1>29, <2>1 DEF AddOrRemove, InputStates
  <2>3. past' \in Past
    BY <1>1, <1>27, <1>29, Zenon DEF AddOrRemove
  <2> QED BY <1>1, <1>29, <2>2, <2>3, ShapeNext, Zenon DEF AddOrRemove
<1>30. ASSUME NEW o \in {"neutral", "public"}, WriteOutput(o) PROVE PreviewTypeOK'
  <2>1. PICK c \in Contents : /\ outputs' = [outputs EXCEPT ![o] = c]
                            /\ past' = Disturbed(past.changed, past.restored \/ c = "pinned")
    BY <1>30, Zenon DEF WriteOutput
  <2>2. outputs' \in Outputs
    BY <1>1, <2>1 DEF Outputs, Texts
  <2>3. past' \in Past
    <3>1. (past.restored \/ c = "pinned") \in BOOLEAN
      OBVIOUS
    <3> QED BY <1>27, <2>1, <3>1, Zenon
  <2> QED BY <1>1, <1>30, <2>2, <2>3, ShapeNext, Zenon DEF WriteOutput
<1>31. CASE ReplaceRuntime
  <2>1. outputs' \in Outputs
    BY <1>1, <1>31, OutputsShape, Zenon DEF ReplaceRuntime
  <2>2. past' \in Past
    BY <1>27, <1>31, Zenon DEF ReplaceRuntime
  <2> QED BY <1>1, <1>31, <2>1, <2>2, ShapeNext, Zenon DEF ReplaceRuntime
<1>32. CASE Fail
  <2>1. past' \in Past
    BY <1>27, <1>32, Zenon DEF Fail
  <2>2. work' \in Work
    BY <1>1, <1>32, ThrownShape, WorkAtShape, CustodyShape DEF Fail, Places, Afters
  <2> QED BY <1>1, <1>32, <2>1, <2>2, ShapeNext, Zenon DEF Fail
<1>33. CASE UNCHANGED previewVars
  BY <1>33, <1>1, ShapeNext, Zenon DEF previewVars
<1> QED
  BY <1>8, <1>9, <1>10, <1>11, <1>12, <1>13, <1>14, <1>15, <1>16, <1>17, <1>18, <1>19, <1>20,
     <1>21, <1>22, <1>23, <1>24, <1>25, <1>26, <1>28, <1>29, <1>30, <1>31, <1>32, <1>33
  DEF PreviewNext, BuildStep, Other
LEMMA Types ==
  ASSUME PreviewTypeOK
  PROVE  /\ \A i \in Inputs : /\ inputs[i].frame \in Nat /\ inputs[i].frame # 0
                             /\ frames[i] \in Nat
         /\ work.step \in Inputs /\ work.seen \in Nat /\ work.at \in Places
         /\ work.after \in Afters /\ work.error \in BOOLEAN
         /\ past.changed \subseteq Inputs /\ charged \in Nat
BY SMTT(10), Shape DEF Work, Past, InputStates

\* A step of the build goes where it wants, or where a step that throws goes.
LEMMA WhereTo ==
  ASSUME PreviewTypeOK, NEW n, NEW w, Spends(n, w)
  PROVE  work' = w \/ work' = WorkAt("refused") \/ \E a \in Afters \ {"none"} : work' = Custody(a, TRUE)
<1>1. work \in Work
  BY Shape
<1> QED BY <1>1, ThrownShape, Zenon DEF Spends

-----------------------------------------------------------------------------
(* Frames only grow.                                                       *)

LEMMA FramesElsewhere ==
  ASSUME PreviewTypeOK, FramesInv, UNCHANGED <<inputs, frames, past>>,
         \/ \E p \in Places \ {"begin", "admit", "returned"} : work' = WorkAt(p)
         \/ \E a \in Afters, e \in BOOLEAN : work' = Custody(a, e)
  PROVE  FramesInv'
<1>1. /\ work'.at \notin {"begin", "admit", "returned"}
      /\ work'.at = "custody" => work'.step = 1
  BY SMTT(10) DEF WorkAt, Custody
<1>2. \A i \in Inputs : ~(i < 1)
  BY DEF Inputs
<1> QED BY <1>1, <1>2 DEF FramesInv

LEMMA FramesThrown ==
  ASSUME PreviewTypeOK, FramesInv, UNCHANGED <<inputs, frames, past>>,
         work' = WorkAt("refused") \/ \E a \in Afters \ {"none"} : work' = Custody(a, TRUE)
  PROVE  FramesInv'
BY FramesElsewhere DEF Places

\* The steps of the build that look at no input.
Building ==
  \/ CheckStage \/ PlaceMembers \/ CheckStaged \/ PrepareSidecar \/ PrepareLoom
  \/ PrepareScene \/ AssemblePins \/ BuildFrontend \/ CheckNeutral \/ CheckPublic
  \/ ReadPins \/ SealReceipt \/ WriteRecords

LEMMA BuildingGoesOn ==
  ASSUME PreviewTypeOK, Building
  PROVE  /\ UNCHANGED <<inputs, frames, past>>
         /\ \/ \E p \in Places \ {"begin", "admit", "returned"} : work' = WorkAt(p)
            \/ \E a \in Afters, e \in BOOLEAN : work' = Custody(a, e)
<1>1. /\ UNCHANGED <<inputs, frames, past>>
      /\ \E n : \/ \E p \in {"place", "staged", "loom", "scene", "pins", "frontend", "built",
                              "public", "readPins", "records"} : Spends(n, WorkAt(p))
                \/ \E a \in {"stage", "post", "final"} : Spends(n, Custody(a, FALSE))
  BY Zenon
  DEF Building, CheckStage, PlaceMembers, CheckStaged, PrepareSidecar, PrepareLoom, PrepareScene,
      AssemblePins, BuildFrontend, CheckNeutral, CheckPublic, ReadPins, SealReceipt, WriteRecords,
      Charge, Spends
<1>2. /\ {"place", "staged", "loom", "scene", "pins", "frontend", "built", "public", "readPins",
          "records", "refused"} \subseteq Places \ {"begin", "admit", "returned"}
      /\ {"stage", "post", "final"} \subseteq Afters
  BY DEF Places, Afters
<1> QED BY <1>1, <1>2, WhereTo, Zenon

LEMMA FramesStep ==
  PreviewTypeOK /\ FramesInv /\ [PreviewNext]_previewVars => FramesInv'
<1> SUFFICES ASSUME PreviewTypeOK, FramesInv, [PreviewNext]_previewVars PROVE FramesInv'
  OBVIOUS
<1>1. CASE OpenFile \/ WalkTree
  <2>1. \E n : Spends(n, [work EXCEPT !.seen = inputs[work.step].frame])
    BY <1>1, Zenon DEF OpenFile, WalkTree, Charge, Spends
  <2>2. UNCHANGED <<inputs, frames, past>>
    BY <1>1, Zenon DEF OpenFile, WalkTree
  <2>3. CASE work' = [work EXCEPT !.seen = inputs[work.step].frame]
    <3>1. work'.at = work.at /\ work'.step = work.step /\ work'.after = work.after
      BY <2>3, Shape, SMTT(10) DEF Work
    <3> QED BY <2>2, <3>1 DEF FramesInv
  <2> QED BY <2>1, <2>2, <2>3, WhereTo, FramesThrown, Zenon
<1>2. CASE AdmitInput
  <2>1. Spends(0, NextLook(WorkAt("copy"))) /\ work.at = "admit"
    BY <1>2, Zenon DEF AdmitInput, Charge, Spends
  <2>2. CASE ~ReadUnchanged(work.step)
    <3>1. work' = Thrown /\ UNCHANGED <<inputs, frames, past>>
      BY <1>2, <2>2, Zenon DEF AdmitInput, Charge
    <3>2. Thrown = WorkAt("refused")
      BY <2>1 DEF Thrown
    <3> QED BY <3>1, <3>2, FramesThrown, Zenon
  <2>3. CASE ReadUnchanged(work.step)
    <3>1. /\ frames' = [frames EXCEPT ![work.step] = inputs[work.step].frame]
          /\ UNCHANGED <<inputs, past>>
      BY <1>2, <2>3, Zenon DEF AdmitInput, ReadUnchanged
    <3>2. work' = NextLook(WorkAt("copy")) \/ work' = WorkAt("refused")
      <4>1. Thrown = WorkAt("refused")
        BY <2>1 DEF Thrown
      <4> QED BY <2>1, <4>1, Zenon DEF Spends
    <3>3. frames[work.step] = 0 /\ work.step \notin past.changed
      BY <2>1, Types DEF FramesInv, Inputs
    <3>4. \A i \in Inputs : frames'[i] = IF i = work.step THEN inputs[i].frame ELSE frames[i]
      BY <3>1, Shape
    <3>5. /\ work'.at \in {"admit", "copy", "refused"}
          /\ work'.at = "admit" => work'.step = work.step + 1
      BY <2>1, <3>2, SMTT(10) DEF NextLook, WorkAt
    <3> QED BY <2>1, <3>1, <3>3, <3>4, <3>5, Types DEF FramesInv, Inputs
  <2> QED BY <2>2, <2>3
<1>3. CASE CheckInput \/ CompareFrame
  <2>1. Spends(0, NextLook(Checked)) /\ work.at = "custody" /\ UNCHANGED <<inputs, frames, past>>
    BY <1>3, Zenon DEF CheckInput, CompareFrame, Charge, Spends
  <2>2. CASE work' = Thrown
    BY <2>1, <2>2, ThrownShape, FramesThrown, Shape, Zenon
  <2>3. CASE work' # Thrown
    <3>1. inputs[work.step].frame = frames[work.step]
      BY <1>3, <2>3, Zenon DEF CheckInput, CompareFrame, Charge, ReadUnchanged
    <3>2. work.step \notin past.changed
      BY <3>1, Types DEF FramesInv
    <3>3. work' = NextLook(Checked)
      BY <2>1, <2>3, Zenon DEF Spends
    <3>4. CASE work.step = 6
      <4>1. work' = Checked
        BY <3>3, <3>4, Zenon DEF NextLook
      <4>2. CASE work.after = "final" /\ ~work.error
        <5>1. work'.at = "returned"
          BY <4>1, <4>2, SMTT(10) DEF Checked, WorkAt
        <5>2. past.changed = {}
          BY <2>1, <3>2, <3>4, <4>2, Types DEF FramesInv, Inputs
        <5> QED BY <2>1, <5>1, <5>2 DEF FramesInv
      <4>3. CASE ~(work.after = "final" /\ ~work.error)
        <5>1. \/ \E p \in {"refused", "sidecar", "receipt"} : work' = WorkAt(p)
              \/ work' = Custody("final", TRUE)
          BY <4>1, <4>3, Zenon DEF Checked
        <5>2. {"refused", "sidecar", "receipt"} \subseteq Places \ {"begin", "admit", "returned"}
          BY DEF Places
        <5>3. "final" \in Afters
          BY DEF Afters
        <5> QED BY <2>1, <5>1, <5>2, <5>3, FramesElsewhere, Zenon
      <4> QED BY <4>2, <4>3
    <3>5. CASE work.step # 6
      <4>1. /\ work'.at = work.at /\ work'.after = work.after /\ work'.step = work.step + 1
        BY <3>3, <3>5, SMTT(10) DEF NextLook
      <4> QED BY <2>1, <3>2, <4>1, Types DEF FramesInv, Inputs
    <3> QED BY <3>4, <3>5
  <2> QED BY <2>2, <2>3
<1>4. CASE VerifySource
  <2>1. UNCHANGED <<inputs, frames, past>>
    BY <1>4, Zenon DEF VerifySource
  <2>2. CASE work.at = "begin"
    <3>1. Spends(0, WorkAt("admit"))
      BY <1>4, <2>2, Zenon DEF VerifySource, Charge, Spends
    <3>2. \A i \in Inputs : frames[i] = 0
      BY <2>2 DEF FramesInv, Inputs
    <3>3. CASE work' = WorkAt("admit")
      <4>1. work'.at = "admit"
        BY <3>3, SMTT(10) DEF WorkAt
      <4> QED BY <2>1, <3>2, <4>1, Types DEF FramesInv
    <3> QED BY <2>1, <3>1, <3>3, WhereTo, FramesThrown, Zenon
  <2>3. CASE work.at # "begin"
    <3>1. Spends(0, WorkAt("check")) \/ Spends(0, WorkAt("neutral"))
      BY <1>4, <2>3, Zenon DEF VerifySource, Charge, Spends
    <3>2. {"check", "neutral", "refused"} \subseteq Places \ {"begin", "admit", "returned"}
      BY DEF Places
    <3> QED BY <2>1, <3>1, <3>2, WhereTo, FramesElsewhere, Zenon
  <2> QED BY <2>2, <2>3
<1>5. CASE Building
  BY <1>5, BuildingGoesOn, FramesElsewhere, Zenon
<1>6. ASSUME NEW i \in Inputs, WriteInput(i) PROVE FramesInv'
  <2>1. /\ \A j \in Inputs : inputs'[j].frame = IF j = i THEN inputs[j].frame + 1
                                                     ELSE inputs[j].frame
        /\ UNCHANGED <<work, frames>> /\ work.at # "returned"
    BY <1>6, Shape DEF WriteInput, MayEdit
  <2>2. past'.changed = IF frames[i] = 0 \/ Released(i) THEN past.changed
                        ELSE past.changed \cup {i}
    BY <1>6, SMTT(10) DEF WriteInput, Disturbed
  <2> QED BY <2>1, <2>2, Types DEF FramesInv, Released
<1>7. ASSUME NEW i \in Inputs, AddOrRemove(i) PROVE FramesInv'
  <2>1. /\ \A j \in Inputs : inputs'[j].frame = inputs[j].frame
        /\ UNCHANGED <<work, frames>>
    BY <1>7, Shape DEF AddOrRemove, MayEdit
  <2>2. past'.changed = past.changed
    BY <1>7, SMTT(10) DEF AddOrRemove, Disturbed
  <2> QED BY <2>1, <2>2, Types DEF FramesInv
<1>8. ASSUME NEW o \in {"neutral", "public"}, WriteOutput(o) PROVE FramesInv'
  <2>1. past'.changed = past.changed /\ UNCHANGED <<inputs, work, frames>>
    BY <1>8, SMTT(10) DEF WriteOutput, Disturbed
  <2> QED BY <2>1 DEF FramesInv
<1>9. CASE ReplaceRuntime
  <2>1. past'.changed = past.changed /\ UNCHANGED <<inputs, work, frames>>
    BY <1>9, SMTT(10) DEF ReplaceRuntime, Disturbed
  <2> QED BY <2>1 DEF FramesInv
<1>10. CASE Fail
  <2>1. past'.changed = past.changed /\ UNCHANGED <<inputs, frames>>
    BY <1>10, SMTT(10) DEF Fail, Disturbed
  <2>2. work'.at \notin {"begin", "admit", "returned"} /\ (work'.at = "custody" => work'.step = 1)
    BY <1>10, Shape, ThrownShape, SMTT(10) DEF Fail, WorkAt, Custody
  <2> QED BY <2>1, <2>2 DEF FramesInv, Inputs
<1>11. CASE UNCHANGED previewVars
  BY <1>11 DEF previewVars, FramesInv
<1> QED
  BY <1>1, <1>2, <1>3, <1>4, <1>5, <1>6, <1>7, <1>8, <1>9, <1>10, <1>11
  DEF PreviewNext, BuildStep, Other, Building

-----------------------------------------------------------------------------
(* What is embedded was staged.                                            *)

LEMMA OutputsThrown ==
  ASSUME OutputsInv, work' = WorkAt("refused") \/ \E a \in Afters \ {"none"} : work' = Custody(a, TRUE)
  PROVE  OutputsInv'
<1>1. /\ work'.at \in {"refused", "custody"}
      /\ work'.at = "custody" => work'.error /\ work'.after # "none"
  BY SMTT(10) DEF WorkAt, Custody
<1> QED BY <1>1 DEF OutputsInv, Staged, Compared, Recorded

\* A step of the build that is not thrown goes to w.
LEMMA OutputsMoves ==
  ASSUME PreviewTypeOK, OutputsInv, NEW n, NEW w, Spends(n, w), work' = w => OutputsInv'
  PROVE  OutputsInv'
BY WhereTo, OutputsThrown, Zenon

\* The fields of the new place of the work.
LEMMA NewPlace ==
  /\ \A p : work' = WorkAt(p) => work'.at = p
  /\ \A a, e : work' = Custody(a, e) => work'.at = "custody" /\ work'.after = a
BY SMTT(10) DEF WorkAt, Custody

LEMMA OutputsStep ==
  PreviewTypeOK /\ OutputsInv /\ [PreviewNext]_previewVars => OutputsInv'
<1> SUFFICES ASSUME PreviewTypeOK, OutputsInv, [PreviewNext]_previewVars PROVE OutputsInv'
  OBVIOUS
<1>0. outputs \in Outputs
  BY Shape
<1>1. CASE OpenFile \/ WalkTree
  <2>1. \E n : Spends(n, [work EXCEPT !.seen = inputs[work.step].frame])
    BY <1>1, Zenon DEF OpenFile, WalkTree, Charge, Spends
  <2>2. UNCHANGED <<outputs, past>>
    BY <1>1, Zenon DEF OpenFile, WalkTree
  <2>3. ASSUME work' = [work EXCEPT !.seen = inputs[work.step].frame] PROVE OutputsInv'
    <3>1. work'.at = work.at /\ work'.after = work.after /\ work'.error = work.error
      BY <2>3, Shape, SMTT(10) DEF Work
    <3> QED BY <2>2, <3>1 DEF OutputsInv, Staged, Compared, Recorded
  <2> QED BY <2>1, <2>3, OutputsMoves, Zenon
<1>2. CASE AdmitInput
  <2>1. Spends(0, NextLook(WorkAt("copy"))) /\ work.at = "admit"
    BY <1>2, Zenon DEF AdmitInput, Charge, Spends
  <2>2. ASSUME work' = NextLook(WorkAt("copy")) PROVE OutputsInv'
    <3>1. work'.at \in {"admit", "copy"}
      BY <2>1, <2>2, SMTT(10) DEF NextLook, WorkAt
    <3> QED BY <3>1 DEF OutputsInv, Staged, Compared, Recorded
  <2> QED BY <2>1, <2>2, OutputsMoves, Zenon
<1>3. CASE CheckInput \/ CompareFrame
  <2>1. Spends(0, NextLook(Checked)) /\ work.at = "custody" /\ UNCHANGED <<outputs, past>>
    BY <1>3, Zenon DEF CheckInput, CompareFrame, Charge, Spends
  <2>2. ASSUME work' = NextLook(Checked) PROVE OutputsInv'
    <3>1. CASE work.step # 6
      <4>1. work'.at = work.at /\ work'.after = work.after /\ work'.error = work.error
        BY <2>2, <3>1, Types, SMTT(10) DEF NextLook
      <4> QED BY <2>1, <4>1 DEF OutputsInv, Staged, Compared, Recorded
    <3>2. CASE work.step = 6
      <4>1. work' = Checked
        BY <2>2, <3>2, Zenon DEF NextLook
      <4>2. CASE work.error
        <5>1. work' = WorkAt("refused") \/ work' = Custody("final", TRUE)
          BY <4>1, <4>2, Zenon DEF Checked
        <5>2. "final" \in Afters \ {"none"}
            BY DEF Afters
          <5> QED BY <5>1, <5>2, OutputsThrown, Zenon
      <4>3. CASE ~work.error
        <5>1. work'.at = IF work.after = "final" THEN "returned"
                         ELSE IF work.after = "stage" THEN "sidecar" ELSE "receipt"
          BY <4>1, <4>3, SMTT(10) DEF Checked, WorkAt
        <5>2. work.after \in {"stage", "post", "final"}
          BY <2>1, Types DEF Afters, OutputsInv
        <5> QED BY <2>1, <4>3, <5>1, <5>2 DEF OutputsInv, Staged, Compared, Recorded
      <4> QED BY <4>2, <4>3
    <3> QED BY <3>1, <3>2
  <2> QED BY <2>1, <2>2, OutputsMoves, Zenon
<1>4. CASE VerifySource
  <2>1. \E p \in {"admit", "check", "neutral"} :
          Spends(0, WorkAt(p)) /\ (p = "neutral" => work.at = "built") /\ UNCHANGED <<outputs, past>>
    BY <1>4, Zenon DEF VerifySource, Charge, Spends
  <2>2. PICK p \in {"admit", "check", "neutral"} :
          Spends(0, WorkAt(p)) /\ (p = "neutral" => work.at = "built") /\ UNCHANGED <<outputs, past>>
    BY <2>1
  <2>3. ASSUME work' = WorkAt(p) PROVE OutputsInv'
    <3>1. work'.at = p
      BY <2>3, NewPlace, Zenon
    <3> QED BY <2>2, <3>1 DEF OutputsInv, Staged, Compared, Recorded
  <2> QED BY <2>2, <2>3, OutputsMoves, Zenon
\* Steps that change no output.
<1>5. CASE CheckStage
  <2>1. Spends(Source.bytes, WorkAt("place")) /\ work.at = "check" /\ UNCHANGED <<outputs, past>>
    BY <1>5, Zenon DEF CheckStage, Charge, Spends
  <2>2. ASSUME work' = WorkAt("place") PROVE OutputsInv'
    <3>1. work'.at = "place"
      BY <2>2, SMTT(10) DEF WorkAt, Custody
    <3> QED BY <2>1, <3>1 DEF OutputsInv, Staged, Compared, Recorded
  <2> QED BY <2>1, <2>2, OutputsMoves, Zenon
<1>6. CASE CheckStaged
  <2>1. Spends(Preview.bytes, Custody("stage", FALSE)) /\ work.at = "staged" /\ UNCHANGED <<outputs, past>>
    BY <1>6, Zenon DEF CheckStaged, Charge, Spends
  <2>2. CASE outputs.neutral = "pinned"
    <3>1. ASSUME work' = Custody("stage", FALSE) PROVE OutputsInv'
      <4>1. work'.at = "custody" /\ work'.after = "stage" /\ work'.error = FALSE
        BY <3>1, SMTT(10) DEF WorkAt, Custody
      <4> QED BY <2>1, <2>2, <4>1 DEF OutputsInv, Staged, Compared, Recorded
    <3> QED BY <2>1, <3>1, OutputsMoves, Zenon
  <2>3. CASE ~(outputs.neutral = "pinned")
    <3>1. work' = Thrown
      BY <1>6, <2>3, Zenon DEF CheckStaged, Charge
    <3> QED BY <3>1, Shape, ThrownShape, OutputsThrown, Zenon
  <2> QED BY <2>2, <2>3
<1>7. CASE CheckNeutral
  <2>1. Spends(Preview.bytes, WorkAt("public")) /\ work.at = "neutral" /\ UNCHANGED <<outputs, past>>
    BY <1>7, Zenon DEF CheckNeutral, Charge, Spends
  <2>2. ASSUME work' = WorkAt("public") PROVE OutputsInv'
    <3>1. work'.at = "public"
      BY <2>2, SMTT(10) DEF WorkAt, Custody
    <3> QED BY <2>1, <3>1 DEF OutputsInv, Staged, Compared, Recorded
  <2> QED BY <2>1, <2>2, OutputsMoves, Zenon
<1>8. CASE CheckPublic
  <2>1. Spends(AppBytes + Preview.bytes, WorkAt("readPins")) /\ work.at = "public" /\ UNCHANGED <<outputs, past>>
    BY <1>8, Zenon DEF CheckPublic, Charge, Spends
  <2>2. CASE outputs.app = "pinned" /\ outputs.public = "pinned"
    <3>1. ASSUME work' = WorkAt("readPins") PROVE OutputsInv'
      <4>1. work'.at = "readPins"
        BY <3>1, SMTT(10) DEF WorkAt, Custody
      <4> QED BY <2>1, <2>2, <4>1 DEF OutputsInv, Staged, Compared, Recorded
    <3> QED BY <2>1, <3>1, OutputsMoves, Zenon
  <2>3. CASE ~(outputs.app = "pinned" /\ outputs.public = "pinned")
    <3>1. work' = Thrown
      BY <1>8, <2>3, Zenon DEF CheckPublic, Charge
    <3> QED BY <3>1, Shape, ThrownShape, OutputsThrown, Zenon
  <2> QED BY <2>2, <2>3
<1>9. CASE ReadPins
  <2>1. Spends(PinBytes, Custody("post", FALSE)) /\ work.at = "readPins" /\ UNCHANGED <<outputs, past>>
    BY <1>9, Zenon DEF ReadPins, Charge, Spends
  <2>2. ASSUME work' = Custody("post", FALSE) PROVE OutputsInv'
    <3>1. work'.at = "custody" /\ work'.after = "post" /\ work'.error = FALSE
      BY <2>2, SMTT(10) DEF WorkAt, Custody
    <3> QED BY <2>1, <3>1 DEF OutputsInv, Staged, Compared, Recorded
  <2> QED BY <2>1, <2>2, OutputsMoves, Zenon
<1>10. CASE SealReceipt
  <2>1. Spends(2 * Preview.bytes + AppBytes + PinBytes, WorkAt("records")) /\ work.at = "receipt" /\ UNCHANGED <<outputs, past>>
    BY <1>10, Zenon DEF SealReceipt, Charge, Spends
  <2>2. ASSUME work' = WorkAt("records") PROVE OutputsInv'
    <3>1. work'.at = "records"
      BY <2>2, SMTT(10) DEF WorkAt, Custody
    <3> QED BY <2>1, <3>1 DEF OutputsInv, Staged, Compared, Recorded
  <2> QED BY <2>1, <2>2, OutputsMoves, Zenon
\* Steps that write the outputs.
<1>11. CASE PlaceMembers
  <2>1. Spends(2 * Preview.bytes, WorkAt("staged")) /\ work.at = "place" /\ UNCHANGED past
    BY <1>11, Zenon DEF PlaceMembers, Charge, Spends
  <2>2. TRUE
    BY <1>0, <1>11, SMTT(10) DEF PlaceMembers, Outputs
  <2>3. ASSUME work' = WorkAt("staged") PROVE OutputsInv'
    <3>1. work'.at = "staged"
      BY <2>3, SMTT(10) DEF WorkAt, Custody
    <3> QED BY <1>0, <2>1, <2>2, <3>1 DEF OutputsInv, Staged, Compared, Recorded, Outputs, Texts, Contents
  <2> QED BY <2>1, <2>3, OutputsMoves, Zenon
<1>12. CASE PrepareSidecar
  <2>1. Spends(0, WorkAt("loom")) /\ work.at = "sidecar" /\ UNCHANGED past
    BY <1>12, Zenon DEF PrepareSidecar, Charge, Spends
  <2>2. outputs'.neutral = outputs.neutral
    BY <1>0, <1>12, SMTT(10) DEF PrepareSidecar, Outputs
  <2>3. ASSUME work' = WorkAt("loom") PROVE OutputsInv'
    <3>1. work'.at = "loom"
      BY <2>3, SMTT(10) DEF WorkAt, Custody
    <3> QED BY <1>0, <2>1, <2>2, <3>1 DEF OutputsInv, Staged, Compared, Recorded, Outputs, Texts, Contents
  <2> QED BY <2>1, <2>3, OutputsMoves, Zenon
<1>13. CASE PrepareLoom
  <2>1. Spends(0, WorkAt("scene")) /\ work.at = "loom" /\ UNCHANGED past
    BY <1>13, Zenon DEF PrepareLoom, Charge, Spends
  <2>2. PICK o : o = [outputs EXCEPT !.public = outputs.neutral]
    OBVIOUS
  <2>3. o \in Outputs /\ o.public = outputs.neutral
    BY <1>0, <2>2, OutputsShape, SMTT(10) DEF Outputs
  <2>4. outputs' = [o EXCEPT !.app = "none"]
    BY <1>13, <2>2, Zenon DEF PrepareLoom
  <2>5. outputs'.public = outputs.neutral
    BY <2>3, <2>4, SMTT(10) DEF Outputs
  <2>6. ASSUME work' = WorkAt("scene") PROVE OutputsInv'
    <3>1. work'.at = "scene"
      BY <2>6, SMTT(10) DEF WorkAt, Custody
    <3> QED BY <1>0, <2>1, <2>5, <3>1 DEF OutputsInv, Staged, Compared, Recorded, Outputs, Texts, Contents
  <2> QED BY <2>1, <2>6, OutputsMoves, Zenon
<1>14. CASE PrepareScene
  <2>1. Spends(0, WorkAt("pins")) /\ work.at = "scene" /\ UNCHANGED past
    BY <1>14, Zenon DEF PrepareScene, Charge, Spends
  <2>2. outputs'.public = outputs.public
    BY <1>0, <1>14, SMTT(10) DEF PrepareScene, Outputs
  <2>3. ASSUME work' = WorkAt("pins") PROVE OutputsInv'
    <3>1. work'.at = "pins"
      BY <2>3, SMTT(10) DEF WorkAt, Custody
    <3> QED BY <1>0, <2>1, <2>2, <3>1 DEF OutputsInv, Staged, Compared, Recorded, Outputs, Texts, Contents
  <2> QED BY <2>1, <2>3, OutputsMoves, Zenon
<1>15. CASE AssemblePins
  <2>1. Spends(0, WorkAt("frontend")) /\ work.at = "pins"
    BY <1>15, Zenon DEF AssemblePins, Charge, Spends
  <2>2. CASE OneRuntime
    <3>1. outputs'.public = outputs.public /\ outputs'.bin = outputs'.scene
      BY <1>0, <1>15, <2>2, SMTT(10) DEF AssemblePins, OneRuntime, Outputs
    <3>2. ASSUME work' = WorkAt("frontend") PROVE OutputsInv'
      <4>1. work'.at = "frontend"
        BY <3>2, NewPlace, Zenon
      <4> QED BY <2>1, <3>1, <4>1 DEF OutputsInv, Staged, Compared, Recorded
    <3> QED BY <2>1, <3>2, OutputsMoves, Zenon
  <2>3. CASE ~OneRuntime
    <3>1. work' = Thrown
      BY <1>15, <2>3, Zenon DEF AssemblePins, Charge
    <3> QED BY <3>1, Shape, ThrownShape, OutputsThrown, Zenon
  <2> QED BY <2>2, <2>3
<1>16. CASE BuildFrontend
  <2>1. Spends(0, WorkAt("built")) /\ work.at = "frontend" /\ UNCHANGED past
    BY <1>16, Zenon DEF BuildFrontend, Charge, Spends
  <2>2. PICK o : o = [outputs EXCEPT !.app = "pinned"]
    OBVIOUS
  <2>3. /\ o \in Outputs
        /\ o.public = outputs.public /\ o.bin = outputs.bin /\ o.scene = outputs.scene
    <3>1. o \in Outputs
      BY <1>0, <2>2, OutputsShape, Zenon
    <3>2. o.public = outputs.public /\ o.bin = outputs.bin /\ o.scene = outputs.scene
      BY <1>0, <2>2, SMTT(10) DEF Outputs
    <3> QED BY <3>1, <3>2
  <2>4. outputs' = [o EXCEPT !.embedded = outputs.public]
    BY <1>16, <2>2, Zenon DEF BuildFrontend
  <2>5. outputs'.embedded = outputs.public /\ outputs'.public = outputs.public
        /\ outputs'.bin = outputs.bin /\ outputs'.scene = outputs.scene
    BY <2>3, <2>4, SMTT(10) DEF Outputs
  <2>6. ASSUME work' = WorkAt("built") PROVE OutputsInv'
    <3>1. work'.at = "built"
      BY <2>6, SMTT(10) DEF WorkAt, Custody
    <3> QED BY <1>0, <2>1, <2>5, <3>1 DEF OutputsInv, Staged, Compared, Recorded, Outputs, Texts, Contents
  <2> QED BY <2>1, <2>6, OutputsMoves, Zenon
<1>17. CASE WriteRecords
  <2>1. Spends(0, Custody("final", FALSE)) /\ work.at = "records" /\ UNCHANGED past
    BY <1>17, Zenon DEF WriteRecords, Charge, Spends
  <2>2. outputs'.embedded = outputs.embedded /\ outputs'.records = "written"
        /\ outputs'.bin = outputs.bin /\ outputs'.scene = outputs.scene
    BY <1>0, <1>17, SMTT(10) DEF WriteRecords, Outputs
  <2>3. ASSUME work' = Custody("final", FALSE) PROVE OutputsInv'
    <3>1. work'.at = "custody" /\ work'.after = "final" /\ work'.error = FALSE
      BY <2>3, SMTT(10) DEF WorkAt, Custody
    <3> QED BY <1>0, <2>1, <2>2, <3>1 DEF OutputsInv, Staged, Compared, Recorded, Outputs, Texts, Contents
  <2> QED BY <2>1, <2>3, OutputsMoves, Zenon
\* Other programs.
<1>18. ASSUME NEW i \in Inputs, WriteInput(i) \/ AddOrRemove(i) PROVE OutputsInv'
  <2>1. past'.restored = past.restored /\ UNCHANGED <<outputs, work>>
    BY <1>18, SMTT(10) DEF WriteInput, AddOrRemove, Disturbed
  <2> QED BY <2>1 DEF OutputsInv, Staged, Compared, Recorded
<1>19. ASSUME NEW o \in {"neutral", "public"}, WriteOutput(o) PROVE OutputsInv'
  <2>1. PICK c \in Contents : /\ outputs' = [outputs EXCEPT ![o] = c]
                            /\ past' = Disturbed(past.changed, past.restored \/ c = "pinned")
                            /\ UNCHANGED work
    BY <1>19, Zenon DEF WriteOutput
  <2>2. /\ outputs'.neutral = outputs.neutral \/ outputs'.neutral = c
        /\ outputs'.public = outputs.public \/ outputs'.public = c
        /\ outputs'.embedded = outputs.embedded /\ outputs'.records = outputs.records
        /\ outputs'.bin = outputs.bin /\ outputs'.scene = outputs.scene
    BY <1>0, <1>19, <2>1, SMTT(10) DEF Outputs
  <2>3. past.restored \/ c = "pinned" => past'.restored
    <3>1. past'.restored = (past.restored \/ c = "pinned")
      BY <2>1, Zenon DEF Disturbed
    <3> QED BY <3>1, Zenon
  <2>4. c # "none" /\ (c = "pinned" \/ c = "other")
    BY DEF Contents
  <2> QED BY <2>1, <2>2, <2>3, <2>4 DEF OutputsInv, Staged, Compared, Recorded
<1>20. CASE ReplaceRuntime
  <2>1. /\ outputs'.neutral = outputs.neutral /\ outputs'.public = outputs.public
        /\ outputs'.embedded = outputs.embedded /\ outputs'.records = outputs.records
        /\ outputs'.bin = outputs.bin /\ outputs'.scene = outputs.scene
    BY <1>0, <1>20, SMTT(10) DEF ReplaceRuntime, Outputs
  <2>2. past'.restored = past.restored /\ UNCHANGED work
    BY <1>20, SMTT(10) DEF ReplaceRuntime, Disturbed
  <2> QED BY <2>1, <2>2 DEF OutputsInv, Staged, Compared, Recorded
<1>21. CASE Fail
  BY <1>21, Shape, ThrownShape, OutputsThrown, Zenon DEF Fail
<1>22. CASE UNCHANGED previewVars
  BY <1>22 DEF previewVars, OutputsInv, Staged, Compared, Recorded
<1> QED
  BY <1>1, <1>2, <1>3, <1>4, <1>5, <1>6, <1>7, <1>8, <1>9, <1>10, <1>11, <1>12, <1>13, <1>14,
     <1>15, <1>16, <1>17, <1>18, <1>19, <1>20, <1>21, <1>22
  DEF PreviewNext, BuildStep, Other

-----------------------------------------------------------------------------
(* An undisturbed build meets every condition, within the budget.          *)

LEMMA SumsOf ==
  ASSUME NEW i \in Inputs
  PROVE  /\ Whole[i] \in Nat /\ Whole[i + 1] \in Nat /\ Light[i] \in Nat /\ Light[i + 1] \in Nat
         /\ Whole[i + 1] = Whole[i] + Contract[i].bytes
         /\ Light[i + 1] = IF Contract[i].heavy THEN Light[i] ELSE Light[i] + Contract[i].bytes
         /\ Whole[i + 1] <= 366154012 /\ Light[i + 1] <= 2484022
         /\ Whole[1] = 0 /\ Light[1] = 0
         /\ i = 6 => Whole[i + 1] = 366154012 /\ Light[i + 1] = 2484022
<1>1. i = 1 \/ i = 2 \/ i = 3 \/ i = 4 \/ i = 5 \/ i = 6
  BY SMTT(10) DEF Inputs
<1>2. CASE i = 1
  BY <1>2, SMTT(20) DEF Whole, Light, Contract, Manifest
<1>3. CASE i = 2
  BY <1>3, SMTT(20) DEF Whole, Light, Contract, Source
<1>4. CASE i = 3
  BY <1>4, SMTT(20) DEF Whole, Light, Contract, Recipe
<1>5. CASE i = 4
  BY <1>5, SMTT(20) DEF Whole, Light, Contract, Node
<1>6. CASE i = 5
  BY <1>6, SMTT(20) DEF Whole, Light, Contract, Dependencies
<1>7. CASE i = 6
  BY <1>7, SMTT(20) DEF Whole, Light, Contract, Preview
<1> QED BY <1>1, <1>2, <1>3, <1>4, <1>5, <1>6, <1>7, SMTT(20)

LEMMA ReadSums ==
  ASSUME PreviewTypeOK
  PROVE  LET i == work.step IN
         /\ Base \in Nat /\ Sums[i] \in Nat /\ Sums[i + 1] \in Nat
         /\ Reads(i) => Sums[i + 1] = Sums[i] + Contract[i].bytes
         /\ ~Reads(i) => Sums[i + 1] = Sums[i]
         /\ Base + Sums[i + 1] <= MaxBytes
<1>1. work.step \in Inputs
  BY Types
<1>2. CASE Rehash
  <2>1. Sums = Whole
    BY <1>2, Zenon DEF Sums
  <2>2. Base \in Nat /\ Base <= 390495328
    BY <1>2, SMTT(10) DEF Base, Rehash
  <2> QED BY <1>1, <1>2, <2>1, <2>2, SumsOf, SMTT(10) DEF Reads, MaxBytes
<1>3. CASE ~Rehash
  <2>1. Sums = Light
    BY <1>3, Zenon DEF Sums
  <2>2. Base \in Nat /\ Base <= 775511016
    BY <1>3, SMTT(10) DEF Base, Rehash
  <2> QED BY <1>1, <1>3, <2>1, <2>2, SumsOf, SMTT(10) DEF Reads, MaxBytes
<1> QED BY <1>2, <1>3

\* Where an undisturbed build goes, and what it is charged.
LEMMA BudgetWorkAt ==
  ASSUME NEW p \in Places \ {"admit", "custody"}, work' = WorkAt(p), charged' <= Budget(p)
  PROVE  BudgetInv'
<1>1. work'.at = p
  BY NewPlace, Zenon
<1> QED BY <1>1, SMTT(10) DEF BudgetInv, Looking

LEMMA BudgetLook ==
  ASSUME NEW b \in Nat, NEW l \in Nat, Base' = b, Looked' = l, Looking', charged' <= b + l
  PROVE  BudgetInv'
BY Zenon DEF BudgetInv

\* The next look, or the second half of this one.
LEMMA BudgetOn ==
  ASSUME PreviewTypeOK, Looking, work'.at = work.at, work'.after = work.after,
         charged' <= Base + Sums[work.step + 1],
         \/ work'.step = work.step /\ work'.seen = 1
         \/ work'.step = work.step + 1 /\ work'.seen = 0
  PROVE  BudgetInv'
<1>1. Base' = Base
  BY SMTT(10) DEF Base
<1>2. Sums' = Sums
  BY SMTT(10) DEF Sums, Rehash
<1>3. Looked' = Sums[work.step + 1]
  <2>1. Looked' = Sums'[work.step + 1]
    BY SMTT(10) DEF Looked
  <2> QED BY <1>2, <2>1, Zenon
<1>4. Looking'
  BY Zenon DEF Looking
<1> QED BY <1>1, <1>3, <1>4, ReadSums, BudgetLook, Zenon

LEMMA BudgetCustody ==
  ASSUME work'.at = "custody", work'.step = 1, work'.seen = 0, charged' \in Nat,
         \/ work'.after = "stage" /\ charged' <= 369149630
         \/ work'.after = "post" /\ charged' <= 390495328
         \/ work'.after = "final" /\ charged' <= 775511016
  PROVE  BudgetInv'
<1>1. Whole[1] = 0 /\ Light[1] = 0
  BY SumsOf, SMTT(10) DEF Inputs
<1>2. Looked' = 0
  <2>1. Sums' = Whole \/ Sums' = Light
    BY SMTT(10) DEF Sums
  <2>2. Looked' = Sums'[1]
    BY SMTT(10) DEF Looked
  <2> QED BY <1>1, <2>1, <2>2, SMTT(10)
<1>3. \E b \in Nat : Base' = b /\ charged' <= b
  BY SMTT(10) DEF Base
<1>4. PICK b \in Nat : Base' = b /\ charged' <= b
  BY <1>3, SMTT(10)
<1>5. charged' <= b + 0
  BY <1>4, SMTT(10)
<1>6. Looking'
  BY SMTT(10) DEF Looking
<1> QED BY <1>2, <1>4, <1>5, <1>6, BudgetLook, SMTT(10)

LEMMA UndisturbedStep ==
  /\ PreviewTypeOK /\ OutputsInv /\ UndisturbedInv /\ BudgetInv /\ [PreviewNext]_previewVars
  => UndisturbedInv' /\ BudgetInv'
<1> SUFFICES ASSUME PreviewTypeOK, OutputsInv, UndisturbedInv, BudgetInv, [PreviewNext]_previewVars,
                    ~past'.disturbed
             PROVE  UndisturbedInv' /\ BudgetInv'
  BY DEF UndisturbedInv, BudgetInv
<1>0. /\ charged \in Nat /\ outputs \in Outputs /\ work.step \in Inputs /\ work.seen \in Nat
  BY Types, Shape
<1>1. CASE CheckStage
  <2>1. work.at = "check" /\ ~past.disturbed /\ UNCHANGED <<inputs, outputs, frames, past>>
    BY <1>1, Zenon DEF CheckStage
  <2>2. charged + Source.bytes <= 366416156
    BY <1>0, <2>1, SMTT(10) DEF BudgetInv, Looking, Budget, Source
  <2>8. charged + Source.bytes <= MaxBytes
    BY <1>0, <2>2, SMTT(10) DEF MaxBytes, Source
  <2>3. outputs.neutral = "none"
    BY <2>1, SMTT(10) DEF UndisturbedInv
  <2>4. work' = WorkAt("place") /\ charged' = charged + Source.bytes
    BY <1>1, <2>8, <2>3, Zenon DEF CheckStage, Charge
  <2>5. work'.at = "place" /\ work'.seen = 0 /\ work'.error = FALSE
    BY <2>4, SMTT(10) DEF WorkAt
  <2>6. BudgetInv'
    <3>1. charged' <= Budget("place")
      BY <2>2, <2>4, SMTT(10) DEF Budget
    <3> QED BY <2>4, <3>1, BudgetWorkAt DEF Places
  <2> QED BY <2>1, <2>3, <2>5, <2>6, SMTT(20) DEF UndisturbedInv
<1>2. CASE CheckStaged
  <2>1. work.at = "staged" /\ ~past.disturbed /\ UNCHANGED <<inputs, outputs, frames, past>>
    BY <1>2, Zenon DEF CheckStaged
  <2>2. charged + Preview.bytes <= 369149630
    BY <1>0, <2>1, SMTT(10) DEF BudgetInv, Looking, Budget, Preview
  <2>8. charged + Preview.bytes <= MaxBytes
    BY <1>0, <2>2, SMTT(10) DEF MaxBytes, Preview
  <2>3. outputs.neutral = "pinned"
    BY <2>1, SMTT(10) DEF UndisturbedInv
  <2>4. work' = Custody("stage", FALSE) /\ charged' = charged + Preview.bytes
    BY <1>2, <2>8, <2>3, Zenon DEF CheckStaged, Charge
  <2>5. work'.at = "custody" /\ work'.after = "stage" /\ work'.seen = 0 /\ work'.error = FALSE
        /\ work'.step = 1
    BY <2>4, SMTT(10) DEF Custody
  <2>6. BudgetInv'
    <3>1. charged' <= 369149630 /\ charged' \in Nat
      BY <1>0, <2>2, <2>4, SMTT(10) DEF Preview, PinBytes
    <3> QED BY <2>5, <3>1, BudgetCustody, SMTT(10)
  <2> QED BY <2>1, <2>3, <2>5, <2>6, SMTT(20) DEF UndisturbedInv
<1>3. CASE CheckNeutral
  <2>1. work.at = "neutral" /\ ~past.disturbed /\ UNCHANGED <<inputs, outputs, frames, past>>
    BY <1>3, Zenon DEF CheckNeutral
  <2>2. charged + Preview.bytes <= 372544810
    BY <1>0, <2>1, SMTT(10) DEF BudgetInv, Looking, Budget, Preview
  <2>8. charged + Preview.bytes <= MaxBytes
    BY <1>0, <2>2, SMTT(10) DEF MaxBytes, Preview
  <2>3. outputs.neutral = "pinned"
    BY <2>1, SMTT(10) DEF UndisturbedInv
  <2>4. work' = WorkAt("public") /\ charged' = charged + Preview.bytes
    BY <1>3, <2>8, <2>3, Zenon DEF CheckNeutral, Charge
  <2>5. work'.at = "public" /\ work'.seen = 0 /\ work'.error = FALSE
    BY <2>4, SMTT(10) DEF WorkAt
  <2>6. BudgetInv'
    <3>1. charged' <= Budget("public")
      BY <2>2, <2>4, SMTT(10) DEF Budget
    <3> QED BY <2>4, <3>1, BudgetWorkAt DEF Places
  <2> QED BY <2>1, <2>3, <2>5, <2>6, SMTT(20) DEF UndisturbedInv
<1>4. CASE CheckPublic
  <2>1. work.at = "public" /\ ~past.disturbed /\ UNCHANGED <<inputs, outputs, frames, past>>
    BY <1>4, Zenon DEF CheckPublic
  <2>2. charged + (AppBytes + Preview.bytes) <= 373718112
    BY <1>0, <2>1, SMTT(10) DEF BudgetInv, Looking, Budget, Preview, AppBytes
  <2>8. charged + (AppBytes + Preview.bytes) <= MaxBytes
    BY <1>0, <2>2, SMTT(10) DEF MaxBytes, Preview, AppBytes
  <2>3. outputs.app = "pinned" /\ outputs.public = "pinned"
    BY <2>1, SMTT(10) DEF UndisturbedInv
  <2>4. work' = WorkAt("readPins") /\ charged' = charged + (AppBytes + Preview.bytes)
    BY <1>4, <2>8, <2>3, Zenon DEF CheckPublic, Charge
  <2>5. work'.at = "readPins" /\ work'.seen = 0 /\ work'.error = FALSE
    BY <2>4, SMTT(10) DEF WorkAt
  <2>6. BudgetInv'
    <3>1. charged' <= Budget("readPins")
      BY <2>2, <2>4, SMTT(10) DEF Budget
    <3> QED BY <2>4, <3>1, BudgetWorkAt DEF Places
  <2> QED BY <2>1, <2>3, <2>5, <2>6, SMTT(20) DEF UndisturbedInv
<1>5. CASE ReadPins
  <2>1. work.at = "readPins" /\ ~past.disturbed /\ UNCHANGED <<inputs, outputs, frames, past>>
    BY <1>5, Zenon DEF ReadPins
  <2>2. charged + PinBytes <= 390495328
    BY <1>0, <2>1, SMTT(10) DEF BudgetInv, Looking, Budget, PinBytes
  <2>8. charged + PinBytes <= MaxBytes
    BY <1>0, <2>2, SMTT(10) DEF MaxBytes, PinBytes
  <2>3. outputs.pins # 0
    BY <2>1, SMTT(10) DEF UndisturbedInv
  <2>4. work' = Custody("post", FALSE) /\ charged' = charged + PinBytes
    BY <1>5, <2>8, <2>3, Zenon DEF ReadPins, Charge
  <2>5. work'.at = "custody" /\ work'.after = "post" /\ work'.seen = 0 /\ work'.error = FALSE
        /\ work'.step = 1
    BY <2>4, SMTT(10) DEF Custody
  <2>6. BudgetInv'
    <3>1. charged' <= 390495328 /\ charged' \in Nat
      BY <1>0, <2>2, <2>4, SMTT(10) DEF Preview, PinBytes
    <3> QED BY <2>5, <3>1, BudgetCustody, SMTT(10)
  <2> QED BY <2>1, <2>3, <2>5, <2>6, SMTT(20) DEF UndisturbedInv
<1>6. CASE SealReceipt
  <2>1. work.at = "receipt" /\ ~past.disturbed /\ UNCHANGED <<inputs, outputs, frames, past>>
    BY <1>6, Zenon DEF SealReceipt
  <2>2. charged + (2 * Preview.bytes + AppBytes + PinBytes) <= 775511016
    BY <1>0, <2>1, SMTT(10) DEF BudgetInv, Looking, Budget, Preview, AppBytes, PinBytes
  <2>8. charged + (2 * Preview.bytes + AppBytes + PinBytes) <= MaxBytes
    BY <1>0, <2>2, SMTT(10) DEF MaxBytes, Preview, AppBytes, PinBytes
  <2>3. outputs.neutral = "pinned" /\ outputs.app = "pinned" /\ outputs.public = "pinned"
        /\ outputs.pins = outputs.bin
    BY <2>1, SMTT(10) DEF UndisturbedInv
  <2>4. work' = WorkAt("records") /\ charged' = charged + (2 * Preview.bytes + AppBytes + PinBytes)
    BY <1>6, <2>8, <2>3, Zenon DEF SealReceipt, Charge
  <2>5. work'.at = "records" /\ work'.seen = 0 /\ work'.error = FALSE
    BY <2>4, SMTT(10) DEF WorkAt
  <2>6. BudgetInv'
    <3>1. charged' <= Budget("records")
      BY <2>2, <2>4, SMTT(10) DEF Budget
    <3> QED BY <2>4, <3>1, BudgetWorkAt DEF Places
  <2> QED BY <2>1, <2>3, <2>5, <2>6, SMTT(20) DEF UndisturbedInv
<1>7. CASE PlaceMembers
  <2>1. work.at = "place" /\ ~past.disturbed /\ UNCHANGED <<inputs, frames, past>>
    BY <1>7, Zenon DEF PlaceMembers
  <2>2. charged + 2 * Preview.bytes <= 368238472
    BY <1>0, <2>1, SMTT(10) DEF BudgetInv, Looking, Budget, Preview
  <2>8. charged + 2 * Preview.bytes <= MaxBytes
    BY <1>0, <2>2, SMTT(10) DEF MaxBytes, Preview
  <2>3. Placeable
    BY <2>1, SMTT(10) DEF UndisturbedInv, Placeable, Inputs
  <2>4. work' = WorkAt("staged") /\ charged' = charged + 2 * Preview.bytes
    BY <1>7, <2>8, <2>3, Zenon DEF PlaceMembers, Charge
  <2>5. work'.at = "staged" /\ work'.seen = 0 /\ work'.error = FALSE
    BY <2>4, SMTT(10) DEF WorkAt
  <2>6. BudgetInv'
    <3>1. charged' <= Budget("staged")
      BY <2>2, <2>4, SMTT(10) DEF Budget
    <3> QED BY <2>4, <3>1, BudgetWorkAt DEF Places
  <2>7. outputs'.neutral = "pinned" /\ outputs'.runtime = outputs.runtime
    BY <1>0, <1>7, <2>3, SMTT(10) DEF PlaceMembers, Outputs, Texts, Contents
  <2> QED BY <2>1, <2>3, <2>5, <2>6, <2>7, SMTT(20) DEF UndisturbedInv
<1>8. CASE PrepareSidecar
  <2>1. work.at = "sidecar" /\ ~past.disturbed /\ UNCHANGED <<inputs, frames, past>>
    BY <1>8, Zenon DEF PrepareSidecar
  <2>2. charged + 0 <= 371633652
    BY <1>0, <2>1, SMTT(10) DEF BudgetInv, Looking, Budget
  <2>8. charged + 0 <= MaxBytes
    BY <1>0, <2>2, SMTT(10) DEF MaxBytes
  <2>3. outputs.runtime = 1
    BY <2>1, SMTT(10) DEF UndisturbedInv
  <2>4. work' = WorkAt("loom") /\ charged' = charged + 0
    BY <1>8, <2>8, <2>3, Zenon DEF PrepareSidecar, Charge
  <2>5. work'.at = "loom" /\ work'.seen = 0 /\ work'.error = FALSE
    BY <2>4, SMTT(10) DEF WorkAt
  <2>6. BudgetInv'
    <3>1. charged' <= Budget("loom")
      BY <2>2, <2>4, SMTT(10) DEF Budget
    <3> QED BY <2>4, <3>1, BudgetWorkAt DEF Places
  <2>7. outputs'.bin = 1 /\ outputs'.neutral = outputs.neutral /\ outputs'.runtime = 1
    BY <1>0, <1>8, <2>3, SMTT(10) DEF PrepareSidecar, Outputs
  <2> QED BY <2>1, <2>3, <2>5, <2>6, <2>7, SMTT(20) DEF UndisturbedInv
<1>9. CASE PrepareLoom
  <2>1. work.at = "loom" /\ ~past.disturbed /\ UNCHANGED <<inputs, frames, past>>
    BY <1>9, Zenon DEF PrepareLoom
  <2>2. charged + 0 <= 371633652
    BY <1>0, <2>1, SMTT(10) DEF BudgetInv, Looking, Budget
  <2>8. charged + 0 <= MaxBytes
    BY <1>0, <2>2, SMTT(10) DEF MaxBytes
  <2>3. outputs.runtime = 1 /\ outputs.bin = 1 /\ outputs.neutral = "pinned"
    BY <2>1, SMTT(10) DEF UndisturbedInv
  <2>4. work' = WorkAt("scene") /\ charged' = charged + 0
    BY <1>9, <2>8, <2>3, Zenon DEF PrepareLoom, Charge
  <2>5. work'.at = "scene" /\ work'.seen = 0 /\ work'.error = FALSE
    BY <2>4, SMTT(10) DEF WorkAt
  <2>6. BudgetInv'
    <3>1. charged' <= Budget("scene")
      BY <2>2, <2>4, SMTT(10) DEF Budget
    <3> QED BY <2>4, <3>1, BudgetWorkAt DEF Places
  <2>7. outputs'.public = "pinned" /\ outputs'.neutral = "pinned" /\ outputs'.bin = 1
        /\ outputs'.runtime = 1
    <3>1. PICK o : o = [outputs EXCEPT !.public = outputs.neutral]
      OBVIOUS
    <3>2. o \in Outputs
      BY <1>0, <3>1, OutputsShape, Zenon
    <3>3. o.public = outputs.neutral /\ o.neutral = outputs.neutral /\ o.bin = outputs.bin
        /\ o.runtime = outputs.runtime
      BY <1>0, <3>1, SMTT(10) DEF Outputs
    <3>4. outputs' = [o EXCEPT !.app = "none"]
      BY <1>9, <3>1, Zenon DEF PrepareLoom
    <3> QED BY <2>3, <3>2, <3>3, <3>4, SMTT(10) DEF Outputs
  <2> QED BY <2>1, <2>3, <2>5, <2>6, <2>7, SMTT(20) DEF UndisturbedInv
<1>10. CASE PrepareScene
  <2>1. work.at = "scene" /\ ~past.disturbed /\ UNCHANGED <<inputs, frames, past>>
    BY <1>10, Zenon DEF PrepareScene
  <2>2. charged + 0 <= 371633652
    BY <1>0, <2>1, SMTT(10) DEF BudgetInv, Looking, Budget
  <2>8. charged + 0 <= MaxBytes
    BY <1>0, <2>2, SMTT(10) DEF MaxBytes
  <2>3. outputs.runtime = 1
    BY <2>1, SMTT(10) DEF UndisturbedInv
  <2>4. work' = WorkAt("pins") /\ charged' = charged + 0
    BY <1>10, <2>8, <2>3, Zenon DEF PrepareScene, Charge
  <2>5. work'.at = "pins" /\ work'.seen = 0 /\ work'.error = FALSE
    BY <2>4, SMTT(10) DEF WorkAt
  <2>6. BudgetInv'
    <3>1. charged' <= Budget("pins")
      BY <2>2, <2>4, SMTT(10) DEF Budget
    <3> QED BY <2>4, <3>1, BudgetWorkAt DEF Places
  <2>7. outputs'.scene = 1 /\ outputs'.bin = outputs.bin /\ outputs'.neutral = outputs.neutral
        /\ outputs'.public = outputs.public /\ outputs'.runtime = 1
    BY <1>0, <1>10, <2>3, SMTT(10) DEF PrepareScene, Outputs
  <2> QED BY <2>1, <2>3, <2>5, <2>6, <2>7, SMTT(20) DEF UndisturbedInv
<1>11. CASE AssemblePins
  <2>1. work.at = "pins" /\ ~past.disturbed /\ UNCHANGED <<inputs, frames, past>>
    BY <1>11, Zenon DEF AssemblePins
  <2>2. charged + 0 <= 371633652
    BY <1>0, <2>1, SMTT(10) DEF BudgetInv, Looking, Budget
  <2>8. charged + 0 <= MaxBytes
    BY <1>0, <2>2, SMTT(10) DEF MaxBytes
  <2>3. OneRuntime /\ outputs.runtime = 1
    BY <2>1, SMTT(10) DEF UndisturbedInv, OneRuntime
  <2>4. work' = WorkAt("frontend") /\ charged' = charged + 0
    BY <1>11, <2>8, <2>3, Zenon DEF AssemblePins, Charge
  <2>5. work'.at = "frontend" /\ work'.seen = 0 /\ work'.error = FALSE
    BY <2>4, SMTT(10) DEF WorkAt
  <2>6. BudgetInv'
    <3>1. charged' <= Budget("frontend")
      BY <2>2, <2>4, SMTT(10) DEF Budget
    <3> QED BY <2>4, <3>1, BudgetWorkAt DEF Places
  <2>7. outputs'.pins = 1 /\ outputs'.bin = outputs.bin /\ outputs'.neutral = outputs.neutral
        /\ outputs'.public = outputs.public /\ outputs'.runtime = 1
    BY <1>0, <1>11, <2>3, SMTT(10) DEF AssemblePins, Outputs
  <2> QED BY <2>1, <2>3, <2>5, <2>6, <2>7, SMTT(20) DEF UndisturbedInv
<1>12. CASE BuildFrontend
  <2>1. work.at = "frontend" /\ ~past.disturbed /\ UNCHANGED <<inputs, frames, past>>
    BY <1>12, Zenon DEF BuildFrontend
  <2>2. charged + 0 <= 371633652
    BY <1>0, <2>1, SMTT(10) DEF BudgetInv, Looking, Budget
  <2>8. charged + 0 <= MaxBytes
    BY <1>0, <2>2, SMTT(10) DEF MaxBytes
  <2>3. outputs.runtime = 1 /\ outputs.bin = 1 /\ outputs.pins = 1 /\ outputs.public = "pinned"
        /\ outputs.neutral = "pinned"
    BY <2>1, SMTT(10) DEF UndisturbedInv
  <2>4. work' = WorkAt("built") /\ charged' = charged + 0
    BY <1>12, <2>8, <2>3, Zenon DEF BuildFrontend, Charge
  <2>5. work'.at = "built" /\ work'.seen = 0 /\ work'.error = FALSE
    BY <2>4, SMTT(10) DEF WorkAt
  <2>6. BudgetInv'
    <3>1. charged' <= Budget("built")
      BY <2>2, <2>4, SMTT(10) DEF Budget
    <3> QED BY <2>4, <3>1, BudgetWorkAt DEF Places
  <2>7. outputs'.public = "pinned" /\ outputs'.neutral = "pinned" /\ outputs'.bin = 1
        /\ outputs'.runtime = 1 /\ outputs'.pins = 1 /\ outputs'.app = "pinned"
    <3>1. PICK o : o = [outputs EXCEPT !.app = "pinned"]
      OBVIOUS
    <3>2. o \in Outputs
      BY <1>0, <3>1, OutputsShape, Zenon
    <3>3. o.public = outputs.public /\ o.neutral = outputs.neutral /\ o.bin = outputs.bin
        /\ o.runtime = outputs.runtime /\ o.pins = outputs.pins /\ o.app = "pinned"
      BY <1>0, <3>1, SMTT(10) DEF Outputs
    <3>4. outputs' = [o EXCEPT !.embedded = outputs.public]
      BY <1>12, <3>1, Zenon DEF BuildFrontend
    <3> QED BY <2>3, <3>2, <3>3, <3>4, SMTT(10) DEF Outputs
  <2> QED BY <2>1, <2>3, <2>5, <2>6, <2>7, SMTT(20) DEF UndisturbedInv
<1>13. CASE WriteRecords
  <2>1. work.at = "records" /\ ~past.disturbed /\ UNCHANGED <<inputs, frames, past>>
    BY <1>13, Zenon DEF WriteRecords
  <2>2. charged + 0 <= 775511016
    BY <1>0, <2>1, SMTT(10) DEF BudgetInv, Looking, Budget
  <2>8. charged + 0 <= MaxBytes
    BY <1>0, <2>2, SMTT(10) DEF MaxBytes
  <2>3. outputs.runtime = 1
    BY <2>1, SMTT(10) DEF UndisturbedInv
  <2>4. work' = Custody("final", FALSE) /\ charged' = charged + 0
    BY <1>13, <2>8, <2>3, Zenon DEF WriteRecords, Charge
  <2>5. work'.at = "custody" /\ work'.after = "final" /\ work'.seen = 0 /\ work'.error = FALSE
        /\ work'.step = 1
    BY <2>4, SMTT(10) DEF Custody
  <2>6. BudgetInv'
    <3>1. charged' <= 775511016 /\ charged' \in Nat
      BY <1>0, <2>2, <2>4, SMTT(10) DEF Preview, PinBytes
    <3> QED BY <2>5, <3>1, BudgetCustody, SMTT(10)
  <2>7. outputs'.neutral = outputs.neutral /\ outputs'.runtime = 1
    BY <1>0, <1>13, <2>3, SMTT(10) DEF WriteRecords, Outputs
  <2> QED BY <2>1, <2>3, <2>5, <2>6, <2>7, SMTT(20) DEF UndisturbedInv
<1>14. CASE VerifySource
  <2>1. ~past.disturbed /\ UNCHANGED <<inputs, outputs, frames, past>>
    BY <1>14, Zenon DEF VerifySource
  <2>2. \A i \in {2, 3} : inputs[i].content = "pinned" /\ ~inputs[i].extra
    BY <2>1 DEF UndisturbedInv, Inputs
  <2>3. charged + 0 <= MaxBytes /\ charged + 0 = charged
    BY <1>0, <1>14, <2>1, SMTT(10) DEF VerifySource, BudgetInv, Looking, Budget, MaxBytes
  <2>4. /\ charged' = charged
        /\ \/ work.at = "begin" /\ work' = WorkAt("admit")
           \/ work.at = "copy" /\ work' = WorkAt("check")
           \/ work.at = "built" /\ work' = WorkAt("neutral")
    BY <1>14, <2>2, <2>3, Zenon DEF VerifySource, Charge
  <2>5. CASE work.at = "begin"
    <3>1. work'.at = "admit" /\ work'.step = 1 /\ work'.seen = 0 /\ work'.error = FALSE
      BY <2>4, <2>5, SMTT(10) DEF WorkAt
    <3>2. charged' <= 0
      BY <2>1, <2>4, <2>5, SMTT(10) DEF BudgetInv, Looking, Budget
    <3>3. BudgetInv'
      <4>1. Base' = 0 /\ Looking'
        BY <3>1, SMTT(10) DEF Base, Looking
      <4>2. Looked' = 0
        BY <3>1, SumsOf, SMTT(10) DEF Looked, Sums, Rehash, Inputs
      <4>3. charged' <= 0 + 0
        BY <3>2, SMTT(10)
      <4> QED BY <4>1, <4>2, <4>3, BudgetLook, SMTT(10)
    <3> QED BY <2>1, <2>5, <3>1, <3>3, SMTT(20) DEF UndisturbedInv, Inputs
  <2>6. CASE work.at = "copy"
    <3>1. work' = WorkAt("check") /\ work'.at = "check" /\ work'.seen = 0 /\ work'.error = FALSE
      BY <2>4, <2>6, SMTT(10) DEF WorkAt
    <3>2. charged' <= Budget("check")
      BY <2>1, <2>4, <2>6, SMTT(10) DEF BudgetInv, Looking, Budget
    <3>3. BudgetInv'
      BY <3>1, <3>2, BudgetWorkAt DEF Places
    <3> QED BY <2>1, <2>6, <3>1, <3>3, SMTT(20) DEF UndisturbedInv
  <2>7. CASE work.at = "built"
    <3>1. work' = WorkAt("neutral") /\ work'.at = "neutral" /\ work'.seen = 0 /\ work'.error = FALSE
      BY <2>4, <2>7, SMTT(10) DEF WorkAt
    <3>2. charged' <= Budget("neutral")
      BY <2>1, <2>4, <2>7, SMTT(10) DEF BudgetInv, Looking, Budget
    <3>3. BudgetInv'
      BY <3>1, <3>2, BudgetWorkAt DEF Places
    <3> QED BY <2>1, <2>7, <3>1, <3>3, SMTT(20) DEF UndisturbedInv
  <2> QED BY <2>4, <2>5, <2>6, <2>7, Zenon
\* The looks.
<1>15. CASE OpenFile \/ WalkTree
  <2>1. /\ Looking /\ work.seen = 0 /\ Reads(work.step) /\ ~past.disturbed
        /\ UNCHANGED <<inputs, outputs, frames, past>>
    BY <1>15, Zenon DEF OpenFile, WalkTree
  <2>2. ~inputs[work.step].extra /\ inputs[work.step].frame = 1
    BY <1>0, <2>1 DEF UndisturbedInv
  <2>3. /\ charged + Contract[work.step].bytes <= Base + Sums[work.step + 1]
        /\ charged + Contract[work.step].bytes <= MaxBytes
    <3>1. charged <= Base + Sums[work.step]
      BY <2>1, Zenon DEF BudgetInv, Looked
    <3> QED BY <1>0, <2>1, <3>1, ReadSums, ContractShape, SMTT(10) DEF MaxBytes
  <2>4. /\ work' = [work EXCEPT !.seen = inputs[work.step].frame]
        /\ charged' = charged + Contract[work.step].bytes
    BY <1>15, <2>2, <2>3, Zenon DEF OpenFile, WalkTree, Charge
  <2>5. /\ work'.at = work.at /\ work'.step = work.step /\ work'.after = work.after
        /\ work'.error = work.error /\ work'.seen = 1
    BY <2>2, <2>4, Shape, SMTT(10) DEF Work
  <2>6. BudgetInv'
    BY <2>1, <2>3, <2>4, <2>5, BudgetOn, SMTT(10)
  <2> QED BY <2>1, <2>5, <2>6, SMTT(20) DEF UndisturbedInv
<1>16. CASE AdmitInput
  <2>1. work.at = "admit" /\ work.seen # 0 /\ ~past.disturbed /\ UNCHANGED <<inputs, outputs, past>>
    BY <1>16, Zenon DEF AdmitInput
  <2>2. ReadUnchanged(work.step) /\ work.seen = 1
    BY <1>0, <2>1 DEF UndisturbedInv, ReadUnchanged
  <2>3. charged <= Base + Sums[work.step + 1] /\ charged + 0 = charged /\ charged + 0 <= MaxBytes
    <3>1. charged <= Base + Sums[work.step + 1]
      BY <2>1, Zenon DEF BudgetInv, Looked, Looking
    <3> QED BY <1>0, <3>1, ReadSums, SMTT(10) DEF MaxBytes
  <2>4. /\ work' = NextLook(WorkAt("copy")) /\ charged' = charged
        /\ frames' = [frames EXCEPT ![work.step] = work.seen]
    BY <1>16, <2>2, <2>3, Zenon DEF AdmitInput, Charge
  <2>5. \A i \in Inputs : frames'[i] = IF i = work.step THEN 1 ELSE frames[i]
    BY <2>2, <2>4, Shape
  <2>6. CASE work.step = 6
    <3>1. work' = WorkAt("copy")
      BY <2>4, <2>6, Zenon DEF NextLook
    <3>2. work'.at = "copy" /\ work'.seen = 0 /\ work'.error = FALSE
      BY <3>1, SMTT(10) DEF WorkAt
    <3>3. BudgetInv'
      <4>1. Base = 0 /\ Sums[work.step + 1] = 366154012
        BY <1>0, <2>1, <2>6, SumsOf, SMTT(10) DEF Base, Sums, Rehash
      <4>2. charged' <= Budget("copy")
        BY <2>3, <2>4, <4>1, SMTT(10) DEF Budget
      <4> QED BY <3>1, <4>2, BudgetWorkAt, SMTT(10) DEF Places
    <3>4. \A i \in Inputs : frames'[i] = 1
      BY <2>1, <2>5, <2>6 DEF UndisturbedInv, Inputs
    <3> QED BY <2>1, <3>2, <3>3, <3>4, SMTT(20) DEF UndisturbedInv
  <2>7. CASE work.step # 6
    <3>1. /\ work'.at = "admit" /\ work'.step = work.step + 1 /\ work'.after = work.after
          /\ work'.seen = 0 /\ work'.error = work.error
      BY <2>1, <2>4, <2>7, SMTT(10) DEF NextLook
    <3>2. BudgetInv'
      <4>1. Looking /\ work'.at = work.at /\ charged' <= Base + Sums[work.step + 1]
        BY <2>1, <2>3, <2>4, <3>1 DEF Looking
      <4> QED BY <3>1, <4>1, BudgetOn, SMTT(10)
    <3>3. \A i \in Inputs : i < work'.step => frames'[i] = 1
      BY <1>0, <2>1, <2>5, <3>1, SMTT(10) DEF UndisturbedInv, Inputs
    <3> QED BY <2>1, <3>1, <3>2, <3>3, SMTT(20) DEF UndisturbedInv
  <2> QED BY <2>6, <2>7
<1>17. CASE CheckInput \/ CompareFrame
  <2>1. work.at = "custody" /\ ~past.disturbed /\ UNCHANGED <<inputs, outputs, frames, past>>
    BY <1>17, Zenon DEF CheckInput, CompareFrame
  <2>2. /\ work.seen # 0 => ReadUnchanged(work.step) /\ work.seen = frames[work.step]
        /\ inputs[work.step].frame = frames[work.step]
    BY <1>0, <2>1 DEF UndisturbedInv, ReadUnchanged
  <2>3. charged <= Base + Sums[work.step + 1] /\ charged + 0 = charged /\ charged + 0 <= MaxBytes
    <3>1. CASE CheckInput
      <4>1. charged <= Base + Sums[work.step + 1]
        BY <2>1, <3>1, Zenon DEF CheckInput, BudgetInv, Looked, Looking
      <4> QED BY <1>0, <4>1, ReadSums, SMTT(10) DEF MaxBytes
    <3>2. CASE CompareFrame
      <4>1. charged <= Base + Sums[work.step] /\ ~Reads(work.step)
        BY <2>1, <3>2, Zenon DEF CompareFrame, BudgetInv, Looked, Looking
      <4> QED BY <1>0, <4>1, ReadSums, SMTT(10) DEF MaxBytes
    <3> QED BY <1>17, <3>1, <3>2
  <2>4. work' = NextLook(Checked) /\ charged' = charged
    BY <1>17, <2>2, <2>3, Zenon DEF CheckInput, CompareFrame, Charge
  <2>5. CASE work.step # 6
    <3>1. /\ work'.at = "custody" /\ work'.step = work.step + 1 /\ work'.after = work.after
          /\ work'.seen = 0 /\ work'.error = work.error
      BY <2>1, <2>4, <2>5, SMTT(10) DEF NextLook
    <3>2. BudgetInv'
      <4>1. Looking /\ work'.at = work.at /\ charged' <= Base + Sums[work.step + 1]
        BY <2>1, <2>3, <2>4, <3>1 DEF Looking
      <4> QED BY <3>1, <4>1, BudgetOn, SMTT(10)
    <3> QED BY <2>1, <3>1, <3>2, SMTT(20) DEF UndisturbedInv
  <2>6. CASE work.step = 6
    <3>1. work' = Checked /\ ~work.error /\ work.after \in {"stage", "post", "final"}
      <4>1. work' = Checked
        BY <2>4, <2>6, Zenon DEF NextLook
      <4>2. ~work.error
        BY <2>1 DEF UndisturbedInv
      <4> QED BY <2>1, <4>1, <4>2, Types DEF OutputsInv, Afters
    <3>2. CASE work.after = "stage"
      <4>1. work' = WorkAt("sidecar")
        BY <3>1, <3>2, Zenon DEF Checked
      <4>2. work'.at = "sidecar" /\ work'.seen = 0 /\ work'.error = FALSE
        BY <4>1, SMTT(10) DEF WorkAt
      <4>3. Base = 369149630 /\ Sums[work.step + 1] = 2484022
        BY <1>0, <2>1, <2>6, <3>2, SumsOf, SMTT(10) DEF Base, Sums, Rehash
      <4>4. charged' <= Budget("sidecar")
        BY <1>0, <2>3, <2>4, <4>3, SMTT(10) DEF Budget
      <4>5. BudgetInv'
        BY <4>1, <4>4, BudgetWorkAt, SMTT(10) DEF Places
      <4> QED BY <2>1, <4>2, <4>5, SMTT(20) DEF UndisturbedInv
    <3>3. CASE work.after = "post"
      <4>1. work' = WorkAt("receipt")
        BY <3>1, <3>3, Zenon DEF Checked
      <4>2. work'.at = "receipt" /\ work'.seen = 0 /\ work'.error = FALSE
        BY <4>1, SMTT(10) DEF WorkAt
      <4>3. Base = 390495328 /\ Sums[work.step + 1] = 366154012
        BY <1>0, <2>1, <2>6, <3>3, SumsOf, SMTT(10) DEF Base, Sums, Rehash
      <4>4. charged' <= Budget("receipt")
        BY <1>0, <2>3, <2>4, <4>3, SMTT(10) DEF Budget
      <4>5. BudgetInv'
        BY <4>1, <4>4, BudgetWorkAt, SMTT(10) DEF Places
      <4> QED BY <2>1, <3>3, <4>2, <4>5, SMTT(20) DEF UndisturbedInv
    <3>4. CASE work.after = "final"
      <4>1. work' = WorkAt("returned")
        BY <3>1, <3>4, Zenon DEF Checked
      <4>2. work'.at = "returned" /\ work'.seen = 0 /\ work'.error = FALSE
        BY <4>1, SMTT(10) DEF WorkAt
      <4>3. Base = 775511016 /\ Sums[work.step + 1] = 2484022
        BY <1>0, <2>1, <2>6, <3>4, SumsOf, SMTT(10) DEF Base, Sums, Rehash
      <4>4. charged' <= Budget("returned")
        BY <1>0, <2>3, <2>4, <4>3, SMTT(10) DEF Budget
      <4>5. BudgetInv'
        BY <4>1, <4>4, BudgetWorkAt, SMTT(10) DEF Places
      <4> QED BY <2>1, <4>2, <4>5, SMTT(20) DEF UndisturbedInv
    <3> QED BY <3>1, <3>2, <3>3, <3>4, Zenon
  <2> QED BY <2>5, <2>6
\* Whatever other programs do disturbs the build.
<1>18. CASE Other
  BY <1>18, SMTT(10)
  DEF Other, WriteInput, AddOrRemove, WriteOutput, ReplaceRuntime, Fail, Disturbed
<1>19. CASE UNCHANGED previewVars
  BY <1>19, SMTT(20)
  DEF previewVars, UndisturbedInv, BudgetInv, Budget, Looking, Base, Looked, Sums, Rehash
<1> QED
  BY <1>1, <1>2, <1>3, <1>4, <1>5, <1>6, <1>7, <1>8, <1>9, <1>10, <1>11, <1>12, <1>13, <1>14,
     <1>15, <1>16, <1>17, <1>18, <1>19
  DEF PreviewNext, BuildStep

-----------------------------------------------------------------------------
(* The invariant and what it says of the outcome.                          *)

LEMMA CustodyInit == PreviewInit => CustodyInv
<1> SUFFICES ASSUME PreviewInit PROVE CustodyInv
  OBVIOUS
<1>1. /\ work.at = "begin" /\ work.step = 1 /\ work.seen = 0 /\ work.error = FALSE
      /\ work \in Work
  <2>1. work = WorkAt("begin") /\ "begin" \in Places
    BY Zenon DEF PreviewInit, Places
  <2> QED BY <2>1, WorkAtShape, Zenon
<1>2. /\ outputs \in Outputs /\ outputs.neutral = "none" /\ outputs.runtime = 1
      /\ frames \in [Inputs -> Nat] /\ \A i \in Inputs : frames[i] = 0
  BY SMTT(10) DEF PreviewInit, Outputs, Texts, Contents
<1>3. /\ inputs \in [Inputs -> InputStates]
      /\ \A i \in Inputs : inputs[i].frame = 1 /\ inputs[i].extra = FALSE
  <2>1. inputs \in [Inputs -> [content : Contents, frame : {1}, extra : {FALSE}]]
    BY Zenon DEF PreviewInit
  <2>2. ASSUME NEW i \in Inputs
        PROVE  inputs[i] \in InputStates /\ inputs[i].frame = 1 /\ inputs[i].extra = FALSE
    <3>1. inputs[i] \in [content : Contents, frame : {1}, extra : {FALSE}]
      BY <2>1, Zenon
    <3>2. {1} \subseteq Nat \ {0} /\ {FALSE} \subseteq BOOLEAN
      BY SMTT(10)
    <3>4. inputs[i] \in InputStates
      BY <3>1, <3>2, Zenon DEF InputStates
    <3>3. inputs[i].frame = 1 /\ inputs[i].extra = FALSE
      BY <3>1, Zenon
    <3> QED BY <3>3, <3>4
  <2> QED BY <2>1, <2>2
<1>4. past \in Past /\ past.changed = {}
  <2>1. (\E i \in Inputs : inputs[i].content = "other") \in BOOLEAN
    OBVIOUS
  <2> QED BY <2>1, SMTT(10) DEF PreviewInit, Past
<1>5. ~past.disturbed => \A i \in Inputs : inputs[i].content = "pinned"
  <2>1. past.disturbed = \E i \in Inputs : inputs[i].content = "other"
    BY Zenon DEF PreviewInit
  <2>2. \A i \in Inputs : inputs[i].content \in {"pinned", "other"}
    BY <1>3 DEF InputStates, Contents
  <2> QED BY <2>1, <2>2, Zenon
<1>6. charged = 0
  BY DEF PreviewInit
<1>7. PreviewTypeOK
  BY <1>1, <1>2, <1>3, <1>4, <1>6, Shape
<1>8. FramesInv
  BY <1>1, <1>2, <1>3, <1>4 DEF FramesInv
<1>9. OutputsInv
  BY <1>1 DEF OutputsInv, Staged, Compared, Recorded
<1>10. BudgetInv
  BY <1>1, <1>6, SMTT(10) DEF BudgetInv, Looking, Budget
<1>11. UndisturbedInv
  BY <1>1, <1>2, <1>3, <1>5, SMTT(20) DEF UndisturbedInv, Inputs
<1> QED BY <1>7, <1>8, <1>9, <1>10, <1>11, Zenon DEF CustodyInv

LEMMA CustodyInvariance == PreviewSpec => []CustodyInv
<1>1. CustodyInv /\ [PreviewNext]_previewVars => CustodyInv'
  BY ShapeStep, FramesStep, OutputsStep, UndisturbedStep, Zenon DEF CustodyInv
<1> QED BY <1>1, CustodyInit, PTL DEF PreviewSpec

\* The inputs, the outputs and the work keep their shape.
THEOREM PreviewTypeCorrect == PreviewSpec => []PreviewTypeOK
<1>1. CustodyInv => PreviewTypeOK
  BY DEF CustodyInv
<1> QED BY <1>1, CustodyInvariance, PTL

\* A build that is returned was of one state of its inputs, and what it embeds is the pinned
\* preview, however often other programs write in between (the three custody checks).
THEOREM ReturnedIsUnchanged == PreviewSpec => []ReturnedMeansUnchanged
<1>1. CustodyInv => ReturnedMeansUnchanged
  BY Zenon DEF CustodyInv, FramesInv, OutputsInv, Compared, Recorded, ReturnedMeansUnchanged
<1> QED BY <1>1, CustodyInvariance, PTL

\* A build is refused only if something was written or failed: what an undisturbed build
\* reads fits its budget (createPreviewHashBudget).
THEOREM RefusedIsDisturbed == PreviewSpec => []RefusedMeansDisturbed
<1>1. CustodyInv => RefusedMeansDisturbed
  BY Zenon DEF CustodyInv, UndisturbedInv, RefusedMeansDisturbed
<1> QED BY <1>1, CustodyInvariance, PTL

\* Both outcomes of a candidate build are true of what happened to its inputs and outputs.
THEOREM OutcomeAlwaysTrue == PreviewSpec => []OutcomeIsTrue
<1>1. ReturnedMeansUnchanged /\ RefusedMeansDisturbed => OutcomeIsTrue
  BY DEF OutcomeIsTrue
<1> QED BY <1>1, ReturnedIsUnchanged, RefusedIsDisturbed, PTL
===============================================================================
