------------------------------ MODULE SceneTokens ------------------------------
(***************************************************************************)
(* Copying the brand's colour tokens into the scene draft                  *)
(* (src-tauri/src/state/scene_tokens.rs, SceneState::bind_tokens) while    *)
(* other commands replace the brand behind the host.                       *)
(*                                                                         *)
(* A command that may replace the brand (apply a plan, select a project or *)
(* source, start or stop the host) first advances the scene generation,    *)
(* then waits for or tries the host's gate, and changes the brand inside   *)
(* it.  A bind reads the generation, reads the tokens inside the gate, and *)
(* copies them into the draft under the scene's own mutex.  The content of *)
(* the brand is a version number: equal versions, equal tokens.            *)
(***************************************************************************)
EXTENDS Naturals, FiniteSets

CONSTANTS
  Changers, Binders,  \* callers of the two kinds of command
  NoCaller, NoSnapshot,
  EditsOnDisk,        \* whether programs other than the host change the brand
  MaxGeneration, MaxRevision, MaxBrand  \* bounds of the model

\* A snapshot's identity hashes the status read before its pages.
Snapshot == [generation : Nat, status : Nat, first : Nat, second : Nat]

ASSUME SceneTokensAssumption ==
  /\ Changers \cap Binders = {} /\ NoCaller \notin Changers \cup Binders
  /\ {MaxGeneration, MaxRevision, MaxBrand} \subseteq Nat
  /\ EditsOnDisk \in BOOLEAN
  /\ NoSnapshot \notin Snapshot

VARIABLES
  gate,        \* HostShared.operation
  generation,  \* HostShared.scene_generation
  brand,       \* version of the brand the sidecar reads (external)
  revision,    \* the scene draft's revision
  bound,       \* the draft's token snapshot: its generation and its pages
  pc, seen,    \* each caller, and what a binder has read so far
  pending,     \* changers that had advanced the generation before the last bind
  missed       \* a change begun after the last bind has been made

sceneVars == <<gate, generation, brand, revision, bound, pc, seen, pending, missed>>

NothingSeen == [expected |-> 0, generation |-> 0, before |-> 0, first |-> 0, second |-> 0]

Goto(c, label) == pc' = [pc EXCEPT ![c] = label]
Moves(c, from, to) == pc[c] = from /\ Goto(c, to)
See(c, field, value) == seen' = [seen EXCEPT ![c][field] = value]
Forget(c) == seen' = [seen EXCEPT ![c] = NothingSeen]
Leave(c) == gate' = NoCaller /\ Goto(c, "idle")

-----------------------------------------------------------------------------
\* Commands that replace the brand.

\* Operators named Wrong... are variants of the one they precede with a bug in
\* them; nothing uses them but the tests of the properties.
WrongAdvance(c) ==
  /\ Moves(c, "idle", "advanced")
  /\ UNCHANGED <<gate, generation, brand, revision, bound, seen, pending, missed>>

Advance(c) ==
  /\ Moves(c, "idle", "advanced") /\ generation < MaxGeneration
  /\ generation' = generation + 1
  /\ UNCHANGED <<gate, brand, revision, bound, seen, pending, missed>>

\* The coordinator refuses, or the gate is busy.
GiveUp(c) ==
  /\ Moves(c, "advanced", "idle")
  /\ pending' = pending \ {c}
  /\ UNCHANGED <<gate, generation, brand, revision, bound, seen, missed>>

LockToChange(c) ==
  /\ gate = NoCaller /\ Moves(c, "advanced", "changing")
  /\ gate' = c
  /\ UNCHANGED <<generation, brand, revision, bound, seen, pending, missed>>

\* The command succeeds, or fails and leaves the brand as it was.
Change(c) ==
  /\ pc[c] = "changing"
  /\ \/ brand < MaxBrand /\ brand' = brand + 1 /\ missed' = (missed \/ c \notin pending)
     \/ UNCHANGED <<brand, missed>>
  /\ pending' = pending \ {c}
  /\ Leave(c)
  /\ UNCHANGED <<generation, revision, bound, seen>>

-----------------------------------------------------------------------------
\* bind_tokens and scene_tokens::read

\* The first check_expected, and the generation read before the gate is tried.

BeginBind(c, expected) ==
  /\ expected = revision
  /\ Moves(c, "idle", "binding")
  /\ seen' = [seen EXCEPT ![c] = [NothingSeen EXCEPT !.expected = expected,
                                                      !.generation = generation]]
  /\ UNCHANGED <<gate, generation, brand, revision, bound, pending, missed>>

\* The gate is entered and the status read; a busy gate ends the bind.
ReadBefore(c) ==
  /\ IF gate = NoCaller
     THEN Moves(c, "binding", "before") /\ gate' = c /\ See(c, "before", brand)
     ELSE Moves(c, "binding", "idle") /\ Forget(c) /\ UNCHANGED gate
  /\ UNCHANGED <<generation, brand, revision, bound, pending, missed>>

ReadFirstPage(c) ==
  /\ Moves(c, "before", "first") /\ See(c, "first", brand)
  /\ UNCHANGED <<gate, generation, brand, revision, bound, pending, missed>>

\* Pages of two views are refused.
ReadSecondPage(c) ==
  /\ IF brand = seen[c].first
     THEN Moves(c, "first", "second") /\ See(c, "second", brand) /\ UNCHANGED gate
     ELSE pc[c] = "first" /\ Leave(c) /\ Forget(c)
  /\ UNCHANGED <<generation, brand, revision, bound, pending, missed>>

\* The status is read again, and the generation compared, before the gate is left.
WrongSettled(c) == seen[c].generation = generation

Settled(c) == seen[c].before = brand /\ seen[c].generation = generation

ReadAfter(c) ==
  /\ pc[c] = "second"
  /\ gate' = NoCaller
  /\ IF Settled(c) THEN Goto(c, "read") /\ UNCHANGED seen
                   ELSE Goto(c, "idle") /\ Forget(c)
  /\ UNCHANGED <<generation, brand, revision, bound, pending, missed>>

\* Under the scene's mutex: expected and generation are checked once more.

MayBind(c) ==
  /\ seen[c].expected = revision
  /\ seen[c].generation = generation
  /\ bound # NoSnapshot => bound.generation <= seen[c].generation

Bind(c) ==
  /\ Moves(c, "read", "idle")
  /\ IF MayBind(c) /\ revision < MaxRevision
     THEN /\ revision' = revision + 1
          /\ bound' = [generation |-> seen[c].generation, status |-> seen[c].before,
                       first |-> seen[c].first, second |-> seen[c].second]
          /\ pending' = {w \in Changers : pc[w] \in {"advanced", "changing"}}
          /\ missed' = FALSE
     ELSE UNCHANGED <<revision, bound, pending, missed>>
  /\ Forget(c)
  /\ UNCHANGED <<gate, generation, brand>>

-----------------------------------------------------------------------------

\* Another scene command edits the draft, or replaces it and its snapshot.
EditDraft ==
  /\ revision < MaxRevision
  /\ revision' = revision + 1
  /\ bound' \in {bound, NoSnapshot}
  /\ UNCHANGED <<gate, generation, brand, pc, seen, pending, missed>>

\* External: the project is edited on disk.
EditOnDisk ==
  /\ EditsOnDisk /\ brand < MaxBrand
  /\ brand' = brand + 1
  /\ UNCHANGED <<gate, generation, revision, bound, pc, seen, pending, missed>>

\* status_with_host: the diagnostic TOKEN_SOURCE_CHANGED.
TokenSourceChanged == bound # NoSnapshot /\ bound.generation # generation

SceneInit ==
  /\ gate = NoCaller /\ generation = 0 /\ brand = 0 /\ revision = 0
  /\ bound = NoSnapshot
  /\ pc = [c \in Changers \cup Binders |-> "idle"]
  /\ seen = [c \in Binders |-> NothingSeen]
  /\ pending = {} /\ missed = FALSE

SceneNext ==
  \/ \E c \in Changers : Advance(c) \/ GiveUp(c) \/ LockToChange(c) \/ Change(c)
  \/ \E c \in Binders :
       \/ \E expected \in 0..MaxRevision : BeginBind(c, expected)
       \/ ReadBefore(c) \/ ReadFirstPage(c) \/ ReadSecondPage(c) \/ ReadAfter(c) \/ Bind(c)
  \/ EditDraft
  \/ EditOnDisk

SceneSpec == SceneInit /\ [][SceneNext]_sceneVars

-----------------------------------------------------------------------------

\* The shape of the state.
SceneTypeOK ==
  /\ gate \in Changers \cup Binders \cup {NoCaller}
  /\ generation \in 0..MaxGeneration /\ brand \in 0..MaxBrand /\ revision \in 0..MaxRevision
  /\ bound \in Snapshot \cup {NoSnapshot}
  /\ pc \in [Changers \cup Binders ->
               {"idle", "advanced", "changing", "binding", "before", "first", "second", "read"}]
  /\ \A c \in Binders : DOMAIN seen[c] = DOMAIN NothingSeen
  /\ pending \subseteq Changers /\ missed \in BOOLEAN

\* The status and the token pages of a snapshot are those of one brand, even if
\* the project is edited on disk while they are read.
SnapshotIsOneBrand == bound # NoSnapshot => {bound.status, bound.first} = {bound.second}

\* A change of the brand that is begun after a bind is reported by the next
\* status, from the moment it is made.
LaterChangesAreReported == bound # NoSnapshot /\ missed => TokenSourceChanged

\* Any change of the brand by the host is reported once it is complete
\* (src-tauri/src/state/scene.rs:129: "Brand source changed; explicit token
\* refresh required.").
ChangesAreReported ==
  bound # NoSnapshot /\ bound.first # brand => TokenSourceChanged
=============================================================================
