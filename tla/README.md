# Verification of Nebular Fusion

Nebular Fusion (Theme Forge) is a Tauri application: a webview asks a Rust host
to do things, and the host has child processes do most of them, the *sidecar*
for plans and brands and one process of an *engine* for each compile. Build
scripts outside the application publish the files it ships. This directory
holds TLA+ specifications of the host, of the workbenches of the page that
share state with it, and of the scripts that publish files while others write
them; the TLC configurations that check them on small instances; and proofs of
some of their properties that TLAPS checks for all values of the constants.
Paths below are relative to the repository; `…/` stands for `src-tauri/src/`.

## 1. The system

### Parts, state, operations

| Part | State it keeps | Operations | Where |
|---|---|---|---|
| request bookkeeping | current identifier, the last 64 answered and the last 64 timed-out ones | `begin`, `abandon`, `complete`, `retire_timeout`, `classify` | `…/sidecar/coordinator.rs` |
| transport | bounded channel, overflow and poison flags, reader thread, child | `publish`, spawn, terminate | `…/sidecar/process.rs` |
| request loops | identifier counter, deadline, cancel flag | `SidecarSupervisor::request`, `plan_transport::request` | `…/sidecar/supervisor.rs`, `…/sidecar/plan_transport.rs` |
| supervisor | lifecycle state, process, session generation, project and sources | `start`, `shutdown`, `status`, `open_project`, `open_source`, `brand_read`, `plan_*` | `…/sidecar/supervisor.rs`, `…/sidecar/supervisor/plan.rs` |
| plan coordinator | active operation, retained plan, identity-change flag, expiry thread | `begin`, `cancel`, `retain_created`, `restore_unwritten_apply`, `finish`, `invalidate_all`, `begin_identity_change` | `…/state/plan_coordinator.rs` |
| host state | operation gate, cached status, scene generation | `lock`, `lock_for_teardown`, `start_plan`, `status`, `start_host`, `shutdown_host` | `…/state/host.rs` |
| plan page | state of the reducer, reviewed plan, the one plan channel | create, apply, undo, cancel, leave | `src/features/brand-plans/`, `src/host/studio-host-bridge.ts` |
| brand workbench | views read, read and render numbers, object URLs | visit, refresh, page, QA profile, render, reconcile after an apply | `src/features/brand-workbench/`, `src/brand-read/blob-manager.ts` |
| design exchange | brief, candidates with their trust and URLs, review, proposal on the form | create and import a brief, import and remove candidates, review, load a proposal | `src/features/design-exchange/` |
| scene token binding | token snapshot, draft revision | `scene_tokens::read`, `bind_tokens`, `status_with_host` | `…/state/scene_tokens.rs`, `…/state/scene.rs` |
| engine runners | waiting and active ticket, cancel token, epoch, served ticket | `execute_batch`, `execute_process`, `execute_document_process`, cancellation, `close` | `…/scene/runner.rs`, `…/theme_lab/runner.rs`, `…/app_theme/runner.rs` |
| vector graphics workbench and scene session | edit queue, object URLs; draft, revision, replacement intent, save and export plans | edit, new, open, import, compile, save, export, bind, verify, adopt | `src/features/vector-graphics/`, `…/state/scene.rs`, `…/scene/session.rs` |
| theme workbench and its session | draft, operation number, coalescing loop; revision, file, adoption | edit, compile, open, save, adopt, packets, example | `src/features/theme-lab/ThemeLab.tsx`, `…/state/theme_lab.rs` |
| application theme workbench and its session | profile, edit, document and compile numbers; document in custody, ticket of the latest open | edit, compile, open, save, reset, adopt | `src/features/application-theme/ApplicationThemeLab.tsx`, `…/state/app_theme.rs` |
| sidecar pair publication | the published binary and payload, staging and recovery directories | `prepareSidecar`, `replaceGeneratedPair`, `cleanSidecar` | `tools/sidecar-common.mjs` |
| native runtime staging | source tree, payload tree, marker | `admitRuntimeNamespace`, `stageNativeRuntime`, `verifyRuntimeSourceSnapshot` | `tools/native-runtime.mjs` |
| Node runtime adoption | three files at final names | verify, `placeNoClobber`, `adoptNoClobber` | `tools/node-runtime-authority.mjs` |
| candidate build around a prepared preview | admitted frames of six inputs, one reading budget, outputs | admission, custody checks, staging, receipt | `tools/prepare-app-resources.mjs`, `tools/native-candidate-build.mjs`, `tools/build-receipt.mjs` |
| design evidence, artifact authentication, message types | none between calls | validate, digest, decode | `…/design_evidence/`, `…/sidecar/artifact.rs`, … |
| application shell, adapters, other build, release and gallery tools | none at run time | drawing, scripts | `src/`, `packages/`, `tools/`, `gallery/` |

### How they interact

Every Tauri command is a thread of its own. Commands that need the sidecar take
one *gate* (`HostState::lock`): it does not wait but fails with `SidecarBusy`,
except for start and shutdown, which wait (`lock_for_teardown`). The holder of
the gate owns the supervisor and with it the child's stdin and the receiving end
of the channel; the reader thread fills the channel. The plan coordinator has a
mutex of its own and is called both with and without the gate; plan operations
cross both several times. Leaving the gate publishes a status that `status`
serves while the gate is taken. The scene's mutex is never held together with
the gate, so a bind of tokens reads under one and writes under the other.

Each workbench keeps a draft on the page and a session on the host. The page
numbers what it does; a request carries a number or the revision it expects, and
the session refuses what is stale. The host leaves a session's mutex for file
dialogs, for reading and writing files and while an engine compiles, so the
sections of several requests mix, and their answers come in any order. The
engines' runners admit one process at a time.

The build scripts are processes of their own over shared directories, without
locks. They compare what they read before with what is there after, by inode,
times and digests, and publish by renames and links that replace nothing.

### What is hard

* *late frames*: a timed-out brand read keeps its session, so its progress and
  its answer arrive during somebody else's request;
* *a bounded channel* that overflows at any moment, and failure paths that must
  abandon the identifier or end the process;
* *single-use authority* that is checked, taken, used, given back and finished
  in separate critical sections, while another thread cancels, invalidates,
  replaces the project, restarts the host, or the plan expires;
* *cancellation* of a call that is queued, about to start its process, or
  about to return, and processes that cannot be killed at once;
* *early returns* between taking something (the gate, the operation, the
  reservation, the process) and giving it back;
* *answers in any order* over a draft that the user goes on editing;
* *values read before a lock and used after it*: the clock, the session
  context, the scene generation, the revision of a compile;
* *files without locks*: a failing rename, a kill or a foreign write between any
  two steps of a publication.

`PROJECT.json` lists each with its line, and the properties made for it.

## 2. The modules

```
RequestCoordinator ── SidecarTransport ── SidecarTransportProofs
EngineRunner ── EngineRunnerProofs

PlanAuthority ◁── PlanCoordinator ── PlanHost ── PlanHostProofs
 (refined by)
PlanPage ── PlanPageProofs

ThemeLab   VectorGraphicsLab   BrandWorkbench   DesignExchange
   └──────────────┴── MCWorkbenches ──┴──────────────┘ ── WorkbenchProofs

PairPublication ── PairPublicationProofs
RuntimeStaging, NodeAdoption, AppTheme ── FilesProofs
SceneTokens, PreviewCustody ── SceneAndPreviewProofs
```

`MC*.tla` give a module a small instance; each `.cfg` is one run. Four of
them hold several parts that share nothing (`MCSidecarTransport`,
`MCPlanCoordinator`, `MCWorkbenches`, `MCFiles`): a behaviour is of one part, chosen at the start,
and the variables of the others keep an initial value. The instance is the
union of the parts and not their product. Where names allow it they extend
their parts, so that what a run checks is the very definition a theorem is about.

**RequestCoordinator** is `coordinator.rs`. Each history is kept twice, as in
the code (a deque and a set), since that they agree is a thing to show.

**SidecarTransport** extends it with the child, the reader thread and a client
that runs one request after another through either loop (mode `"host"` or
`"plan"`). The loop's program counter follows the code: `writing` (the write of
the request), `top` (deadline, overflow, cancel flag), `cancelling` (the write of
a `$/cancelRequest`), `recv` (`recv_timeout`), `frame` (the checks after it),
`answer`. A write ends when the child or the pipe has taken its last byte, or fails
when the child is gone or has closed its stdin; no deadline covers it. `Finish` says what the callers do with a result: only an answer, or
the timeout of a brand read, keeps the process. The child is external: a
*healthy* one reports progress on and answers only requests it was sent, at any
time; a *faulty* one sends any frame. Frames are a kind, an identifier and
whether they are well formed. Reading and publishing a frame is one step, since
the pipe before it adds only delay.

**EngineRunner** is the three runners, chosen by `kind`. `slot` is the
`ExecutionState` with the epoch and the cancel token beside it, `req` the locals
of each call. *scene*: the newest waiting request wins, and the epoch read at
entry makes a cancellation count that comes before the token is registered.
*theme*: the same without an epoch, and each request first cancels the running
one. *document*: tickets are served in order, and a cancellation cuts off all
that were given out. Each section under one mutex is one step, so a cancellation
falls between any two. `Late` is the execution timeout. A child that cannot be
killed at once `lingers`: the scene then is unavailable, and its pipes are
awaited before the slot is released. `cut` marks the calls that a cancellation
found without a process.

**PlanAuthority** is the promise: the authority of a token is retained, held by
one operation, or spent; spent authority never returns.

**PlanCoordinator** has one action per critical section of `plan_coordinator.rs`,
and what `begin` handed to its caller (`begun`). Handles are hashes of the token
with other identities, so the token stands for the handle; of a digest it
matters whether it is the right one. `now` is a parameter of `begin` and
`retain_created` since the code reads the clock before it takes the mutex;
`Lag` bounds that wait. The expiry thread sleeps until a deadline it chose, is
woken, or is gone. Deadlines are compared as the code does (`now >= expires_at`).

**PlanHost** extends PlanCoordinator with the gate, the supervisor's lifecycle
state and two callers that may each run every command of the host. Each label of
a caller's program counter lies between two steps another thread can see: the
captured context, the begun operation, the `started` event, the second attempt
at the gate, the request to the child, `retain_created`, `finish`, the look at
the host after an error. The request loops are one step here with every outcome
they have in SidecarTransport, and the one they do not reach: the step need never
be taken (`MayWaitForChild`). `sent` counts the `plan.apply` requests written
per token. `stray` records a child dropped without termination. A broken child
is one that has exited or whose transport overflowed.

**PlanPage** is the other end: the reducer, the operations of `PlanWorkspace`,
and the bridge that admits one operation at a time. Events and the answer of an
operation travel apart. Of the host it has what a page can tell: one operation,
one retained plan. A plan is named by the operation that made it.

**BrandWorkbench** is the page around it: reads are numbered (`loadSeq`) and
carry the identity they were made for, visuals likewise; effects run after a
render in which an identity has changed (`Due`). Two of the eight views stand
for all: one that grows by a second read, one that depends on what is picked.
`count.given` remembers that a read was given up (see *Observed*).

**DesignExchange** has one record per operation under way with what the render
that started it saw: the project, the brief, the candidates, the epoch. A
packet, a brief and a picture are numbers; what matters of a brief is the
project it was made for.

**SceneTokens** has the commands that advance the generation and then change the
brand, and the bind that reads the generation, the status, two pages, the status
again and then, under another mutex, commits. `brand` is a version number for
the content of the project; other programs may edit it.

**VectorGraphicsLab** is the vector graphics workbench with the scene session it
talks to. Edits leave through the queue one at a time; every other action waits
for the queue to drain and then names the draft it expects. The session serves
requests in any order and leaves its lock while the engine compiles or a dialog
is open, so a replacement is `BeginReplacement`, `ValidateReservation`,
`CommitReplacement`. `urls` holds the object URLs that are alive, as the browser
would. A draft is its revision and its file.

**ThemeLab** is the theme workbench with its session: one counter numbers every
operation of the page, edits are compiled 150 ms after the last one unless a field is
invalid, and a loop of its own tells the host of edits, several at once if need be. Requests
may overtake each other on the way to the host.

**AppTheme** is the application theme workbench with its session. Opens take a
ticket (`open_generation`), saves name the document they were pressed for, and
the host holds one document in custody. `did.overtaken` and `did.crossed`
remember two moments in which page and host cannot agree (see *Observed*).

**PairPublication** is `prepareSidecar` with every check, rename and rollback:
the two destinations cannot be renamed together, so the old pair waits in a
recovery directory until both halves are in place. Operations fail, processes
are killed, inputs are edited while they are copied, `cleanSidecar` runs beside.

**RuntimeStaging** admits a runtime tree by metadata, bodies and metadata again,
copies it, marks it, inventories it and admits the source once more, while
other programs write to either tree. Every change gives a new frame.

**NodeAdoption** links three authenticated files to final names that are never
replaced, several builds at once, with the undo of a build that fails. The
executable may be on another file system; it is then copied, into a file made under the
final name (`CreateCopy`) and filled there (`WriteCopy`), which may fail half-way.

**PreviewCustody** is a candidate build around a prepared preview: six inputs
are admitted, checked three times in `finally` blocks whose error gives way to
an earlier one, and everything read is charged to a budget of 1 GiB with the
pinned sizes of the repository. `past` is what others did, for the properties
only.

Operators called `Wrong…` in these modules are buggy variants of the operator
they precede. No specification uses them. Each property is shown to notice one.

## 3. What is checked

| Run | Instance | Shows |
|---|---|---|
| `transport` | session: identifiers 1–3 (two requests), histories of 2, channel of 1 frame, both loops, both children; bookkeeping alone: six identifiers with 0; runners: 3 calls, 1 cancellation or close | the histories agree; only the request's own answer ends it; a kept session can begin again; the host loop never blames a healthy child and never reports an answer after an overflow; every request returns, or waits for ever in a write to a living child. A closed runner has no process; a finished cancellation reaches every call it found without a process, and nothing else cancels the last; every call returns |
| `transport_late_progress` | healthy child, identifiers 1–4, channel of 2 | **violated**, see findings |
| `plan_coordinator` | 2 tokens, 5 contexts, TTL 2, clock to 3, lag 1, 3 operations; plan page: 3 operations, 1 change of identity | an identity change excludes plans, one place for an authority, expiry, erasure of an expired plan; the module implements PlanAuthority; the plan on the page is of its identity and not used, sound events are shown, the page does not stay busy |
| `plan_host` | 2 callers, 2 tokens, 2 operations, 2 sessions | owners, cache and lifecycle state agree; a retained plan names the current project |
| `plan_host_authority` | 2 callers, 1 token, 3 operations, expiring plan | a token is applied once; every step of the host is a step of the coordinator; operations and reservations end, or their owner is for ever in its own call to the child |
| `plan_host_stale_session`, `plan_host_malformed_read` | as `plan_host` | **violated** |
| `workbenches` | vector: 2 edits, 2 actions, 2 refreshes, 3 in all, answers the bridge may refuse; theme: 1 file, 2 edits, 2 operations, 2 calls at once; design exchange: 4 operations, 2 packets, 2 changes of identity; brand workbench: 3 changes of its props, 3 steps of the user besides selections | edits in step with the session and before the actions that follow; URLs and previews; page and host of the theme in step, no draft overwritten, the last one tried; no view, visual or trust of what is gone; everything settles |
| `vector_intent` | new and open, 1 edit, 2 actions | **violated** |
| `theme_old_save` | open, save and example, 1 edit, 2 operations | **violated** |
| `scene_tokens_stale` | 2 changers, 2 binders, no edits on disk | **violated** |
| `files` | pair: 2 runs one at a time, 2 faults, 1 kill, 1 clean, 1 edit; scene tokens: 1 changer, 2 binders, edits on disk; runtime: 2 members and an alias, 2 changes, 2 runs; Node: 2 builds and another program; application theme: 1 file, 1 edit, 3 operations, 2 calls at once; preview: writes to a file, the preview and a tree, 2 in all | a pair at rest is one whole generation and a failed run restores the old one; one brand per snapshot, later changes reported; an admission is one moment, the marker means a whole runtime; all or nothing of the Node files but for a copy that could not be filled; what the application theme shows as saved is saved, custody goes to the newest open; a returned build is unchanged and a refused one was disturbed |

*Bounds.* Two of everything that conflicts: the interesting cases are pairs
(a request and its predecessor's frames, a caller and its rival, a session and
its successor, an edit and a late answer). In `transport`, a timed-out read, its
late frames and a second request fit, and a channel of one frame overflows on
the second; three calls of a runner are one that runs, one that waits and one
that displaces it. In `plan_coordinator`, TTL 2 with the clock to 3 lets a plan
expire while retained and while held; three operations are a create, an apply
that is given back, and another apply. `plan_host` has two sessions and two
operations, a create and a use in another session; it leaves time out
(`MaxClock` 0), `plan_host_authority` has it. In `workbenches`, an action, an
edit and another action already meet in every order; the third operation is the
one that finds the leftovers of the first two. Four operations of the exchange
are a brief, a candidate, and two that are under way together; three changes
make the host ready, open a project and replace it. In `files`, one fault in a run
and one in its rollback, or a kill and the run that finds its remains, or two
foreign writes of which the second puts the old text back. `MaxActive` 1
leaves out two `prepareSidecar` at once: the code compares before each rename,
and no lock keeps another from coming between. The names beginning with `Max` are guards of the models alone; where they stop a
model, deadlock is not an error (`CHECK_DEADLOCK FALSE`). `HistoryBound` is 64
and `ChannelBound` 8 in the code; the proofs hold for any.

*Fairness.* Only weak fairness is used.
SidecarTransport: the thread in a request loop runs on, and time passes its
deadline; nothing is assumed of the child, not even that it reads. A write to a
living child has no deadline (`supervisor.rs:629`, `plan_transport.rs:248`) and need not
end, so `RequestsReturn` excepts it: a request returns, or its client is for ever
in a write to a child that is alive. EngineRunner: each thread inside a call runs on (every wait in it is
a timed poll or a condition variable that is notified), the execution timeout
passes, and the kernel ends a process that was killed; a process that was not
need not end. PlanCoordinator: the expiry thread is scheduled and
time passes, as the condition variable's timeout gives. PlanHost: a caller
inside a command runs on (`Proceed` is one condition per caller) except while it
speaks to the child, since a write to it may block (`MayWaitForChild`);
`NothingIsHeldForever` says that nothing else keeps an operation or a reservation:
another command's caller stuck at the gate does not. Nobody need enter a command, and a
caller waiting for the gate need not get it, so nothing is claimed of teardown
under contention. Workbenches, PlanPage, BrandWorkbench and AppTheme: one condition on the host and the
event loop together, that something which can be served or continued is; users
do nothing they must, and their operations are bounded, so all of it is
served in the end but in no given order; the plan page and the brand workbench
thereby assume a child that reads. DesignExchange and the build scripts have none, and no
liveness is checked of them.

### Findings

1. `LateTrafficIsHarmless`: the plan loop rejects a late `$/progress` of a
   timed-out read, which the ordinary loop skips, and the healthy child is
   terminated (`plan_transport.rs:204`).
2. `AppliedInItsSession`: `start_plan` authenticates against a context captured
   before it last gave up the gate; after a restart in between the plan of the
   old session is sent to the new child (`host.rs:191`).
3. `EveryChildIsOwned`: a brand read that `prepare` refuses drops the process
   without terminating it while the state stays `Ready` (`supervisor.rs:945`).
4. `ChangesAreReported`: the generation is advanced before the change; a bind in
   between records the old tokens as current (`host.rs:196`, `host.rs:290`).
5. `StaleMeansChanged`: a New or an Open that fails after its reservation leaves
   its intent behind, and the next one is refused as stale although the
   scene has not changed (`scene/session.rs:234`).
6. `OldSaveNotAttached`: a save pressed while a load is under way carries the
   number of the load; its answer marks the loaded draft as saved under the old
   draft's file (`ThemeLab.tsx:481`).

The passing runs are stated so that they do not hide these:
`HealthyChildNeverRejected` is about the host loop only, `RetainedIsCurrent`
about plans of the running session, `LaterChangesAreReported` about changes
begun after the bind, and malformed reads are a constant (`MalformedReads`).

### Observed

Behaviour that no statement of the repository forbids, so that no run is
violated by it, but that the models have and a reader should know:

* `plan-state.ts:33` calls progress of an apply invalid that is being cancelled
  (`GoodEventsAreShown` excepts it). A create that ends after the page has left
  it, or whose cancellation is refused, leaves its plan retained on the host
  until it expires, and the page has lost it. The answer that a digest did not
  match is shown as a plan that was preserved (`ReviewedPlanIsUnused` excepts
  it).
* `BrandWorkbench.tsx:152`: a QA profile that cannot be read is announced, and
  the view goes on showing that it loads. `BrandWorkbench.tsx:181`: a
  reconciliation that ends late reads for the render that applied the plan; it
  takes the next number, so that a newer read is given up too. `:168`: a URL that
  cannot be made revokes those of a newer render.
* `DesignExchange.tsx:123`: an import under way when the identity changes keeps
  the trust it finds for the old project, and a proposal under way fills the
  form, although `design-session-state.ts:34` announces that prefill is disabled
  (`TrustIsSwept` excepts it). Removing any candidate takes the draft off the
  page but not off the form.
* `host.rs:208`: a gate that is busy at the second lock ends an apply whose plan
  was taken; the authority is gone though nothing was written.
* `theme_lab/runner.rs:315`: a cancellation between becoming active and
  registering the token is lost, since this runner has no epoch;
  `CancelledExactly` asks it of the other two.
* An open that is overtaken on the page only is committed by the host, which
  then holds a file whose document the page has thrown away
  (`theme_lab.rs:381`; AppTheme shows "Open ignored" then). In AppTheme an
  operation made while a reset is awaited is undone by it (`did.overtaken`), and
  a save that crosses an open of the same file leaves the older text in custody,
  or is answered as cancelled though it has written (`did.crossed`).
* `VectorGraphicsLab.tsx:534` asks before discarding by `dirty` as last rendered.
* `supervisor.rs:629`, `plan_transport.rs:248`: the writes of a request, of its
  cancellation and of the goodbye block outside every deadline. A child that does
  not read its stdin fills the pipe (a timed-out read keeps the session, and one
  large request suffices); the client then keeps the gate, and every command that
  needs it is refused as busy or, a teardown, waits (`RequestsReturn` and
  `NothingIsHeldForever` except it).
* `node-runtime-authority.mjs:372`: across file systems the file is made under its
  final name, then filled, and put on the list for the undo only afterwards (`:419`).
  A copy that fails half-way stays behind, where every later adoption refuses it; the
  comment of `adoptNoClobber` says that "every final name created by this call is
  removed again" (`:402`). `WholeOrNothing` excepts exactly this file.
* PreviewCustody: a member that is added and removed between two full
  inspections is noticed by none. `public/preview` and `dist/neutral` are
  compared only after the build, so that a write put back before it goes
  unnoticed (`past.restored`). Receipts are written before the last check. The
  readings of a build sum to some 778 MB; one more that rehashes the heavy
  inputs would refuse every build.

## 4. What is proved

All for arbitrary constants under named assumptions
(`CoordinatorAssumption`, `TransportAssumption`, `RunnerAssumption`, `PlanAssumption`,
`HostAssumption`, `SceneTokensAssumption`; `HostAssumption` asks that
`Contexts` holds every context the host can capture, so that the coordinator's
callers in PlanCoordinator include the host's).

**SidecarTransportProofs: the bookkeeping.** The inductive invariant `CoordinatorInv` joins the
type invariant, the agreement of each deque with its set, the bounds and the
disjointness. Agreement is not inductive alone: that `Remembered` may delete the
head from the set needs that no identifier occurs twice in the order, which
`begin` gives only if the current one is in no history, which is the
disjointness. The lemmas about `Pushed` and `Remembered` carry the sequence
reasoning. From it: `CoordinatorTypeCorrect`, `HistoriesAlwaysAgree`,
`HistoriesAlwaysBounded`, `ClassesAlwaysDisjoint` and the action property
`RetiredStaysFinal`.

**SidecarTransportProofs: the sessions.** `TransportInv` carries `CoordinatorInv` along, for
every step of a session is a step of its bookkeeping, and adds `IdsInOrder`:
identifiers come from one counter, so those of a history are below the next one
and a new request is in none. With it, while a request is in flight it is the
current one (`InFlightAlwaysCurrent`), and a frame kept as an answer carries its
identifier. From it: `TransportTypeCorrect`, `SessionHistoriesAgree`,
`KeptSessionsCanBegin`, `OnlyOwnAnswers` and the action property
`NoAnswerAfterOverflow`. `HealthyChildrenNeverRejected` adds that each frame
of a healthy child is of a request that was sent, hence known to the
bookkeeping while the histories remember all requests of a session.

**EngineRunnerProofs.** For any number of calls and cancellations.
`RunnerInv` has six parts, and each step is first reduced to its effect on the fields and then shown to
keep each part. `OneHolder`: who has the slot, the registered token or a process
is one and the same call. `Closing`: a close in progress has first refused new
calls and then outdated those that passed before, so once it finds the slot free
nobody can take it again; hence `ClosedForGood`. `CutOffs`: where a call that was
cut off may still be, and what stops it there, the epoch of the scene, the
cut-off of the documents or the token that is set. `Tickets` and `Undisturbed`:
without a cancellation the call with the newest ticket is the pending one, or a
later call is on its way to replace it. From these two `CancelledRightly`, for
both halves of `CancelledExactly`; `OneChild` says that two calls never have a
process each.

**PlanHostProofs: the coordinator.** `PlanInv` adds to the checked invariants that a held
plan belongs to an active operation (`BegunIsActive`) and that every token in
play was minted (`KnownTokens`). Without the first, `finish` could leave a plan
behind that a second operation takes again; without the second, a created token
could be the retained one. From it: `PlanTypeCorrect`, `IdentityAlwaysExclusive`,
`AuthorityStaysInOnePlace`, `ExpiryThreadWakesInTime` and `NeverProlonged` (no
deadline is further away than `PLAN_TTL`).

**PlanHostProofs: the refinement.** `SingleUseAuthority`: `PlanSpec` implements
`PlanAuthority`. Each action of the coordinator is matched with Issue, Refuse,
Take, Return, Spend or a stutter through the mapping `Status`; the cases need
`AuthorityInOnePlace` and `KnownTokens`. The same case analysis gives the action
properties `OnlyLiveOperationsEverRetain`, `PlansStayWhole` and `TakenInTime`.

**PlanHostProofs: the host.** `HostKeepsToCoordinator` comes first: each step of the host
is a step of PlanCoordinator or leaves it alone, so the theorems above hold of
the host. It needs `HostBase`, which joins `PlanInv`, the host's type invariant
and `CapturedInTime` (a caller about to begin has read its context). On it rest
three arguments.

- `OwnersAlwaysAgree`. `OwnersAgree` counts callers; `Owned` says the same
  pointwise and is inductive: two callers inside an operation or an identity
  change are the same one, somebody is inside exactly while the coordinator has
  it down, and who is inside the gate holds it. The step is split by whether the
  caller enters, leaves or stays (`ClaimEntered`, `ClaimLeft`, `ClaimKept`), and
  every early return and error path of the commands is one of these cases.
- `TokensAppliedOnce`. That a token was written at most once is not inductive:
  the plan might be taken again. `AppliedIsSpent` adds that an applied token is
  neither retained nor created, and that the operation that still holds it can
  only finish. `TokensMove` says how a step moves tokens, `Advances` that no
  operation goes back; since only a new mint makes a token retainable and a
  minted token is never minted again, the applied one stays spent.
- `RetainedStaysCurrent`. `RetainedFits` adds that no plan is of a session yet
  to come; without it a restart could reach the session a stale plan names.

`CacheAlwaysCurrent` and `ReadyAlwaysOwnsChild` are inductive as they stand. The
second assumes `~MalformedReads`; with them a read may drop the child of a host that
stays ready, as the run `plan_host_malformed_read` shows.

**SceneAndPreviewProofs: scene tokens.** `SceneInv` adds to the shape of the state that what a
binder has read is of brands in order, the last not after today's
(`ReadsInOrder`): equal readings on both sides of the pages then leave no room
for another brand between. And that a change which was not pending at the last
bind has a later generation than the bind (`ChangesAreLater`). From it:
`SceneTypeCorrect`, `SnapshotsAreOneBrand` and `LaterChangesAlwaysReported`.

**SceneAndPreviewProofs: the prepared preview.** `CustodyInv` has three parts besides the type
invariant, for any writes of others and any number of them.

- `FramesInv`: a written input keeps a later frame than the admitted one for
  ever, and the last round of checks cannot step over it. Hence
  `ReturnedIsUnchanged`: inputs as admitted, whatever else happened.
- `OutputsInv`: what is embedded was staged, and was compared with what is
  pinned, unless it was written and put back.
- `BudgetInv` and `UndisturbedInv`: an undisturbed build meets every condition,
  and what it has charged at each step is a fixed sum below `MaxBytes`. Hence
  `RefusedIsDisturbed`: no build is refused for nothing, by the budget either.

`OutcomeAlwaysTrue` joins the two.

**PlanPageProofs.** For any number of operations, identities and stages of
progress. The page checks almost nothing when an answer arrives, so `PageInStep`
rests on who can still send one. `PlanInHand`: the plan on the page is either under
review, with the channel free, or in the hands of what is under way for this
generation; otherwise a plan could be spent by an operation the page forgot.
`CallInOrder` and `AfterInOrder`: what is under way was started before, for the
generation and the identity it knows, and a generation is reconciled after its
answer. `WireInOrder`: the events on the wire are ordered, of the call, and later
than what is shown, hence never called invalid. From it: `PageStaysInStep` and
`ReviewAlone`.

**PairPublicationProofs.** Under `OneAtATime`: finitely many runs that follow one
another, each any number of times failed or killed, and an `lstat` that succeeds
on what was just renamed. The code has no lock, so the first is a hypothesis about its
callers; without the second the rollback does not know what it promoted.
`Knows` says for every label of `replaceGeneratedPair` and of its rollback which
half of which pair is at the destination and which in recovery; that is
`PairIsKnown`, and it survives a kill at any label. `Unseen` says nobody can
confuse a pair with one found before, `StagedIsTrue` that a verified pair agrees
with its manifest, `WholeAtRest` that without kills and residue the destination
is whole between replacements. From it: `RestIsOnePair`, and `OldPairRestored`
for any number of faults, the rollback's own included.

**FilesProofs: the staging.** An admission locks nothing and still reports a
moment of its tree, since a frame (`statFull9`) never comes back. `SeenInOrder`
orders what was seen first, what was there at the last body and what is there
now; a member with equal frames at both ends was the same at the body in between.
`CopiedIsThere` says that what was copied is still there while nobody else touches the
payload. From it: `StagingSnapshots` and `StagingMarker`, for any members and
any number of writes.

**FilesProofs: the adoption.** Under `NamesAreFiles` (names are distinct from
the absence of a file; there is a first one). `BuildsOwn`: the list of
what a build created is exactly what stands of its making at the names, each
once, but for a copy being filled or given up (`Partial`); it is inductive because
nobody unlinks a name but its maker. So an undo that walks its list leaves nothing
but such a copy (`BuildsAreWhole`), and takes away only its own
(`FilesAreNotReplaced`). While nobody undoes, what a build passed stays authentic.
`AdoptedWholly` joins the two.

**FilesProofs: the application theme.** For any files, bounds and number of calls, under
`FilesAreNumbers` (files and texts are numbers and none is nothing else). `ServeIs`
first: each of the fifteen steps of the host is a quiet one, which takes a call
further and leaves the document in custody and the files alone, or one of five
that do not. Then three invariants, each resting on the one before.

- `CustodyInv`: a document number tells its file, and no ticket is ahead of the
  session's. `CustodyInOrder` follows since only a call with the session's ticket
  puts a document in custody; that is `DocumentsAreKept`.
- `PageInv`: a call with the page's revision was made for the profile shown, and
  while a reset is awaited no call has it; a draft that is clean since a save was
  pressed was the same then. Hence `AdoptedIsShown`.
- `ShownInv`: what ties the page to the file. The document in custody is the
  document shown when their numbers agree, unless a save that is answered is about
  to replace the one shown (`ShownIsHeld`); a document that was opened is new to the
  page and to every save (`NewToPage`); a save of a document no longer shown cannot
  touch the one shown (`LeftBehind`); a save writes what the draft was
  (`SavesInOrder`), and what is in custody is on disk (`HeldIsOnDisk`). Without
  any of these two opens and a save that cross break the next one. With
  `ProfileIsShown` they give `CleanMeansSaved`, and `AppShowsWhatIsSaved`.

TLC holds the three on an instance with two files, four operations and three
calls, which is larger than the run's.

**WorkbenchProofs: the theme workbench.** For any files and any number of operations and
calls in flight, inside the instance that holds the four workbenches. Under
`ThemesAreNumbers` (themes are numbers and none is not). `ThemeInv` joins the
types, `NumbersAreOfPage` (whatever the host, a call or the loop knows, the page
has given out), `LoopInv` (what `invalidateNativeDraft` sends last is not older
than the last edit) and `DraftInv` (once the user has edited, each call that could
replace the draft has an older number than the page). TLC holds it on the
instance of the run. From it: `HostKeepsInStep` and `EditsStay`.

**WorkbenchProofs: the vector workbench.** Under `NoneIsNothing` (none is no number,
identity, answer, edit or action). That the queue expects the session's draft is false
while an answer that moves it is on its way. `Landing` says which answers these are
(an edit's, a replacement's, bind's or adoption's, a save's), that at most one of
them is on its way, and to which draft it leads: a second request would have
named an earlier draft and be refused. `QueuesInOrder` says that a queue of an
earlier draft can only be refused, `ActInOrder` which answers an action can
get, `UnracedInOrder` that edits settle before the request of the action that
follows them, `RevisionsInOrder` and `UrlsInOrder` the same of previews and of
their URLs. From `VectorInv`, which joins them: `EditsStayInStep`,
`PreviewsGoForward` and the vector part of `WhatIsShownIsLive`.

**WorkbenchProofs: the design exchange.** Under `NoneIsNoNumber`. An operation number
belongs to one operation or to the candidate it brought (`JobsInOrder`,
`CandidatesInOrder`), so nobody revokes the URL of another; a picture made in the
epoch of now is alive (`PicturesAreLive`); a matched candidate landed under
the identity the effects last ran for, or the one they are due to sweep for
(`TrustInOrder`). From it: `ExchangeIsShownTrue`.

**WorkbenchProofs: the brand workbench.** `ViewIsCurrent` speaks of the moment after
the effects; `BrandInv` of the time before. Answers are taken then too, for
the new props. `NothingOfTheNext`: while the effects have not run for a new
project or source, no read and no plan is of it, as its number is fresh. So
all data is of what the effects last ran for (`DataInOrder`), and they put
it away when that is gone. `DrawsInOrder`: a call with the number of now is for
what the effects last ran for, and no other call has its number.
`ShownIsRevoked`: while it makes its URLs nothing else is alive, so that
showing it leaks nothing; this part needs that none is no picture
(`NoneIsNoPicture`). From it: `BrandShowsNow`, which is about the identity of what
is shown and about leaks, not about every URL on show being alive; `WhatIsShownIsLive`
joins the three.

**Only model-checked**: liveness and everything about fairness
(`RequestsReturn`, `CallsReturn`, `ExpiredPlanIsErased`, `NothingIsHeldForever`,
`PageSettles`, `EverythingSettles`, `CompileSettles`), which the prover cannot
do. Every invariant and every action property that a passing run checks is the
statement of a theorem.

## 5. What is not modelled

*Parts.* Design evidence, the authentication of artifacts and resources, the
types and the decoding of messages: data and sequential input without state that
outlives a call; what they refuse is a refused frame or request in the models.
The registration of commands, the smoke tests and the shell of the page:
wiring. The theme adapters, and the other build, packaging, release and
gallery tools: drawing, one-shot batch programs and sequential scripts. These
are most of the repository's lines, and so are the validation code and the
drawing inside the modelled parts; the lines that the models translate are
about a twelfth of the whole.

*In modelled parts.* The contents of messages and files, the handshake, dialogs
but for their outcome, and size limits except the budget of the candidate
build. Of the transport, the stderr thread and the join of the workers on
termination (their failure is the verdict `Failed` with the process kept), the
ten-second limit of a token read, and the condition that a handle is not empty.
Of the brand workbench, six of the eight views; of the
design exchange, annotations and dispositions but for the review they put away.
Of the vector graphics workbench, the fields of an element. Of the theme
workbench, what its controls draw. Of the application theme, the exports; how a
document is classified is a choice of the model. Of the pair publication, the
parsing of the release authority and two runs at once; of the runtime staging,
the classification of macOS closures; of the Node adoption, the download; of the
candidate build, builds without a prepared preview, the notices and the Solar
payload, and the directory `dist` in which vite gathers the page: the copy of
`public/preview` into it and the embedding of it are one step, so a write to
`dist` between the two is not among the writes of others.

## 6. Plan

Done, in this order: the bookkeeping, the plan coordinator, the host and the
scene tokens with their proofs; the runners; the workbenches with their
sessions; the publications; the proofs of the transport, of the runners, of the
scene tokens and of the preview custody; the proofs of the plan page, of the pair
publication, of the two runtimes, of the four workbenches and of the application
theme. Left, in order of worth:

1. The composition of PlanHost with PlanPage: events that the coordinator emits
   against the reducer, with real sessions.
2. Two `prepareSidecar` at once, if the code comes to guard against them.
3. Exports of the application theme and packets of the theme workbench as files.
