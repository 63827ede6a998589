------------------------------ MODULE MCFiles ------------------------------
(***************************************************************************)
(* One small instance for the parts that read, keep or publish files in    *)
(* several steps, between which others write, and that share nothing else: *)
(* a behaviour is of one of them, and the others keep their initial states.*)
(***************************************************************************)
EXTENDS PairPublication, RuntimeStaging, NodeAdoption, SceneTokens, PreviewCustody, Sequences

CONSTANTS Files, AppEdits, MaxActs, MaxCalls  \* AppTheme

\* The names of the Node runtime, in the order of adoption.
MCEntries == <<"shasums", "archive", "node">>

VARIABLES part,                         \* which of them
          page, host, disk, calls, did  \* AppTheme

appVars == <<page, host, disk, calls, did>>
fileVars == <<part, vars, sceneVars, runtimeVars, adoptionVars, appVars, previewVars>>

App == INSTANCE AppTheme WITH MaxEdits <- AppEdits

FilesInit ==
  /\ part \in {"pair", "scene", "runtime", "node", "app", "preview"}
  /\ Init /\ SceneInit /\ RuntimeInit /\ NodeInit /\ App!Init /\ PreviewInit
  /\ part # "pair" => bin = None                        \* one of the initial states
  /\ part # "node" => \A n \in DOMAIN final : final[n] = NoFile
  /\ part # "preview" => \A i \in DOMAIN inputs : inputs[i].content = "pinned"

\* An action of one part.
InPair(A) == part = "pair" /\ A /\ UNCHANGED <<part, sceneVars, runtimeVars, adoptionVars, appVars, previewVars>>
InScene(A) == part = "scene" /\ A /\ UNCHANGED <<part, vars, runtimeVars, adoptionVars, appVars, previewVars>>
InRuntime(A) == part = "runtime" /\ A /\ UNCHANGED <<part, vars, sceneVars, adoptionVars, appVars, previewVars>>
InNode(A) == part = "node" /\ A /\ UNCHANGED <<part, vars, sceneVars, runtimeVars, appVars, previewVars>>
InApp(A) == part = "app" /\ A /\ UNCHANGED <<part, vars, sceneVars, runtimeVars, adoptionVars, previewVars>>
InPreview(A) == part = "preview" /\ A /\ UNCHANGED <<part, vars, sceneVars, runtimeVars, adoptionVars, appVars>>

FilesNext ==
  InPair(Next) \/ InScene(SceneNext) \/ InRuntime(RuntimeNext) \/ InNode(NodeNext) \/ InApp(App!Next)
  \/ InPreview(PreviewNext)

\* The calls of the application theme are served and answered, in any order.
FilesSpec ==
  FilesInit /\ [][FilesNext]_fileVars /\ WF_fileVars(InApp(App!Serve \/ App!Continue))

-----------------------------------------------------------------------------
\* An application theme that is shown as saved is what its file holds, and a style sheet is
\* adopted only for the profile shown at that moment (handleSaveProfile, handleAdoptDraft).
ShownIsTrue == App!ShownIsTrue

\* A save writes the document it was pressed for, and to its file, and a document that
\* enters custody was asked for after every open that has begun (validate_save_request,
\* open_generation of state/app_theme.rs).
CustodyIsKept == []App!SavesItsOwnDocument /\ App!CustodyInOrder

\* The Compile button of the application theme is never left disabled (finally of
\* runCompile, ApplicationThemeLab.tsx).
CompileSettles == part = "app" => App!CompileSettles
=============================================================================
