------------------------------ MODULE AppTheme -----------------------------
(***************************************************************************)
(* The application theme workbench (src/features/application-theme/        *)
(* ApplicationThemeLab.tsx) and its session on the host                    *)
(* (src-tauri/src/state/app_theme.rs, commands/app_theme.rs).  The page    *)
(* numbers its edits (editRevRef), its documents (docGenRef) and its       *)
(* compiles; the host numbers its opens and resets (open_generation) and   *)
(* holds one document in custody.  The host leaves its lock for dialogs,   *)
(* files and the engine, so the steps of several calls mix.                *)
(*                                                                         *)
(* A profile text is a number: 0 is the built-in profile, the numbers of   *)
(* Files are the texts those files hold at first, every edit has a number  *)
(* of its own.                                                             *)
(***************************************************************************)
EXTENDS Naturals, FiniteSets

CONSTANTS None,
          Files,     \* the profile files on disk: a set 1..n
          MaxEdits,  \* bound on edits
          MaxActs,   \* bound on edits and other user operations together
          MaxCalls   \* bound on the calls under way when the user starts another

VARIABLES page,   \* the refs and state of the component
          host,   \* the AppThemeSession
          disk,   \* the profile files
          calls,  \* the bridge calls under way
          did     \* what the user has done, and two moments the invariants leave out

vars == <<page, host, disk, calls, did>>

Call(kind) ==
  [n |-> did.acts, kind |-> kind, stage |-> "sent", op |-> 0, rev |-> page.rev, gen |-> page.gen,
   text |-> page.profile, mode |-> None, dirty |-> page.dirty, shown |-> page.doc, ticket |-> 0,
   file |-> None, held |-> None, out |-> None, answer |-> "none"]

\* The mount effect compiles the built-in profile.
Init ==
  /\ page = [rev |-> 1, gen |-> 0, op |-> 1, running |-> 1, compiling |-> TRUE, profile |-> 0,
             doc |-> None, dirty |-> FALSE, css |-> None, compiled |-> None, saving |-> FALSE,
             adopted |-> None]
  /\ host = [active |-> None, ids |-> 0, gen |-> 0, latest |-> 0]
  /\ disk = [f \in Files |-> [text |-> f, mtime |-> 0]]
  /\ did = [acts |-> 0, edits |-> 0, text |-> Cardinality(Files), overtaken |-> FALSE,
            crossed |-> FALSE]
  /\ calls = {[n |-> 0, kind |-> "compile", stage |-> "sent", op |-> 1, rev |-> 1, gen |-> 0,
               text |-> 0, mode |-> None, dirty |-> FALSE, shown |-> None, ticket |-> 0,
               file |-> None, held |-> None, out |-> None, answer |-> "none"]}

-----------------------------------------------------------------------------
(* The page.                                                               *)

\* Another user operation; overtaken notes one made while a reset is awaited.
Act(d) ==
  /\ did.acts < MaxActs /\ Cardinality(calls) < MaxCalls
  /\ did' = [d EXCEPT !.acts = @ + 1,
                      !.overtaken = @ \/ \E c \in calls : c.kind = "reset"]

ReadOnly == page.doc # None /\ ~page.doc.editable

\* handleProfileChange and Load Forge Console.
WrongEdited(text) == [page EXCEPT !.profile = text, !.css = None, !.dirty = TRUE]
Edited(text) == [page EXCEPT !.rev = @ + 1, !.profile = text, !.css = None, !.dirty = TRUE]

Edit ==
  /\ did.edits < MaxEdits /\ ~ReadOnly
  /\ \E text \in {did.text + 1, 0} :  \* 0: the built-in profile is loaded
       /\ page' = Edited(text)
       /\ Act([did EXCEPT !.edits = @ + 1, !.text = IF text = 0 THEN @ ELSE text])
  /\ UNCHANGED <<host, disk, calls>>

\* runCompile up to its request.
RunCompile(p, text) == [p EXCEPT !.op = @ + 1, !.running = p.op + 1, !.compiling = TRUE]
CompileCall(p, text) == [Call("compile") EXCEPT !.op = p.op + 1, !.rev = p.rev, !.text = text]

Compile ==
  /\ ~page.compiling /\ ~ReadOnly
  /\ page' = RunCompile(page, page.profile)
  /\ calls' = calls \cup {CompileCall(page, page.profile)}
  /\ Act(did)
  /\ UNCHANGED <<host, disk>>

Open ==
  /\ calls' = calls \cup {Call("open")}
  /\ Act(did)
  /\ UNCHANGED <<page, host, disk>>

\* Save Profile and Save Original; which of them a clean document offers depends on its text.
SaveModes ==
  IF page.doc = None THEN {"new"} ELSE IF ReadOnly THEN {"original"} ELSE {"edited", "original"}
Save ==
  /\ ~page.saving
  /\ \E mode \in SaveModes : calls' = calls \cup {[Call("save") EXCEPT !.mode = mode]}
  /\ page' = [page EXCEPT !.saving = TRUE]
  /\ Act(did)
  /\ UNCHANGED <<host, disk>>

\* handleReset up to its request.
Reset ==
  /\ page' = [page EXCEPT !.rev = @ + 1, !.gen = @ + 1]
  /\ calls' = calls \cup {Call("reset")}
  /\ Act(did)
  /\ UNCHANGED <<host, disk>>

\* handleAdoptDraft: css is of the last compile that counted.
Adopt ==
  /\ ~ReadOnly /\ page.css # None /\ page.compiled = page.rev
  /\ page' = [page EXCEPT !.adopted = [css |-> page.css, of |-> page.profile]]
  /\ Act(did)
  /\ UNCHANGED <<host, disk, calls>>

-----------------------------------------------------------------------------
(* The answers.                                                            *)

Done(c) == calls' = calls \ {c}
Answered(c, kind) == c \in calls /\ c.stage = "answered" /\ c.kind = kind

\* finally: the operation that runs is no longer busy, whatever became of its answer.
WrongSettle(p, c) ==
  IF p.running = c.op /\ p.rev = c.rev THEN [p EXCEPT !.running = None, !.compiling = FALSE] ELSE p
Settle(p, c) ==
  IF p.running = c.op THEN [p EXCEPT !.running = None, !.compiling = FALSE] ELSE p

\* The answer counts for the operation that runs and the edit it was made for.
CompileAnswered(c) ==
  /\ Answered(c, "compile")
  /\ LET counts == page.running = c.op /\ page.rev = c.rev
         valid == IF c.answer = "css" THEN c.text ELSE None
     IN page' = Settle(IF counts /\ c.answer # "error"
                         THEN [page EXCEPT !.compiled = c.rev, !.css = valid] ELSE page, c)
  /\ Done(c)
  /\ UNCHANGED <<host, disk, did>>

\* An opened document replaces the profile unless it was edited meanwhile; a read-only one
\* is shown beside it.
Opened(c) ==
  [page EXCEPT !.rev = @ + 1, !.gen = @ + 1, !.running = None, !.compiling = FALSE, !.doc = c.out,
     !.dirty = FALSE, !.compiled = None, !.adopted = None, !.css = None,
     !.profile = IF c.out.editable THEN c.out.text ELSE @]
OpenAnswered(c) ==
  /\ Answered(c, "open")
  /\ IF c.answer # "document" \/ page.rev # c.rev THEN page' = page /\ Done(c)
     ELSE IF c.out.editable
       THEN /\ page' = RunCompile(Opened(c), c.out.text)
            /\ calls' = (calls \ {c}) \cup {[CompileCall(Opened(c), c.out.text) EXCEPT !.n = c.n]}
       ELSE page' = Opened(c) /\ Done(c)
  /\ UNCHANGED <<host, disk, did>>

\* The draft is clean only if what was saved is what is shown.
CleanAfter(c) == ~(c.mode = "original" /\ c.dirty) /\ page.rev = c.rev
SaveAnswered(c) ==
  /\ Answered(c, "save")
  /\ page' = IF page.gen = c.gen /\ c.answer = "saved"
               THEN [page EXCEPT !.saving = FALSE, !.doc = c.out, !.dirty = @ /\ ~CleanAfter(c)]
               ELSE [page EXCEPT !.saving = FALSE]
  /\ Done(c)
  /\ UNCHANGED <<host, disk, did>>

\* handleReset after its request; no number is taken here.
ResetAnswered(c) ==
  /\ Answered(c, "reset")
  /\ page' = [page EXCEPT !.doc = None, !.compiled = None, !.profile = 0, !.dirty = FALSE,
                !.adopted = None, !.css = None]
  /\ Done(c)
  /\ UNCHANGED <<host, disk, did>>

-----------------------------------------------------------------------------
(* The host.                                                               *)

At(c, kind, stage) == c \in calls /\ c.kind = kind /\ c.stage = stage
Becomes(c, to) == calls' = (calls \ {c}) \cup {to}
To(c, stage) == Becomes(c, [c EXCEPT !.stage = stage])
AnswerWith(c, answer) == Becomes(c, [c EXCEPT !.stage = "answered", !.answer = answer])
Stay == UNCHANGED <<page, host, disk, did>>

\* claim_compile_revision
Claim(c) ==
  /\ At(c, "compile", "sent")
  /\ IF c.rev < host.latest THEN AnswerWith(c, "stale") /\ UNCHANGED host
     ELSE To(c, "run") /\ host' = [host EXCEPT !.latest = c.rev]
  /\ UNCHANGED <<page, disk, did>>

\* The runner of EngineRunner: output, diagnostics, or an error.
Compiled(c) ==
  /\ At(c, "compile", "run")
  /\ \E answer \in {"css", "none", "error"} : AnswerWith(c, answer)
  /\ Stay

BeginOpen(c) ==
  /\ At(c, "open", "sent")
  /\ host' = [host EXCEPT !.gen = @ + 1]
  /\ Becomes(c, [c EXCEPT !.stage = "dialog", !.ticket = host.gen + 1])
  /\ UNCHANGED <<page, disk, did>>

\* The file dialog of an open or of a save without a file.
Choose(c) ==
  /\ c \in calls /\ c.stage = "dialog"
  /\ \/ \E f \in Files : Becomes(c, [c EXCEPT !.file = f,
                                      !.stage = IF c.kind = "open" THEN "read" ELSE "admit"])
     \/ AnswerWith(c, "cancelled")
  /\ Stay

WrongOwns(c) == TRUE
Owns(c) == host.gen = c.ticket

Read(c) ==
  /\ At(c, "open", "read")
  /\ IF ~Owns(c) THEN AnswerWith(c, "cancelled")
     ELSE Becomes(c, [c EXCEPT !.stage = "bind", !.held = disk[c.file]])
  /\ Stay

\* bind_document and classify_bound_document.
BindOpen(c) ==
  /\ At(c, "open", "bind")
  /\ \/ \E editable \in BOOLEAN :
          Becomes(c, [c EXCEPT !.stage = "commit",
            !.out = [id |-> None, file |-> c.file, text |-> c.held.text, mtime |-> c.held.mtime,
                     editable |-> editable]])
     \/ AnswerWith(c, IF Owns(c) THEN "error" ELSE "cancelled")
     \/ AnswerWith(c, "cancelled")
  /\ Stay

CommitOpen(c) ==
  /\ At(c, "open", "commit")
  /\ LET doc == [c.out EXCEPT !.id = host.ids + 1]
     IN IF ~Owns(c) THEN AnswerWith(c, "cancelled") /\ UNCHANGED host
        ELSE /\ host' = [host EXCEPT !.active = doc, !.ids = @ + 1]
             /\ Becomes(c, [c EXCEPT !.stage = "answered", !.answer = "document", !.out = doc])
  /\ UNCHANGED <<page, disk, did>>

\* validate_save_request
SameDocument(c) == host.active # None /\ host.active.id = c.shown.id
Admissible(c) ==
  CASE c.mode = "original" -> SameDocument(c)
    [] c.mode = "edited" -> SameDocument(c) /\ host.active.editable
    [] c.mode = "new" -> host.active = None \/ host.active.editable

TakeTicket(c) ==
  /\ At(c, "save", "sent")
  /\ Becomes(c, [c EXCEPT !.stage = "prepare", !.ticket = host.gen])
  /\ Stay

\* prepare_save_target: the document's own file, or a dialog.
Prepare(c) ==
  /\ At(c, "save", "prepare")
  /\ IF ~Admissible(c) THEN AnswerWith(c, "refused")
     ELSE IF c.mode = "new" THEN To(c, "dialog")
     ELSE Becomes(c, [c EXCEPT !.stage = "admit", !.file = host.active.file])
  /\ Stay

\* The document is looked at again, and its file must be what was last read or written.
Conflict(c) ==
  /\ host.active # None /\ host.active.file = c.file
  /\ disk[c.file] # [text |-> host.active.text, mtime |-> host.active.mtime]
Admit(c) ==
  /\ At(c, "save", "admit")
  /\ IF ~Owns(c) THEN AnswerWith(c, "cancelled")
     ELSE IF ~Admissible(c) \/ Conflict(c) THEN AnswerWith(c, "refused")
     ELSE Becomes(c, [c EXCEPT !.stage = IF c.mode = "original" THEN "check" ELSE "bind",
                               !.held = host.active])
  /\ Stay

BindSave(c) ==
  /\ At(c, "save", "bind")
  /\ \/ To(c, "check")
     \/ AnswerWith(c, "refused")
     \/ AnswerWith(c, "cancelled")
  /\ Stay

CheckOwner(c) ==
  /\ At(c, "save", "check")
  /\ IF Owns(c) THEN To(c, "write") ELSE AnswerWith(c, "cancelled")
  /\ Stay

\* atomic_write_bytes; crossed notes a write under an open that has read the file already.
Written(c) == IF c.mode = "original" THEN c.held.text ELSE c.text
Write(c) ==
  /\ At(c, "save", "write")
  /\ \/ /\ disk' = [disk EXCEPT ![c.file] = [text |-> Written(c), mtime |-> @.mtime + 1]]
        /\ Becomes(c, [c EXCEPT !.stage = "commit",
             !.out = [id |-> None, file |-> c.file, text |-> Written(c),
                      mtime |-> disk[c.file].mtime + 1,
                      editable |-> IF c.mode = "original" THEN c.held.editable ELSE TRUE]])
        /\ did' = [did EXCEPT !.crossed = @ \/
             \E o \in calls : o.kind = "open" /\ o.file = c.file /\ o.stage \in {"bind", "commit"}]
     \/ AnswerWith(c, "refused") /\ UNCHANGED <<disk, did>>
  /\ UNCHANGED <<page, host>>

\* A save that lost its ticket after the write is answered as cancelled all the same.
CommitSave(c) ==
  /\ At(c, "save", "commit")
  /\ LET minted == c.mode = "new"
         doc == [c.out EXCEPT !.id = IF minted THEN host.ids + 1 ELSE c.held.id]
     IN IF ~Owns(c)
          THEN /\ AnswerWith(c, "cancelled") /\ UNCHANGED host
               /\ did' = [did EXCEPT !.crossed = TRUE]
          ELSE /\ host' = [host EXCEPT !.active = doc, !.ids = IF minted THEN @ + 1 ELSE @]
               /\ Becomes(c, [c EXCEPT !.stage = "answered", !.answer = "saved", !.out = doc])
               /\ UNCHANGED did
  /\ UNCHANGED <<page, disk>>

HostReset(c) ==
  /\ At(c, "reset", "sent")
  /\ host' = [host EXCEPT !.gen = @ + 1, !.latest = @ + 1, !.active = None]
  /\ AnswerWith(c, "reset")
  /\ UNCHANGED <<page, disk, did>>

Serve ==
  \E c \in calls :
    \/ Claim(c) \/ Compiled(c) \/ BeginOpen(c) \/ Choose(c) \/ Read(c) \/ BindOpen(c)
    \/ CommitOpen(c) \/ TakeTicket(c) \/ Prepare(c) \/ Admit(c) \/ BindSave(c) \/ CheckOwner(c)
    \/ Write(c) \/ CommitSave(c) \/ HostReset(c)

Continue ==
  \E c \in calls : CompileAnswered(c) \/ OpenAnswered(c) \/ SaveAnswered(c) \/ ResetAnswered(c)

Next == Edit \/ Compile \/ Open \/ Save \/ Reset \/ Adopt \/ Serve \/ Continue

\* Calls are served and answers taken, in any order.
Spec == Init /\ [][Next]_vars /\ WF_vars(Serve \/ Continue)

-----------------------------------------------------------------------------
\* "Clean": with the host's document shown, editable and without unsaved changes, its file
\* holds the profile that is shown once no write is half done, whatever was edited, saved or opened meanwhile
\* (handleSaveProfile, handleOpenProfile).
CleanMeansSaved ==
  /\ page.doc # None /\ page.doc = host.active /\ page.doc.editable /\ ~page.dirty
  /\ ~did.overtaken /\ ~did.crossed /\ \A c \in calls : ~At(c, "save", "commit")
  => disk[page.doc.file].text = page.profile

\* A style sheet is adopted only if it was compiled from the profile shown at that moment
\* ("current edits require recompilation", handleAdoptDraft).
AdoptedIsShown ==
  page.adopted # None /\ ~did.overtaken => page.adopted.css = page.adopted.of

ShownIsTrue == CleanMeansSaved /\ AdoptedIsShown

\* A save of an open document writes that document and to the file it came from, whichever
\* document the host holds by then (validate_save_request).
SavesItsOwnDocument ==
  \A c \in calls : c.kind = "save" /\ c.mode # "new" /\ c.stage \in {"write", "commit"} =>
    c.file = c.shown.file /\ c.held.id = c.shown.id

\* A document that enters custody was asked for after every open and reset that has begun,
\* and leaves nothing of an older one behind (open_generation).
CustodyInOrder ==
  [][host'.active \notin {None, host.active} =>
       \E c \in calls : c.stage = "commit" /\ c.file = host'.active.file
                        /\ \A o \in calls : o.kind = "open" => o.ticket <= c.ticket]_vars

\* The Compile button is never left disabled (finally of runCompile).
CompileSettles == page.compiling ~> ~page.compiling
=============================================================================
