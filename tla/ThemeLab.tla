------------------------------ MODULE ThemeLab -----------------------------
(***************************************************************************)
(* The theme workbench (src/features/theme-lab/ThemeLab.tsx) and the theme *)
(* session of the host (src-tauri/src/state/theme_lab.rs).  Every user     *)
(* operation takes the next number from one counter (latestIntendedOpRef)  *)
(* and its answer counts only while that number is the latest.  Edits are  *)
(* compiled 150 ms after the last one; their numbers are told to the host  *)
(* by a coalescing loop of its own.  Requests may overtake each other on   *)
(* their way to the host, which leaves its lock while the compiler runs.   *)
(*                                                                         *)
(* A theme text is a number: 0 is the shipped example, the numbers of      *)
(* Files are the texts those files hold at first, every later edit or      *)
(* adopted candidate has a number of its own.                              *)
(***************************************************************************)
EXTENDS Naturals, FiniteSets

CONSTANTS None,
          Files,     \* the theme files on disk: a set 1..n
          Acts,      \* the operations a run uses
          MaxEdits,  \* bound on edits of the draft
          MaxActs,   \* bound on the other user operations
          MaxAll,    \* bound on both together
          MaxCalls   \* bound on the calls under way when the user starts another

VARIABLES page,   \* the refs and state of the ThemeLab component
          sync,   \* the loop of invalidateNativeDraft and its promise
          host,   \* the ThemeLabSession
          disk,   \* the theme files
          calls,  \* the bridge calls under way
          did     \* what the user has done; mine is the edit nothing was asked to replace

vars == <<page, sync, host, disk, calls, did>>

-----------------------------------------------------------------------------
Call(kind, rev, text) ==
  [n |-> did.acts, kind |-> kind, rev |-> rev, text |-> text, stage |-> "sent",
   file |-> None, mark |-> 0, flag |-> FALSE, answer |-> "none"]

\* The mount effect has taken the status and asks for the Stellar Cyan example.
Init ==
  /\ page = [op |-> 2, applied |-> 0, spec |-> 0, rev |-> 1, preview |-> 1, css |-> None,
             good |-> None, dirty |-> FALSE, error |-> FALSE, name |-> None, saveAs |-> FALSE,
             valid |-> TRUE, timer |-> None, pending |-> None, cand |-> FALSE,
             verified |-> FALSE, ask |-> None]
  /\ sync = [state |-> "ok", sent |-> None, want |-> None, answer |-> "none"]
  /\ host = [latest |-> 0, dirty |-> FALSE, file |-> None, mark |-> 0]
  /\ disk = [f \in Files |-> [text |-> f, mtime |-> 0]]
  /\ did = [edits |-> 0, acts |-> 0, text |-> Cardinality(Files), mine |-> None, told |-> 0]
  /\ calls = {[n |-> 0, kind |-> "example", rev |-> 2, text |-> 0, stage |-> "sent",
               file |-> None, mark |-> 0, flag |-> FALSE, answer |-> "none"]}

-----------------------------------------------------------------------------
(* The page.                                                               *)

MayStart == did.acts + did.edits < MaxAll /\ Cardinality(calls) < MaxCalls
MayAct(kind) == kind \in Acts /\ did.acts < MaxActs /\ MayStart
MayEdit == did.edits < MaxEdits /\ MayStart

Bump(p) == [p EXCEPT !.op = @ + 1]

\* invalidateNativeDraft: one update at a time, the newest number next.
WrongInvalidate(rev) ==
  sync' = IF sync.state = "running" THEN sync
          ELSE [state |-> "running", sent |-> rev, want |-> None, answer |-> "none"]
Invalidate(rev) ==
  sync' = IF sync.state = "running" THEN [sync EXCEPT !.want = rev]
          ELSE [state |-> "running", sent |-> rev, want |-> None, answer |-> "none"]

Schedule(p, text, rev) == [p EXCEPT !.pending = text, !.timer = [text |-> text, rev |-> rev]]

\* resumePendingDraftCompile
Resume(p) ==
  IF p.pending = None THEN p
  ELSE Schedule([Bump(p) EXCEPT !.rev = p.op + 1], p.pending, p.op + 1)

\* updateSpec, updateV2Spec and createV2Draft.  An edit may mend the invalid field, and
\* then handleFieldsValidity(true) precedes it in the same handler; an edit of another
\* field leaves the draft invalid, and its compile will be given up.
Edit ==
  /\ MayEdit
  /\ \E newDraft, mended \in BOOLEAN :
       /\ newDraft => "new" \in Acts
       /\ LET text == did.text + 1
              rev == page.op + 1
              kept == [Bump(page) EXCEPT !.spec = text, !.dirty = TRUE, !.rev = rev, !.css = None,
                         !.error = FALSE, !.cand = FALSE, !.verified = FALSE, !.ask = None,
                         !.valid = @ \/ newDraft \/ mended, !.saveAs = @ \/ newDraft,
                         !.name = IF newDraft THEN None ELSE @]
          IN /\ page' = Schedule(kept, text, rev)
             /\ Invalidate(rev)
             /\ did' = [did EXCEPT !.edits = @ + 1, !.text = text, !.mine = text, !.told = rev]
  /\ UNCHANGED <<host, disk, calls>>

\* handleFieldsValidity(false): the draft is retained, its compile is not.
FieldInvalid ==
  /\ MayEdit /\ "invalid" \in Acts
  /\ page' = [Bump(page) EXCEPT !.valid = FALSE, !.timer = None, !.pending = None, !.dirty = TRUE,
                !.rev = page.op + 1, !.css = None, !.cand = FALSE, !.verified = FALSE]
  /\ Invalidate(page.op + 1)
  /\ did' = [did EXCEPT !.edits = @ + 1, !.told = page.op + 1]
  /\ UNCHANGED <<host, disk, calls>>

\* A call that awaits nativeInvalidationRef first.
Waiting(call) == [call EXCEPT !.stage = IF sync.state = "running" THEN "waits" ELSE "sent"]

\* The catch of executeCompile.
CompileFails(p) == [p EXCEPT !.css = None, !.pending = None, !.error = TRUE]

\* executeCompile up to its request.
ExecuteCompile(p, text, rev) ==
  IF rev # p.op THEN page' = p /\ UNCHANGED calls
  ELSE IF sync.state = "failed" THEN page' = CompileFails(p) /\ UNCHANGED calls
  ELSE /\ page' = p
       /\ calls' = IF sync.state = "running" \/ p.valid
                     THEN calls \cup {Waiting(Call("compile", rev, text))} ELSE calls

TimerFires ==
  /\ page.timer # None
  /\ ExecuteCompile([page EXCEPT !.timer = None], page.timer.text, page.timer.rev)
  /\ UNCHANGED <<sync, host, disk, did>>

ManualCompile ==
  /\ MayAct("compile") /\ page.valid
  /\ LET rev == page.op + 1
     IN ExecuteCompile([Bump(page) EXCEPT !.timer = None, !.rev = rev, !.pending = page.spec],
                       page.spec, rev)
  /\ did' = [did EXCEPT !.acts = @ + 1]
  /\ UNCHANGED <<sync, host, disk>>

\* From now on the user expects the draft to be replaced.
Replace == did' = [did EXCEPT !.acts = @ + 1, !.mine = None]

\* loadExampleTheme, for an example, Reset or the mount; it does not await the loop.
LoadExample ==
  /\ MayAct("example")
  /\ page' = [Bump(page) EXCEPT !.timer = None]
  /\ calls' = calls \cup {Call("example", page.op + 1, 0)}
  /\ Replace
  /\ UNCHANGED <<sync, host, disk>>

\* executeOpen
Open ==
  /\ MayAct("open")
  /\ LET asked == [Bump(page) EXCEPT !.timer = None]
     IN IF sync.state = "failed"
          THEN page' = [asked EXCEPT !.error = TRUE] /\ UNCHANGED calls
          ELSE page' = asked /\ calls' = calls \cup {Waiting(Call("open", page.op + 1, None))}
  /\ Replace
  /\ UNCHANGED <<sync, host, disk>>

\* handleSave: bound to the latest operation, takes no number of its own.
Save ==
  /\ MayAct("save") /\ page.valid
  /\ \E as \in BOOLEAN :
       IF sync.state = "failed"
         THEN page' = [page EXCEPT !.error = TRUE] /\ UNCHANGED calls
         ELSE /\ calls' = calls \cup {[Waiting(Call("save", page.op, page.spec))
                                         EXCEPT !.flag = as \/ page.saveAs]}
              /\ UNCHANGED page
  /\ did' = [did EXCEPT !.acts = @ + 1]
  /\ UNCHANGED <<sync, host, disk>>

SendAdopt(force) ==
  /\ page' = [Bump(page) EXCEPT !.timer = None, !.ask = None]
  /\ calls' = calls \cup {[Call("adopt", page.op + 1, did.text + 1) EXCEPT !.flag = force]}
  /\ did' = [did EXCEPT !.acts = @ + 1, !.mine = None, !.text = @ + 1]

\* handleAdoptClick: a dirty draft is asked about first.
Adopt ==
  /\ MayAct("adopt") /\ page.verified /\ page.ask = None
  /\ IF page.dirty
       THEN /\ page' = [page EXCEPT !.ask = page.op]
            /\ did' = [did EXCEPT !.acts = @ + 1]
            /\ UNCHANGED calls
       ELSE SendAdopt(FALSE)
  /\ UNCHANGED <<sync, host, disk>>

\* confirmDiscard of an adoption.
ConfirmAdopt ==
  /\ page.ask # None /\ MayAct("adopt")
  /\ IF page.ask # page.op
       THEN page' = [page EXCEPT !.ask = None, !.error = TRUE] /\ UNCHANGED <<calls, did>>
       ELSE SendAdopt(TRUE)
  /\ UNCHANGED <<sync, host, disk>>

\* Candidate selected, or the draft's preview restored.
LeaveCandidate ==
  /\ MayAct("candidate")
  /\ \E select \in BOOLEAN :
       /\ ~select => page.cand
       /\ page' = Resume([Bump(page) EXCEPT !.cand = FALSE, !.preview = page.op + 1,
                                            !.verified = @ /\ ~select])
  /\ did' = [did EXCEPT !.acts = @ + 1]
  /\ UNCHANGED <<sync, host, disk, calls>>

\* handleToggleCandidatePreview, handleExportBrief, handleImportPacket, handleExportReview.
Exchange(kind) ==
  /\ MayAct(kind)
  /\ kind = "preview" => ~page.cand
  /\ page' = Bump(page)
  /\ calls' = calls \cup {Call(kind, page.op + 1, None)}
  /\ did' = [did EXCEPT !.acts = @ + 1]
  /\ UNCHANGED <<sync, host, disk>>

-----------------------------------------------------------------------------
(* The host.                                                               *)

Becomes(c, new) == calls' = (calls \ {c}) \cup {new}
To(c, stage) == [c EXCEPT !.stage = stage]
Answered(c, answer) == [c EXCEPT !.stage = "answered", !.answer = answer]
Behind(c) == c.rev < host.latest

\* draft_update: strictly increasing.
ServeUpdate ==
  /\ sync.state = "running" /\ sync.answer = "none"
  /\ IF sync.sent <= host.latest
       THEN sync' = [sync EXCEPT !.answer = "refused"] /\ UNCHANGED host
       ELSE /\ sync' = [sync EXCEPT !.answer = "ok"]
            /\ host' = [host EXCEPT !.latest = sync.sent, !.dirty = TRUE]
  /\ UNCHANGED <<page, disk, calls, did>>

\* compile and example: checked, run without the lock, checked again.  The
\* compiler fails at times, if only because the next request cancels it.
ServeCompile(c) ==
  /\ c.kind \in {"compile", "example"}
  /\ \/ /\ c.stage = "sent"
        /\ host' = [host EXCEPT !.latest = IF Behind(c) THEN @ ELSE c.rev]
        /\ Becomes(c, IF Behind(c) THEN Answered(c, "invalid") ELSE To(c, "running"))
     \/ /\ c.stage = "running"
        /\ \E answer \in {"good", "invalid", "failed"} :
             /\ Behind(c) => answer = "invalid"
             /\ host' = IF Behind(c) \/ answer = "failed" THEN host
                        ELSE IF c.kind = "compile" THEN [host EXCEPT !.dirty = TRUE]
                        ELSE IF answer = "good" THEN [host EXCEPT !.file = None, !.dirty = FALSE]
                        ELSE host
             /\ Becomes(c, Answered(c, answer))
  /\ UNCHANGED <<page, sync, disk, did>>

\* studio_theme_lab_open and open_file_with_binding.
ServeOpen(c) ==
  /\ c.kind = "open"
  /\ \/ /\ c.stage = "sent"
        /\ \/ Becomes(c, Answered(c, "cancelled"))
           \/ \E f \in Files : Becomes(c, [To(c, "picked") EXCEPT !.file = f])
        /\ UNCHANGED host
     \/ /\ c.stage = "picked"
        /\ Becomes(c, IF Behind(c) THEN Answered(c, "failed")
                      ELSE [To(c, "running") EXCEPT !.text = disk[c.file].text,
                                                    !.mark = disk[c.file].mtime])
        /\ UNCHANGED host
     \/ /\ c.stage = "running"
        /\ \/ \E answer \in {"invalid", "failed"} : Becomes(c, Answered(c, answer))
              /\ UNCHANGED host
           \/ /\ ~Behind(c)
              /\ host' = [host EXCEPT !.file = c.file, !.mark = c.mark, !.dirty = FALSE]
              /\ Becomes(c, Answered(c, "good"))
  /\ UNCHANGED <<page, sync, disk, did>>

\* studio_theme_lab_save and save_file_with_binding: the file is replaced
\* before the last check.
ServeSave(c) ==
  /\ c.kind = "save"
  /\ \/ /\ c.stage = "sent"
        /\ IF c.flag \/ host.file = None
             THEN \/ Becomes(c, Answered(c, "cancelled"))
                  \/ \E f \in Files : Becomes(c, [To(c, "picked") EXCEPT !.file = f])
             ELSE Becomes(c, [To(c, "picked") EXCEPT !.file = host.file])
        /\ UNCHANGED <<host, disk>>
     \/ /\ c.stage = "picked"
        /\ Becomes(c, IF Behind(c) THEN Answered(c, "failed") ELSE To(c, "running"))
        /\ UNCHANGED <<host, disk>>
     \/ /\ c.stage = "running"
        /\ \/ Becomes(c, Answered(c, "failed")) /\ UNCHANGED disk
           \/ /\ host.file = c.file => host.mark = disk[c.file].mtime
              /\ disk' = [disk EXCEPT ![c.file] = [text |-> c.text, mtime |-> @.mtime + 1]]
              /\ Becomes(c, [To(c, "written") EXCEPT !.mark = disk[c.file].mtime + 1])
        /\ UNCHANGED host
     \/ /\ c.stage = "written"
        /\ IF Behind(c)
             THEN Becomes(c, Answered(c, "failed")) /\ UNCHANGED host
             ELSE /\ host' = [host EXCEPT !.file = c.file, !.mark = c.mark, !.dirty = FALSE]
                  /\ Becomes(c, Answered(c, "good"))
        /\ UNCHANGED disk
  /\ UNCHANGED <<page, sync, did>>

\* adopt_candidate
ServeAdopt(c) ==
  /\ c.kind = "adopt"
  /\ \/ /\ c.stage = "sent"
        /\ IF c.rev <= host.latest THEN Becomes(c, Answered(c, "failed")) /\ UNCHANGED host
           ELSE IF host.dirty /\ ~c.flag THEN Becomes(c, Answered(c, "confirm")) /\ UNCHANGED host
           ELSE Becomes(c, To(c, "running")) /\ host' = [host EXCEPT !.latest = c.rev]
     \/ /\ c.stage = "running"
        /\ \/ \E answer \in {"invalid", "failed"} : Becomes(c, Answered(c, answer))
              /\ UNCHANGED host
           \/ /\ c.rev = host.latest
              /\ host' = [host EXCEPT !.file = None, !.dirty = TRUE]
              /\ Becomes(c, Answered(c, "good"))
  /\ UNCHANGED <<page, sync, disk, did>>

\* The packet and verification commands leave the session alone.
ServeExchange(c) ==
  /\ c.kind \in {"preview", "packet"} /\ c.stage = "sent"
  /\ \E answer \in {"good", "neutral", "failed"} : Becomes(c, Answered(c, answer))
  /\ UNCHANGED <<page, sync, host, disk, did>>

-----------------------------------------------------------------------------
(* The answers.                                                            *)

WrongCurrent(c) == c.rev > page.applied
Current(c) == c.rev >= page.op /\ c.rev > page.applied
Done(c, p) == page' = p /\ calls' = calls \ {c}

\* What loading, opening and adopting a good document have in common.
Adopted(p, c) ==
  [p EXCEPT !.applied = c.rev, !.spec = c.text, !.rev = c.rev, !.preview = c.rev, !.css = c.text,
            !.good = c.text, !.pending = None, !.cand = FALSE, !.error = FALSE]

AnswerCompile(c) ==
  /\ c.kind = "compile" /\ c.stage = "answered"
  /\ LET applied == [page EXCEPT !.applied = c.rev, !.pending = None]
     IN Done(c, IF ~Current(c) THEN page
                ELSE IF c.answer = "failed" THEN CompileFails(page)
                ELSE IF c.answer = "good"
                  THEN [applied EXCEPT !.css = c.text, !.good = c.text, !.preview = c.rev,
                                       !.error = FALSE]
                  ELSE [applied EXCEPT !.css = None, !.error = TRUE])
  /\ UNCHANGED <<sync, host, disk, did>>

AnswerReplacement(c) ==
  /\ c.kind \in {"example", "open"} /\ c.stage = "answered"
  /\ Done(c, IF ~Current(c) THEN page
             ELSE IF c.answer = "good"
               THEN [Adopted(page, c) EXCEPT !.valid = TRUE, !.saveAs = FALSE, !.dirty = FALSE,
                                             !.name = c.file]
             ELSE IF c.answer = "cancelled"
               THEN IF page.dirty \/ page.rev > page.preview
                      THEN Schedule([Bump(page) EXCEPT !.rev = page.op + 1], page.spec, page.op + 1)
                      ELSE page
             ELSE [page EXCEPT !.error = TRUE,
                               !.applied = IF c.answer = "invalid" THEN c.rev ELSE @])
  /\ UNCHANGED <<sync, host, disk, did>>

AnswerSave(c) ==
  /\ c.kind = "save" /\ c.stage = "answered"
  /\ Done(c, IF c.rev # page.op \/ c.answer = "cancelled" THEN page
             ELSE IF c.answer = "good"
               THEN [page EXCEPT !.saveAs = FALSE, !.dirty = FALSE, !.name = c.file]
               ELSE [page EXCEPT !.error = TRUE])
  /\ UNCHANGED <<sync, host, disk, did>>

AnswerAdopt(c) ==
  /\ c.kind = "adopt" /\ c.stage = "answered"
  /\ Done(c, IF c.rev # page.op THEN page
             ELSE Resume(IF c.answer = "confirm" THEN [page EXCEPT !.ask = page.op]
                         ELSE IF c.answer = "good"
                           THEN [Adopted(page, c) EXCEPT !.dirty = TRUE, !.name = None,
                                                         !.verified = FALSE]
                           ELSE [page EXCEPT !.error = TRUE]))
  /\ UNCHANGED <<sync, host, disk, did>>

AnswerExchange(c) ==
  /\ c.kind \in {"preview", "packet"} /\ c.stage = "answered"
  /\ LET left == [page EXCEPT !.cand = FALSE, !.preview = page.op]
         new == IF c.kind = "preview"
                  THEN IF c.answer = "good"
                         THEN [page EXCEPT !.applied = c.rev, !.cand = TRUE, !.verified = TRUE,
                                           !.error = FALSE]
                         ELSE [left EXCEPT !.error = TRUE,
                                 !.applied = IF c.answer = "neutral" THEN c.rev ELSE @,
                                 !.verified = @ /\ c.answer = "failed"]
                ELSE IF c.answer = "good" THEN [left EXCEPT !.verified = FALSE]
                ELSE IF c.answer = "failed" THEN [page EXCEPT !.error = TRUE]
                ELSE page
     IN Done(c, IF c.rev # page.op THEN page ELSE Resume(new))
  /\ UNCHANGED <<sync, host, disk, did>>

\* A call that waited for the loop goes on: it may have been overtaken, or the loop failed.
Resumed(c, failed) ==
  IF c.rev # page.op /\ c.kind # "open" THEN {}
  ELSE IF failed \/ (c.kind = "compile" /\ ~page.valid) THEN {}
  ELSE {To(c, "sent")}

\* Acknowledgement of an update: the next number goes out, or the promise
\* settles and every call that awaited it continues.
AnswerUpdate ==
  /\ sync.state = "running" /\ sync.answer # "none"
  /\ LET failed == sync.answer = "refused"
         waiting == {c \in calls : c.stage = "waits"}
         hurt == {c \in waiting : c.rev = page.op}
     IN IF ~failed /\ sync.want # None
          THEN /\ sync' = [sync EXCEPT !.sent = sync.want, !.want = None, !.answer = "none"]
               /\ UNCHANGED <<page, calls>>
          ELSE /\ sync' = [sync EXCEPT !.state = IF failed THEN "failed" ELSE "ok",
                                       !.sent = None, !.answer = "none"]
               /\ calls' = (calls \ waiting) \cup UNION {Resumed(c, failed) : c \in waiting}
               /\ page' = IF ~failed THEN page
                          ELSE LET told == [page EXCEPT !.error = TRUE]
                               IN IF \E c \in hurt : c.kind = "compile" THEN CompileFails(told) ELSE told
  /\ UNCHANGED <<host, disk, did>>

-----------------------------------------------------------------------------
User == \/ Edit \/ FieldInvalid \/ ManualCompile \/ LoadExample \/ Open \/ Save
        \/ Adopt \/ ConfirmAdopt \/ LeaveCandidate
        \/ \E kind \in {"preview", "packet"} : Exchange(kind)

Serve == \/ ServeUpdate
         \/ \E c \in calls : \/ ServeCompile(c) \/ ServeOpen(c) \/ ServeSave(c)
                             \/ ServeAdopt(c) \/ ServeExchange(c)

Continue == \/ AnswerUpdate \/ TimerFires
            \/ \E c \in calls : \/ AnswerCompile(c) \/ AnswerReplacement(c) \/ AnswerSave(c)
                                \/ AnswerAdopt(c) \/ AnswerExchange(c)

Next == User \/ Serve \/ Continue

\* Requests are served, answers and timers arrive; users need do nothing.
FairSpec == Init /\ [][Next]_vars /\ WF_vars(Serve) /\ WF_vars(Continue)

-----------------------------------------------------------------------------
\* The host never knows a number the page has not given out, so the page's next
\* operation is never refused as stale by a number that is already gone
\* (latestIntendedOpRef against latest_observed_operation_revision).
PageAheadOfHost == host.latest <= page.op

\* A draft the user has edited stays on the page, whatever answers arrive late or out of
\* order, until the user asks for another document or adopts a candidate.
EditsAreNotOverwritten == did.mine # None => page.spec = did.mine

\* When the loop of invalidateNativeDraft rests without an error the host knows of the
\* last edit: no number is dropped although the loop sends only the newest one.
HostLearnsEdits == sync.state = "ok" => host.latest >= did.told

\* The last draft is compiled, or an error says why not: a compile that was
\* given up for a candidate, a packet or an open is taken up again.
DraftIsTried == <>[](page.pending # None => page.error \/ ~page.valid)

\* "does not attach an older save completion to a newly loaded draft"
\* (src/test/theme-lab.studio.tsx:54): the page calls a draft saved under a file's name
\* only if that draft is the text that was saved.
OldSaveNotAttached ==
  [][\A c \in calls \ calls' : c.kind = "save" /\ c.stage = "answered" /\ c.answer = "good"
       => page' = page \/ page.spec = c.text]_vars
=============================================================================
