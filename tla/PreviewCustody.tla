-------------------------- MODULE PreviewCustody ---------------------------
(***************************************************************************)
(* A native candidate built around a prepared preview                      *)
(* (tools/native-candidate-build.mjs, tools/prepare-app-resources.mjs).    *)
(* Six inputs are admitted against pinned contents, the preview among them *)
(* is staged, the application is built around it, the outputs are checked  *)
(* and sealed.  Nothing locks the inputs while that takes half an hour:    *)
(* the build remembers the frame of every admitted file (dev, ino, size,   *)
(* mode, times, owner, links) and compares it three times, each time in a  *)
(* finally block whose own error gives way to an earlier one.  All reading *)
(* is charged to one budget.                                               *)
(*                                                                         *)
(* An input is one file, or a tree whose files have one frame here; every  *)
(* write gives a new frame.  A member that is added to a tree changes no   *)
(* admitted frame.                                                         *)
(***************************************************************************)
EXTENDS Naturals, Sequences

CONSTANTS Editable,  \* the inputs that other programs write
          MaxWrites   \* bound on all they write and on failing operations

\* How the admission reads each input: whether it is a tree, at most how many bytes, and
\* whether only the check after the build reads it again.
Manifest     == [tree |-> FALSE, heavy |-> FALSE, bytes |-> 1048576]
Source       == [tree |-> TRUE,  heavy |-> FALSE, bytes |-> 262144]
Recipe       == [tree |-> FALSE, heavy |-> FALSE, bytes |-> 262144]
Node         == [tree |-> FALSE, heavy |-> TRUE,  bytes |-> 113002944]
Dependencies == [tree |-> TRUE,  heavy |-> TRUE,  bytes |-> 250667046]
Preview      == [tree |-> TRUE,  heavy |-> FALSE, bytes |-> 911158]

Contract == <<Manifest, Source, Recipe, Node, Dependencies, Preview>>
Inputs == 1..6
AppBytes == 262144
PinBytes == 16777216
MaxBytes == 1073741824

VARIABLES inputs,   \* of each input: [content, frame, extra]
          outputs,  \* of the build: the two previews, what is embedded, the uses of the runtime
          work,     \* where the build is
          frames,   \* of each input: the admitted frame, 0 before
          charged,  \* the bytes charged to the budget
          past      \* history: [edits, changed, restored, disturbed]

previewVars == <<inputs, outputs, work, frames, charged, past>>

Contents == {"pinned", "other"}

WorkAt(at) == [at |-> at, step |-> 1, seen |-> 0, after |-> "none", error |-> FALSE]

PreviewInit ==
  /\ inputs \in [Inputs -> [content : Contents, frame : {1}, extra : {FALSE}]]
  /\ \A i \in Inputs : inputs[i].content = "other" => i \in Editable
  /\ outputs = [neutral |-> "none", public |-> "none", embedded |-> "none", app |-> "none",
                runtime |-> 1, bin |-> 0, scene |-> 0, pins |-> 0, records |-> "none"]
  /\ work = WorkAt("begin")
  /\ frames = [i \in Inputs |-> 0]
  /\ charged = 0
  /\ past = [edits |-> 0, changed |-> {}, restored |-> FALSE,
             disturbed |-> \E i \in Inputs : inputs[i].content = "other"]

-----------------------------------------------------------------------------
(* Exceptions and the finally blocks.                                      *)

Custody(after, error) ==
  [at |-> "custody", step |-> 1, seen |-> 0, after |-> after, error |-> error]

\* Where a step that throws goes on: the admission fails at once, everything after it runs
\* into the check of its function, and then into that of the whole build.
Thrown ==
  CASE work.at \in {"begin", "admit"}                   -> WorkAt("refused")
    [] work.at = "custody" /\ work.after = "final"      -> WorkAt("refused")
    [] work.at \in {"check", "place", "staged"}         -> Custody("stage", TRUE)
    [] work.at \in {"neutral", "public", "readPins"}    -> Custody("post", TRUE)
    [] OTHER                                            -> Custody("final", TRUE)

\* A check that has found nothing: the result goes on, or the earlier error does.
Checked ==
  CASE work.after = "final" -> WorkAt(IF work.error THEN "refused" ELSE "returned")
    [] work.after # "final" /\ work.error -> Custody("final", TRUE)
    [] work.after = "stage" /\ ~work.error -> WorkAt("sidecar")
    [] OTHER -> WorkAt("receipt")

\* A step that reads at most n bytes: it goes on to w if its condition holds.
Charge(ok, n, w) ==
  IF ok /\ charged + n <= MaxBytes
    THEN work' = w /\ charged' = charged + n
    ELSE work' = Thrown /\ UNCHANGED charged

-----------------------------------------------------------------------------
(* Looking at one input, in the admission and in the checks.               *)

Looking == work.at \in {"admit", "custody"}

\* Only the check after the build reads the heavy inputs again, the others compare frames.
Rehash == work.at = "admit" \/ work.after = "post"
WrongReads(i) == i \in Inputs \* every check reads everything again
Reads(i) == Contract[i].heavy => Rehash

\* A file is opened and its frame taken; it is charged before it is read.
OpenFile ==
  /\ Looking /\ work.seen = 0 /\ ~Contract[work.step].tree /\ Reads(work.step)
  /\ Charge(TRUE, Contract[work.step].bytes, [work EXCEPT !.seen = inputs[work.step].frame])
  /\ UNCHANGED <<inputs, outputs, frames, past>>

\* The frames of a tree are taken; its number of members is fixed.
WalkTree ==
  /\ Looking /\ work.seen = 0 /\ Contract[work.step].tree /\ Reads(work.step)
  /\ Charge(~inputs[work.step].extra, Contract[work.step].bytes,
          [work EXCEPT !.seen = inputs[work.step].frame])
  /\ UNCHANGED <<inputs, outputs, frames, past>>

\* The bodies were read and the frames are still those of before.
ReadUnchanged(i) ==
  /\ inputs[i].frame = work.seen
  /\ inputs[i].content = "pinned"
  /\ ~inputs[i].extra

\* The next input is looked at, or the last one was: it goes on to w.
NextLook(w) ==
  IF work.step = 6 THEN w
  ELSE [at |-> work.at, step |-> work.step + 1, seen |-> 0, after |-> work.after,
        error |-> work.error]

AdmitInput ==
  /\ work.at = "admit" /\ work.seen # 0
  /\ Charge(ReadUnchanged(work.step), 0, NextLook(WorkAt("copy")))
  /\ frames' = IF ReadUnchanged(work.step) THEN [frames EXCEPT ![work.step] = work.seen]
               ELSE frames
  /\ UNCHANGED <<inputs, outputs, past>>

CheckInput ==
  /\ work.at = "custody" /\ work.seen # 0
  /\ Charge(ReadUnchanged(work.step) /\ work.seen = frames[work.step], 0, NextLook(Checked))
  /\ UNCHANGED <<inputs, outputs, frames, past>>

\* Node and the dependencies, outside the check after the build: their frames only.
CompareFrame ==
  /\ work.at = "custody" /\ work.seen = 0 /\ ~Reads(work.step)
  /\ Charge(inputs[work.step].frame = frames[work.step], 0, NextLook(Checked))
  /\ UNCHANGED <<inputs, outputs, frames, past>>

-----------------------------------------------------------------------------
(* The build.                                                              *)

\* The source, with the recipe in it, is compared with its authority: before the admission,
\* when it has been copied into a fresh stage, and after the build.
VerifySource ==
  /\ work.at \in {"begin", "copy", "built"}
  /\ Charge(\A i \in {2, 3} : inputs[i].content = "pinned" /\ ~inputs[i].extra, 0,
          WorkAt(CASE work.at = "begin" -> "admit" [] work.at = "copy" -> "check"
                 [] work.at = "built" -> "neutral"))
  /\ UNCHANGED <<inputs, outputs, frames, past>>

\* stagePreparedNeutralPreviewInput: the staged source, each member with its frame, and
\* the staged tree as a whole.
CheckStage ==
  /\ work.at = "check"
  /\ Charge(outputs.neutral = "none", Source.bytes, WorkAt("place"))
  /\ UNCHANGED <<inputs, outputs, frames, past>>

Placeable == inputs[6].frame = frames[6] /\ inputs[6].content = "pinned"

PlaceMembers ==
  /\ work.at = "place"
  /\ Charge(Placeable, 2 * Preview.bytes, WorkAt("staged"))
  /\ outputs' = IF Placeable THEN [outputs EXCEPT !.neutral = "pinned"] ELSE outputs
  /\ UNCHANGED <<inputs, frames, past>>

CheckStaged ==
  /\ work.at = "staged"
  /\ Charge(outputs.neutral = "pinned", Preview.bytes, Custody("stage", FALSE))
  /\ UNCHANGED <<inputs, outputs, frames, past>>

\* prepareAppResources and the frontend, in their order.
PrepareSidecar ==
  /\ work.at = "sidecar"
  /\ Charge(TRUE, 0, WorkAt("loom"))
  /\ outputs' = [outputs EXCEPT !.bin = outputs.runtime]
  /\ UNCHANGED <<inputs, frames, past>>

\* public/preview is removed, with the application fixture in it, and copied anew.
PrepareLoom ==
  /\ work.at = "loom"
  /\ Charge(TRUE, 0, WorkAt("scene"))
  /\ outputs' = [outputs EXCEPT !.public = outputs.neutral, !.app = "none"]
  /\ UNCHANGED <<inputs, frames, past>>

PrepareScene ==
  /\ work.at = "scene"
  /\ Charge(TRUE, 0, WorkAt("pins"))
  /\ outputs' = [outputs EXCEPT !.scene = outputs.runtime]
  /\ UNCHANGED <<inputs, frames, past>>

OneRuntime == outputs.bin = outputs.runtime /\ outputs.scene = outputs.runtime

AssemblePins ==
  /\ work.at = "pins"
  /\ Charge(OneRuntime, 0, WorkAt("frontend"))
  /\ outputs' = IF OneRuntime THEN [outputs EXCEPT !.pins = outputs.runtime] ELSE outputs
  /\ UNCHANGED <<inputs, frames, past>>

\* The fixture is written again and public/ goes into the application.
BuildFrontend ==
  /\ work.at = "frontend"
  /\ Charge(TRUE, 0, WorkAt("built"))
  /\ outputs' = [outputs EXCEPT !.app = "pinned", !.embedded = outputs.public]
  /\ UNCHANGED <<inputs, frames, past>>

\* verifyPreparedNeutralPreviewPostbuild
CheckNeutral ==
  /\ work.at = "neutral"
  /\ Charge(outputs.neutral = "pinned", Preview.bytes, WorkAt("public"))
  /\ UNCHANGED <<inputs, outputs, frames, past>>

CheckPublic ==
  /\ work.at = "public"
  /\ Charge(outputs.app = "pinned" /\ outputs.public = "pinned", AppBytes + Preview.bytes, WorkAt("readPins"))
  /\ UNCHANGED <<inputs, outputs, frames, past>>

ReadPins ==
  /\ work.at = "readPins"
  /\ Charge(outputs.pins # 0, PinBytes, Custody("post", FALSE))
  /\ UNCHANGED <<inputs, outputs, frames, past>>

\* produceBuildReceipt looks at the outputs once more and writes its records.
SealReceipt ==
  /\ work.at = "receipt"
  /\ Charge(/\ outputs.neutral = "pinned" /\ outputs.app = "pinned" /\ outputs.public = "pinned"
          /\ outputs.pins = outputs.bin,
          2 * Preview.bytes + AppBytes + PinBytes, WorkAt("records"))
  /\ UNCHANGED <<inputs, outputs, frames, past>>

WriteRecords ==
  /\ work.at = "records"
  /\ Charge(TRUE, 0, Custody("final", FALSE))
  /\ outputs' = [outputs EXCEPT !.records = "written"]
  /\ UNCHANGED <<inputs, frames, past>>

-----------------------------------------------------------------------------
(* Other programs, and operations that fail.                               *)

MayEdit == past.edits < MaxWrites /\ work.at \notin {"returned", "refused"}

Disturbed(changed, restored) ==
  [edits |-> past.edits + 1, changed |-> changed, restored |-> restored, disturbed |-> TRUE]

\* The last look at an input is behind the build.
Released(i) == work.at = "custody" /\ work.after = "final" /\ i < work.step

WriteInput(i) ==
  /\ MayEdit /\ i \in Editable
  /\ \E c \in Contents :
       inputs' = [inputs EXCEPT ![i] = [content |-> c, frame |-> @.frame + 1, extra |-> @.extra]]
  /\ past' = Disturbed(IF frames[i] = 0 \/ Released(i) THEN past.changed
                       ELSE past.changed \cup {i}, past.restored)
  /\ UNCHANGED <<outputs, work, frames, charged>>

\* A member appears in a tree, or such a member goes away again.
AddOrRemove(i) ==
  /\ MayEdit /\ i \in Editable /\ Contract[i].tree
  /\ inputs' = [inputs EXCEPT ![i] = [content |-> @.content, frame |-> @.frame, extra |-> ~@.extra]]
  /\ past' = Disturbed(past.changed, past.restored)
  /\ UNCHANGED <<outputs, work, frames, charged>>

WriteOutput(o) ==
  /\ MayEdit /\ outputs[o] # "none"
  /\ \E c \in Contents :
       /\ outputs' = [outputs EXCEPT ![o] = c]
       /\ past' = Disturbed(past.changed, past.restored \/ c = "pinned")
  /\ UNCHANGED <<inputs, work, frames, charged>>

ReplaceRuntime ==
  /\ MayEdit
  /\ outputs' = [outputs EXCEPT !.runtime = @ + 1]
  /\ past' = Disturbed(past.changed, past.restored)
  /\ UNCHANGED <<inputs, work, frames, charged>>

Fail ==
  /\ MayEdit
  /\ work' = Thrown
  /\ past' = Disturbed(past.changed, past.restored)
  /\ UNCHANGED <<inputs, outputs, frames, charged>>

BuildStep ==
  \/ OpenFile \/ WalkTree \/ AdmitInput \/ CheckInput \/ CompareFrame
  \/ VerifySource \/ CheckStage \/ PlaceMembers \/ CheckStaged
  \/ PrepareSidecar \/ PrepareLoom \/ PrepareScene \/ AssemblePins \/ BuildFrontend
  \/ CheckNeutral \/ CheckPublic \/ ReadPins \/ SealReceipt \/ WriteRecords

Other ==
  \/ \E i \in Inputs : WriteInput(i) \/ AddOrRemove(i)
  \/ \E o \in {"neutral", "public"} : WriteOutput(o)
  \/ ReplaceRuntime \/ Fail

PreviewNext == BuildStep \/ Other

PreviewSpec == PreviewInit /\ [][PreviewNext]_previewVars

-----------------------------------------------------------------------------
Places ==
  {"begin", "admit", "copy", "check", "place", "staged", "sidecar", "loom", "scene", "pins",
   "frontend", "built", "neutral", "public", "readPins", "receipt", "records", "custody",
   "returned", "refused"}
Texts == Contents \cup {"none"}

PreviewTypeOK ==
  /\ inputs \in [Inputs -> [content : Contents, frame : Nat \ {0}, extra : BOOLEAN]]
  /\ outputs \in [neutral : Texts, public : Texts, embedded : Texts, app : Texts,
                  runtime : Nat, bin : Nat, scene : Nat, pins : Nat, records : {"none", "written"}]
  /\ work \in [at : Places, step : Inputs, seen : Nat,
               after : {"none", "stage", "post", "final"}, error : BOOLEAN]
  /\ frames \in [Inputs -> Nat]
  /\ charged \in Nat
  /\ past \in [edits : Nat, changed : SUBSET Inputs, restored : BOOLEAN, disturbed : BOOLEAN]

\* A build that is returned was of one state of its inputs: no admitted file was written
\* between its admission and the last look at it, not even to put the old text back; and
\* the preview inside the application is the pinned one, unless another program wrote an
\* output and wrote the pinned one over it before it was looked at (the custody checks,
\* verifyPreparedNeutralPreviewPostbuild).
ReturnedMeansUnchanged ==
  work.at = "returned" =>
    /\ past.changed = {}
    /\ outputs.embedded = "pinned" \/ past.restored
    /\ outputs.bin = outputs.scene /\ outputs.records = "written"

\* The checks refuse no build without a reason: one whose inputs and outputs nobody writes
\* and whose operations succeed is not refused, neither for what the build itself writes
\* nor for the budget all the reading is charged to.
RefusedMeansDisturbed == work.at = "refused" => past.disturbed

OutcomeIsTrue == ReturnedMeansUnchanged /\ RefusedMeansDisturbed
=============================================================================
