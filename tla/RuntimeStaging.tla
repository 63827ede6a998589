-------------------------- MODULE RuntimeStaging ---------------------------
(***************************************************************************)
(* The private runtime of a Linux payload (tools/native-runtime.mjs): a    *)
(* source tree is admitted against its declared material, copied into the  *)
(* payload, marked, inventoried, and the source is admitted once more.     *)
(* Nothing locks either tree: an admission reads the metadata of every     *)
(* member, then the bodies, then the metadata again, and fails when a      *)
(* frame (dev, ino, size, mode, mtime, ctime, owner, links) has changed.   *)
(*                                                                         *)
(* The text of a member is 0 if it is the declared one.  Every change      *)
(* gives a member a new frame, and replacing, adding or removing one gives *)
(* the directory a new frame too.                                          *)
(***************************************************************************)
EXTENDS Naturals, FiniteSets

CONSTANTS Regulars, Aliases, \* the declared members below opt/nebular-private
          Absent,            \* text of a member that is not there
          MaxChanges,        \* bound on changes by other processes
          MaxRuns            \* bound on stagings of the same payload

Members == Regulars \cup Aliases
Trees == {"source", "payload"}

VARIABLES tree,    \* both trees: [dir, extra, marker, at]
          input,   \* the frame of the input descriptor
          job,     \* the build under way
          last,    \* frames never repeat: the last one given
          budget,  \* changes and runs so far
          ghost    \* the tree as it was when the last body was read

runtimeVars == <<tree, input, job, last, budget, ghost>>

NoFrames == [m \in Members |-> 0]
Idle == [pc |-> "idle", on |-> "source", todo |-> {}, dir |-> 0, meta |-> NoFrames,
         body |-> NoFrames, auth |-> NoFrames, authDir |-> 0, authInput |-> 0, stage |-> "none"]

RuntimeInit ==
  /\ tree = [source |-> [dir |-> 1, extra |-> FALSE, marker |-> FALSE,
                         at |-> [m \in Members |-> [text |-> 0, frame |-> 1]]],
             payload |-> [dir |-> 0, extra |-> FALSE, marker |-> FALSE,
                          at |-> [m \in Members |-> [text |-> Absent, frame |-> 0]]]]
  /\ input = 1
  /\ job = Idle
  /\ last = 1
  /\ budget = [changes |-> 0, runs |-> 0, paid |-> 0]
  /\ ghost = NoFrames

-----------------------------------------------------------------------------
(* Other processes.                                                        *)

MayChange == budget.changes < MaxChanges /\ last' = last + 1

\* Rewritten in place, or replaced: other bytes of the same size, or the same bytes again.
ChangeMember(t, m) ==
  /\ MayChange /\ tree[t].at[m].text # Absent
  /\ \E text \in {0, 1, Absent}, replaced \in BOOLEAN :
       /\ text = Absent => replaced
       /\ tree' = [tree EXCEPT ![t].at[m] = [text |-> text, frame |-> last + 1],
                               ![t].dir = IF replaced THEN last + 1 ELSE @]
  /\ budget' = [budget EXCEPT !.changes = @ + 1, !.paid = @ + (IF t = "payload" THEN 1 ELSE 0)]
  /\ UNCHANGED <<input, job, ghost>>

\* An undeclared member appears.
AddMember(t) ==
  /\ MayChange /\ tree[t].dir # 0 /\ ~tree[t].extra
  /\ tree' = [tree EXCEPT ![t].extra = TRUE, ![t].dir = last + 1]
  /\ budget' = [budget EXCEPT !.changes = @ + 1, !.paid = @ + (IF t = "payload" THEN 1 ELSE 0)]
  /\ UNCHANGED <<input, job, ghost>>

ChangeInput ==
  /\ MayChange
  /\ input' = last + 1
  /\ budget' = [budget EXCEPT !.changes = @ + 1]
  /\ UNCHANGED <<tree, job, ghost>>

-----------------------------------------------------------------------------
(* admitRuntimeNamespace                                                   *)

JobFails == [job EXCEPT !.pc = "failed"]
Onto(pc, todo) == [job EXCEPT !.pc = pc, !.todo = todo]
Need(guard, to) == job' = IF guard THEN to ELSE JobFails
On == tree[job.on]
Quiet == UNCHANGED <<tree, input, last, budget>>

Admission(t) == [job EXCEPT !.pc = "list", !.on = t, !.todo = {}, !.meta = NoFrames, !.body = NoFrames]

\* The members of the directory must be the declared ones.
AdmitNames ==
  /\ job.pc = "list"
  /\ Need(~On.extra /\ \A m \in Members : On.at[m].text # Absent,
          [Onto("meta", Members) EXCEPT !.dir = On.dir])
  /\ UNCHANGED ghost /\ Quiet

\* Kind, mode, size and the raw target of an alias must be the declared ones.
AdmitMetadata(m) ==
  /\ job.pc = "meta" /\ m \in job.todo
  /\ Need(On.at[m].text # Absent /\ (m \in Aliases => On.at[m].text = 0),
          [Onto(IF job.todo = {m} THEN "body" ELSE "meta",
                IF job.todo = {m} THEN Regulars ELSE job.todo \ {m})
             EXCEPT !.meta[m] = On.at[m].frame])
  /\ UNCHANGED ghost /\ Quiet

\* readRegularDescriptorChecked: the frame it reports is the one admitted before.
ReadBody(m) ==
  /\ job.pc = "body" /\ m \in job.todo
  /\ Need(On.at[m].text # Absent /\ On.at[m].frame = job.meta[m],
          [Onto(IF job.todo = {m} THEN "again" ELSE "body",
                IF job.todo = {m} THEN Members ELSE job.todo \ {m})
             EXCEPT !.body[m] = On.at[m].text])
  /\ ghost' = [n \in Members |-> On.at[n].frame]
  /\ Quiet

\* The directory, the aliases and the regulars are what they were at first.
Unchanged(m) == On.at[m].frame = job.meta[m]
Recheck(m) ==
  /\ job.pc = "again" /\ m \in job.todo
  /\ job.todo = Members => On.dir = job.dir
  /\ m \in Regulars => job.todo \cap Aliases = {}
  /\ Need(Unchanged(m), Onto(IF job.todo = {m} THEN "admitted" ELSE "again", job.todo \ {m}))
  /\ UNCHANGED ghost /\ Quiet

RecheckDirectory ==
  /\ job.pc = "again" /\ job.todo = Members /\ On.dir # job.dir
  /\ job' = JobFails
  /\ UNCHANGED ghost /\ Quiet

-----------------------------------------------------------------------------
(* The build.                                                              *)

\* authenticateNativeRuntimeInput up to the source.
Authenticate ==
  /\ job.pc \in {"idle", "failed", "done", "killed"} /\ budget.runs < MaxRuns
  /\ budget' = [budget EXCEPT !.runs = @ + 1]
  /\ job' = [Idle EXCEPT !.pc = "list", !.authInput = input, !.stage = "capture"]
  /\ UNCHANGED <<tree, input, last, ghost>>

\* Do the admitted bodies carry the declared digests?
Declared == \A m \in Regulars : job.body[m] = 0

\* captureRuntimeSourceSnapshot: the frames are kept for later.
Captured ==
  /\ job.pc = "admitted" /\ job.stage = "capture"
  /\ Need(Declared, [job EXCEPT !.pc = "absent", !.auth = job.meta, !.authDir = job.dir,
                                !.stage = "copy"])
  /\ UNCHANGED ghost /\ Quiet

\* stageNativeRuntime refuses a payload that has a runtime, whole or not.
RefuseExisting ==
  /\ job.pc = "absent"
  /\ IF tree["payload"].dir # 0
       THEN job' = JobFails /\ UNCHANGED <<tree, last>>
       ELSE /\ job' = Onto("copy", Members)
            /\ tree' = [tree EXCEPT !["payload"].dir = last + 1]
            /\ last' = last + 1
  /\ UNCHANGED <<input, budget, ghost>>

\* Every member is read with its frame, written to a name that must be new, and read back.
WrongAfterCopy(m) == "mark"
AfterCopy(m) == IF job.todo = {m} THEN "mark" ELSE "copy"
CopyMember(m) ==
  /\ job.pc = "copy" /\ m \in job.todo /\ (m \in Aliases => job.todo \cap Regulars = {})
  /\ LET from == tree["source"].at[m]
         ok == /\ from.text = 0 /\ from.frame = job.auth[m]
               /\ tree["payload"].at[m].text = Absent
     IN /\ Need(ok, Onto(AfterCopy(m), job.todo \ {m}))
        /\ tree' = IF ok THEN [tree EXCEPT !["payload"].at[m] = [text |-> 0, frame |-> last + 1],
                                           !["payload"].dir = last + 1]
                         ELSE tree
        /\ last' = IF ok THEN last + 1 ELSE last
  /\ UNCHANGED <<input, budget, ghost>>

\* native-runtime.json, then the inventory of the payload.
WriteMarker ==
  /\ job.pc = "mark"
  /\ tree' = [tree EXCEPT !["payload"].marker = TRUE]
  /\ job' = [Admission("payload") EXCEPT !.stage = "inventory"]
  /\ UNCHANGED <<input, last, budget, ghost>>

\* inventoryNativePayload ends; verifyRuntimeSourceSnapshot begins with the descriptor.
Inventoried ==
  /\ job.pc = "admitted" /\ job.stage = "inventory"
  /\ Need(Declared /\ input = job.authInput, [Admission("source") EXCEPT !.stage = "verify"])
  /\ UNCHANGED ghost /\ Quiet

\* The second capture has the frames of the first.
WrongSameSource == Declared
SameSource == Declared /\ job.meta = job.auth /\ job.dir = job.authDir
Verified ==
  /\ job.pc = "admitted" /\ job.stage = "verify"
  /\ Need(SameSource, Onto("done", {}))
  /\ UNCHANGED ghost /\ Quiet

\* The build is killed.
Kill ==
  /\ job.pc \notin {"idle", "failed", "done", "killed"} /\ budget.changes < MaxChanges
  /\ job' = [job EXCEPT !.pc = "killed"]
  /\ budget' = [budget EXCEPT !.changes = @ + 1]
  /\ UNCHANGED <<tree, input, last, ghost>>

RuntimeNext ==
  \/ \E t \in Trees : (\E m \in Members : ChangeMember(t, m)) \/ AddMember(t)
  \/ ChangeInput
  \/ AdmitNames
  \/ \E m \in Members : AdmitMetadata(m) \/ ReadBody(m) \/ Recheck(m) \/ CopyMember(m)
  \/ RecheckDirectory
  \/ Authenticate \/ Captured \/ RefuseExisting \/ WriteMarker \/ Inventoried \/ Verified \/ Kill

RuntimeSpec == RuntimeInit /\ [][RuntimeNext]_runtimeVars

-----------------------------------------------------------------------------
\* What an admission reports was the whole content of the tree at one moment, the one at
\* which the last body was read, although every member was looked at on its own and
\* other processes write to the tree meanwhile (admitRuntimeNamespace).
AdmittedIsSnapshot == job.pc = "admitted" => ghost = job.meta

\* A staging that succeeds found its source, at the end, as it had been authenticated,
\* member for member: nothing was changed and put back in between.
StagedFromOneSource == job.pc = "done" => ghost = job.auth /\ Declared

\* What an admission reports was the whole runtime at one moment, and a staged runtime was
\* copied from one source (admitRuntimeNamespace, verifyRuntimeSourceSnapshot).
RuntimeSnapshots == AdmittedIsSnapshot /\ StagedFromOneSource

\* native-runtime.json stands only beside the whole runtime, whenever the build fails or is
\* killed, as long as no other process changes the payload: a payload that was
\* staged halfway is never taken for a private one.
MarkerMeansWhole ==
  tree["payload"].marker /\ budget.paid = 0 => \A m \in Members : tree["payload"].at[m].text = 0
=============================================================================
