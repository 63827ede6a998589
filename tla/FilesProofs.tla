----------------------------- MODULE FilesProofs -----------------------------
(***************************************************************************)
(* Proofs about the parts of MCFiles that have no proof module of their    *)
(* own: the two runtimes that are put beside the application               *)
(* (RuntimeStaging, NodeAdoption) and the application theme (AppTheme).    *)
(***************************************************************************)
EXTENDS MCFiles, FiniteSets, FiniteSetTheorems, TLAPS

-----------------------------------------------------------------------------
(***************************************************************************)
(* The staged runtime.                                                     *)
(*                                                                         *)
(* Proofs about RuntimeStaging, for any members, any number of stagings    *)
(* and any changes by other processes.  An admission locks nothing and     *)
(* still reports a snapshot, because a frame never comes back: a member    *)
(* that has, at the end, the frame it had at first had it all the time in  *)
(* between, also when the last body was read.  So the inductive invariant  *)
(* orders what was seen first, what was there at the last body and what is *)
(* there now; the marker needs that what was copied is still there.        *)
(***************************************************************************)

Frames == [Members -> Nat]
Listing == [Members -> [text : {0, 1, Absent}, frame : Nat]]
Tree == [dir : Nat, extra : BOOLEAN, marker : BOOLEAN, at : Listing]

Admitting == {"list", "meta", "body", "again"}
Pcs == Admitting \cup {"idle", "admitted", "absent", "copy", "mark", "done", "failed", "killed"}

Job == [pc : Pcs, on : Trees, todo : SUBSET Members, dir : Nat, meta : Frames,
        body : [Members -> {0, 1, Absent}], auth : Frames, authDir : Nat, authInput : Nat,
        stage : {"none", "capture", "copy", "inventory", "verify"}]

StagingTypeOK ==
  /\ tree \in [Trees -> Tree]
  /\ input \in Nat /\ last \in Nat
  /\ job \in Job
  /\ budget \in [changes : Nat, runs : Nat, paid : Nat]
  /\ ghost \in Frames

\* No frame of a member is of the future.
FramesAreGiven == \A t \in Trees : \A m \in Members : tree[t].at[m].frame <= last

\* What an admission saw of a member was there before what is there now, and the tree at
\* the last body lies in between; a member found unchanged was the same at all three times.
SeenInOrder ==
  /\ job.pc \in Admitting => \A m \in Members : job.meta[m] <= On.at[m].frame
  /\ job.pc = "again" => \A m \in Members :
       /\ job.meta[m] <= ghost[m] /\ ghost[m] <= On.at[m].frame
       /\ m \notin job.todo => ghost[m] = job.meta[m]

\* Nobody else touching the payload, what was copied to it is still there.
CopiedIsThere ==
  budget.paid = 0 =>
    /\ job.pc = "copy" => \A m \in Members \ job.todo : tree["payload"].at[m].text = 0
    /\ job.pc = "mark" => \A m \in Members : tree["payload"].at[m].text = 0

StagingInv ==
  /\ StagingTypeOK /\ FramesAreGiven /\ SeenInOrder /\ CopiedIsThere
  /\ AdmittedIsSnapshot /\ StagedFromOneSource /\ MarkerMeansWhole

-----------------------------------------------------------------------------

\* A tree for each of the two names.
LEMMA BothTrees ==
  ASSUME NEW S, NEW A \in S, NEW B \in S
  PROVE  [source |-> A, payload |-> B] \in [Trees -> S]
BY DEF Trees

\* One member of one tree gets a new frame, and the directory maybe too.
Placed(f, t, m, text, n, d) ==
  [f EXCEPT ![t].at[m] = [text |-> text, frame |-> n], ![t].dir = d]

OneMember(g, f, t, m, text, n) ==
  /\ g \in [Trees -> Tree]
  /\ g[t].at[m].text = text /\ g[t].at[m].frame = n
  /\ \A k \in Members \ {m} : g[t].at[k] = f[t].at[k]
  /\ g[t].marker = f[t].marker
  /\ \A u \in Trees \ {t} : g[u] = f[u]

LEMMA MemberPlaced ==
  ASSUME NEW f \in [Trees -> Tree], NEW t \in Trees, NEW m \in Members,
         NEW text \in {0, 1, Absent}, NEW n \in Nat, NEW d \in Nat
  PROVE  OneMember(Placed(f, t, m, text, n, d), f, t, m, text, n)
<1> DEFINE new == [text |-> text, frame |-> n]
           mid == [f EXCEPT ![t].at[m] = new]
           at == [f[t].at EXCEPT ![m] = new]
           g == Placed(f, t, m, text, n, d)
<1>1. f[t] \in Tree /\ f[t].at \in Listing
  BY DEF Tree
<1>2. at \in Listing /\ at[m] = new /\ \A k \in Members \ {m} : at[k] = f[t].at[k]
  BY <1>1 DEF Listing
<1>3. mid[t] = [f[t] EXCEPT !.at = at]
  OBVIOUS
<1> HIDE DEF at
<1>4. mid[t] \in Tree /\ mid[t].at = at /\ mid[t].marker = f[t].marker
  BY <1>1, <1>2, <1>3 DEF Tree
<1>5. mid \in [Trees -> Tree] /\ \A u \in Trees \ {t} : mid[u] = f[u]
  BY <1>4
<1>6. g = [mid EXCEPT ![t].dir = d]
  BY DEF Placed
<1> HIDE DEF mid, g
<1>7. g[t] = [mid[t] EXCEPT !.dir = d] /\ \A u \in Trees \ {t} : g[u] = mid[u]
  BY <1>5, <1>6
<1>8. g[t] \in Tree /\ g[t].at = at /\ g[t].marker = f[t].marker
  BY <1>4, <1>7 DEF Tree
<1>9. g \in [Trees -> Tree]
  BY <1>5, <1>6, <1>8
<1>10. g[t].at[m].text = text /\ g[t].at[m].frame = n
  BY <1>2, <1>8
<1>11. \A k \in Members \ {m} : g[t].at[k] = f[t].at[k]
  BY <1>2, <1>8
<1>12. \A u \in Trees \ {t} : g[u] = f[u]
  BY <1>5, <1>7
<1> QED
  BY <1>8, <1>9, <1>10, <1>11, <1>12 DEF g, OneMember

\* A directory changes, or the marker is written; the members stay.
LEMMA DirectoryChanged ==
  ASSUME NEW f \in [Trees -> Tree], NEW t \in Trees, NEW d \in Nat
  PROVE  /\ [f EXCEPT ![t].dir = d] \in [Trees -> Tree]
         /\ [f EXCEPT ![t].extra = TRUE, ![t].dir = d] \in [Trees -> Tree]
         /\ [f EXCEPT ![t].marker = TRUE] \in [Trees -> Tree]
<1>1. f[t] \in Tree
  OBVIOUS
<1>2. /\ [f[t] EXCEPT !.dir = d] \in Tree
      /\ [f[t] EXCEPT !.extra = TRUE, !.dir = d] \in Tree
      /\ [f[t] EXCEPT !.marker = TRUE] \in Tree
  BY <1>1 DEF Tree
<1> QED BY <1>2

LEMMA ChangedMember ==
  ASSUME StagingTypeOK, NEW t \in Trees, NEW m \in Members, ChangeMember(t, m)
  PROVE  \E text \in {0, 1, Absent}, d \in Nat :
           tree' = Placed(tree, t, m, text, last + 1, d)
<1>1. PICK text \in {0, 1, Absent}, replaced \in BOOLEAN :
        tree' = [tree EXCEPT ![t].at[m] = [text |-> text, frame |-> last + 1],
                             ![t].dir = IF replaced THEN last + 1 ELSE @]
  BY DEF ChangeMember
<1>2. tree[t] \in Tree /\ tree[t].dir \in Nat /\ last + 1 \in Nat
  BY DEF StagingTypeOK, Tree
<1>3. tree' = [tree EXCEPT ![t].at[m] = [text |-> text, frame |-> last + 1],
                           ![t].dir = IF replaced THEN last + 1 ELSE tree[t].dir]
  BY <1>1, <1>2 DEF StagingTypeOK, Tree
<1> QED BY <1>2, <1>3 DEF Placed

\* A copy is made, or the staging fails and copies nothing.
LEMMA CopiedMember ==
  ASSUME StagingTypeOK, NEW m \in Members, CopyMember(m)
  PROVE  \/ /\ tree' = Placed(tree, "payload", m, 0, last + 1, last + 1) /\ last' = last + 1
            /\ job' = Onto(AfterCopy(m), job.todo \ {m})
         \/ tree' = tree /\ last' = last /\ job' = JobFails
BY DEF CopyMember, Placed, Need

LEMMA BudgetSpent ==
  ASSUME StagingTypeOK, NEW n \in {0, 1}
  PROVE  /\ [budget EXCEPT !.changes = @ + 1, !.paid = @ + n]
              \in [changes : Nat, runs : Nat, paid : Nat]
         /\ [budget EXCEPT !.changes = @ + 1, !.paid = @ + n].paid = budget.paid + n
<1>1. /\ budget \in [changes : Nat, runs : Nat, paid : Nat]
      /\ budget.changes + 1 \in Nat /\ budget.paid + n \in Nat
  BY DEF StagingTypeOK
<1> QED BY <1>1

LEMMA StagingInvInit == RuntimeInit => StagingInv
<1> SUFFICES ASSUME RuntimeInit PROVE StagingInv
  OBVIOUS
<1>1. NoFrames \in Frames /\ NoFrames \in [Members -> {0, 1, Absent}]
  BY DEF NoFrames, Frames
<1>2. job \in Job /\ job.pc = "idle"
  BY <1>1 DEF RuntimeInit, Idle, Job, Pcs, Trees
<1>3. tree \in [Trees -> Tree]
  <2>1. /\ [m \in Members |-> [text |-> 0, frame |-> 1]] \in Listing
        /\ [m \in Members |-> [text |-> Absent, frame |-> 0]] \in Listing
    BY DEF Listing
  <2>2. /\ [dir |-> 1, extra |-> FALSE, marker |-> FALSE,
           at |-> [m \in Members |-> [text |-> 0, frame |-> 1]]] \in Tree
        /\ [dir |-> 0, extra |-> FALSE, marker |-> FALSE,
           at |-> [m \in Members |-> [text |-> Absent, frame |-> 0]]] \in Tree
    BY <2>1 DEF Tree
  <2> QED BY <2>2, BothTrees DEF RuntimeInit
<1>4. StagingTypeOK
  BY <1>1, <1>2, <1>3 DEF RuntimeInit, StagingTypeOK
<1>5. FramesAreGiven
  BY DEF RuntimeInit, FramesAreGiven, Trees
<1>6. MarkerMeansWhole
  BY DEF RuntimeInit, MarkerMeansWhole
<1> QED
  BY <1>2, <1>4, <1>5, <1>6 DEF StagingInv, SeenInOrder, Admitting, CopiedIsThere,
     AdmittedIsSnapshot, StagedFromOneSource

\* What the steps of a build leave of its record.
LEMMA StagingTypeNext == StagingTypeOK /\ [RuntimeNext]_runtimeVars => StagingTypeOK'
<1> SUFFICES ASSUME StagingTypeOK, [RuntimeNext]_runtimeVars PROVE StagingTypeOK'
  OBVIOUS
<1> USE DEF StagingTypeOK
<1>0. /\ last + 1 \in Nat /\ JobFails \in Job /\ On \in Tree
      /\ NoFrames \in Frames /\ NoFrames \in [Members -> {0, 1, Absent}]
  BY DEF Job, JobFails, Pcs, On, Trees, NoFrames, Frames
<1>1. ASSUME NEW t \in Trees, NEW m \in Members, ChangeMember(t, m) PROVE StagingTypeOK'
  <2>1. PICK text \in {0, 1, Absent}, d \in Nat :
          tree' = Placed(tree, t, m, text, last + 1, d)
    BY <1>0, <1>1, ChangedMember
  <2>2. OneMember(tree', tree, t, m, text, last + 1)
    BY <1>0, <2>1, MemberPlaced
  <2> QED BY <1>0, <1>1, <2>2, BudgetSpent DEF ChangeMember, MayChange, OneMember
<1>2. ASSUME NEW t \in Trees, AddMember(t) PROVE StagingTypeOK'
  BY <1>0, <1>2, DirectoryChanged, BudgetSpent DEF AddMember, MayChange
<1>3. CASE ChangeInput
  BY <1>0, <1>3 DEF ChangeInput, MayChange
<1>4. CASE AdmitNames
  BY <1>0, <1>4 DEF AdmitNames, Need, Onto, Quiet, Job, Pcs, Admitting, Tree
<1>5. ASSUME NEW m \in Members, AdmitMetadata(m) PROVE StagingTypeOK'
  BY <1>0, <1>5 DEF AdmitMetadata, Need, Onto, Quiet, Job, Pcs, Admitting, Tree, Listing, Frames, Members
<1>6. ASSUME NEW m \in Members, ReadBody(m) PROVE StagingTypeOK'
  BY <1>0, <1>6 DEF ReadBody, Need, Onto, Quiet, Job, Pcs, Admitting, Tree, Listing, Frames
<1>7. ASSUME NEW m \in Members, Recheck(m) PROVE StagingTypeOK'
  BY <1>0, <1>7 DEF Recheck, Need, Onto, Quiet, Job, Pcs, Admitting
<1>8. ASSUME NEW m \in Members, CopyMember(m) PROVE StagingTypeOK'
  <2>1. Onto(AfterCopy(m), job.todo \ {m}) \in Job
    BY DEF AfterCopy, Onto, Job, Pcs
  <2>2. Placed(tree, "payload", m, 0, last + 1, last + 1) \in [Trees -> Tree]
    <3>1. OneMember(Placed(tree, "payload", m, 0, last + 1, last + 1), tree, "payload", m, 0, last + 1)
      BY <1>0, MemberPlaced DEF Trees
    <3> QED BY <3>1 DEF OneMember
  <2> QED BY <1>0, <1>8, <2>1, <2>2, CopiedMember DEF CopyMember
<1>9. CASE RecheckDirectory
  BY <1>0, <1>9 DEF RecheckDirectory, Quiet
<1>10. CASE Authenticate
  <2>1. Idle \in Job
    BY <1>0 DEF Idle, Job, Pcs, Trees
  <2>2. [Idle EXCEPT !.pc = "list", !.authInput = input, !.stage = "capture"] \in Job
    BY <2>1 DEF Job, Pcs, Admitting
  <2>3. [budget EXCEPT !.runs = @ + 1] \in [changes : Nat, runs : Nat, paid : Nat]
    OBVIOUS
  <2> QED BY <1>10, <2>2, <2>3 DEF Authenticate
<1>11. CASE Captured
  BY <1>0, <1>11 DEF Captured, Need, Quiet, Job, Pcs
<1>12. CASE RefuseExisting
  <2>1. Onto("copy", Members) \in Job
    BY DEF Onto, Job, Pcs
  <2>2. [tree EXCEPT !["payload"].dir = last + 1] \in [Trees -> Tree]
    BY <1>0, DirectoryChanged DEF Trees
  <2> QED BY <1>0, <1>12, <2>1, <2>2 DEF RefuseExisting
<1>13. CASE WriteMarker
  BY <1>0, <1>13, DirectoryChanged DEF WriteMarker, Admission, Job, Pcs, Admitting, Trees
<1>14. CASE Inventoried
  BY <1>0, <1>14 DEF Inventoried, Need, Admission, Quiet, Job, Pcs, Admitting, Trees
<1>15. CASE Verified
  BY <1>0, <1>15 DEF Verified, Need, Onto, Quiet, Job, Pcs
<1>16. CASE Kill
  BY <1>0, <1>16 DEF Kill, Job, Pcs
<1>17. CASE UNCHANGED runtimeVars
  BY <1>17 DEF runtimeVars
<1> QED
  BY <1>1, <1>2, <1>3, <1>4, <1>5, <1>6, <1>7, <1>8, <1>9, <1>10, <1>11, <1>12, <1>13, <1>14,
     <1>15, <1>16, <1>17 DEF RuntimeNext
-----------------------------------------------------------------------------

\* Whoever changes a member, its frame only grows.
LEMMA FramesGrow ==
  ASSUME StagingTypeOK, FramesAreGiven, [RuntimeNext]_runtimeVars
  PROVE  /\ FramesAreGiven'
         /\ \A t \in Trees : \A m \in Members :
              tree[t].at[m].frame <= tree'[t].at[m].frame
<1> DEFINE Grow == \A t \in Trees : \A m \in Members :
                     tree[t].at[m].frame <= tree'[t].at[m].frame
<1>0. /\ last \in Nat /\ last + 1 \in Nat
      /\ \A t \in Trees : \A m \in Members : tree[t].at[m].frame \in Nat
  BY DEF StagingTypeOK, Tree, Listing
<1>1. ASSUME \A t \in Trees : \A m \in Members : tree'[t].at[m] = tree[t].at[m],
             last' \in {last, last + 1}
      PROVE  FramesAreGiven' /\ Grow
  BY <1>0, <1>1 DEF FramesAreGiven
<1>2. ASSUME NEW t \in Trees, NEW m \in Members, last' = last + 1,
             NEW text \in {0, 1, Absent}, NEW d \in Nat,
             tree' = Placed(tree, t, m, text, last + 1, d)
      PROVE  FramesAreGiven' /\ Grow
  <2>1. /\ tree'[t].at[m].frame = last + 1
        /\ \A k \in Members \ {m} : tree'[t].at[k] = tree[t].at[k]
        /\ \A u \in Trees \ {t} : tree'[u] = tree[u]
    <3>1. OneMember(tree', tree, t, m, text, last + 1)
      BY <1>0, <1>2, MemberPlaced DEF StagingTypeOK
    <3> QED BY <3>1 DEF OneMember
  <2>2. \A u \in Trees : \A k \in Members :
          /\ tree'[u].at[k].frame <= last + 1
          /\ tree[u].at[k].frame <= tree'[u].at[k].frame
    BY <1>0, <2>1 DEF FramesAreGiven
  <2> QED BY <1>2, <2>2 DEF FramesAreGiven
<1>3. ASSUME NEW t \in Trees, NEW m \in Members, ChangeMember(t, m) PROVE FramesAreGiven' /\ Grow
  <2>1. PICK text \in {0, 1, Absent}, d \in Nat : tree' = Placed(tree, t, m, text, last + 1, d)
    BY <1>3, ChangedMember
  <2>2. last' = last + 1
    BY <1>3 DEF ChangeMember, MayChange
  <2> QED BY <1>2, <2>1, <2>2
<1>4. ASSUME NEW t \in Trees, AddMember(t) PROVE FramesAreGiven' /\ Grow
  BY <1>1, <1>4 DEF AddMember, MayChange, StagingTypeOK, Tree
<1>5. ASSUME NEW m \in Members, CopyMember(m) PROVE FramesAreGiven' /\ Grow
  BY <1>0, <1>1, <1>2, <1>5, CopiedMember DEF Trees
<1>6. CASE RefuseExisting
  BY <1>1, <1>6 DEF RefuseExisting, StagingTypeOK, Tree, Trees
<1>7. CASE WriteMarker
  BY <1>1, <1>7 DEF WriteMarker, StagingTypeOK, Tree, Trees
<1>8. CASE ChangeInput \/ UNCHANGED <<tree, last>>
  BY <1>1, <1>8 DEF ChangeInput, MayChange
<1> QED
  BY <1>3, <1>4, <1>5, <1>6, <1>7, <1>8
     DEF RuntimeNext, runtimeVars, AdmitNames, AdmitMetadata, ReadBody, Recheck, RecheckDirectory, Authenticate,
         Captured, Inventoried, Verified, Kill, Quiet

\* The order is kept by every step of an admission, and a last recheck makes it a snapshot.
LEMMA SnapshotsNext ==
  ASSUME StagingInv, [RuntimeNext]_runtimeVars
  PROVE  SeenInOrder' /\ AdmittedIsSnapshot' /\ StagedFromOneSource'
<1> DEFINE Snapshots == SeenInOrder /\ AdmittedIsSnapshot /\ StagedFromOneSource
<1>0. /\ \A t \in Trees : \A m \in Members :
           /\ tree[t].at[m].frame \in Nat /\ tree'[t].at[m].frame \in Nat
           /\ tree[t].at[m].frame <= tree'[t].at[m].frame
      /\ \A m \in Members : job.meta[m] \in Nat /\ ghost[m] \in Nat
      /\ job \in Job /\ job.on \in Trees /\ job.meta \in Frames /\ ghost \in Frames
  BY FramesGrow, StagingTypeNext DEF StagingInv, StagingTypeOK, Tree, Listing, Job, Frames
<1>1. ASSUME job' = job, ghost' = ghost PROVE Snapshots'
  BY <1>0, <1>1 DEF StagingInv, SeenInOrder, AdmittedIsSnapshot, StagedFromOneSource, On, Admitting,
     Declared
<1>2. ASSUME job'.pc \notin Admitting \cup {"admitted", "done"} PROVE Snapshots'
  BY <1>2 DEF SeenInOrder, AdmittedIsSnapshot, StagedFromOneSource, Admitting
<1>3. ASSUME job'.pc = "list", job'.meta = NoFrames, job'.on \in Trees PROVE Snapshots'
  BY <1>0, <1>3 DEF SeenInOrder, AdmittedIsSnapshot, StagedFromOneSource, Admitting, NoFrames, On
<1>4. job' = JobFails => Snapshots'
  BY <1>0, <1>2 DEF JobFails, Job, Admitting
<1>5. CASE AdmitNames
  <2>1. CASE job' = [Onto("meta", Members) EXCEPT !.dir = On.dir]
    <3>1. job'.pc = "meta" /\ job'.meta = job.meta /\ job'.on = job.on /\ tree' = tree
      BY <1>0, <1>5, <2>1 DEF AdmitNames, Onto, Job, Quiet
    <3> QED BY <1>0, <1>5, <3>1 DEF AdmitNames, StagingInv, SeenInOrder, AdmittedIsSnapshot,
               StagedFromOneSource, On, Admitting
  <2> QED BY <1>4, <1>5, <2>1 DEF AdmitNames, Need
<1>6. ASSUME NEW m \in Members, AdmitMetadata(m) PROVE Snapshots'
  <2>1. CASE job' # JobFails
    <3>1. /\ job'.pc \in {"meta", "body"} /\ job'.on = job.on /\ tree' = tree
          /\ job'.meta = [job.meta EXCEPT ![m] = On.at[m].frame]
      BY <1>0, <1>6, <2>1 DEF AdmitMetadata, Need, Onto, Job, Quiet
    <3>2. \A k \in Members : job'.meta[k] <= On.at[k].frame
      BY <1>0, <1>6, <3>1 DEF AdmitMetadata, StagingInv, SeenInOrder, Admitting, Frames, On
    <3> QED BY <3>1, <3>2 DEF SeenInOrder, AdmittedIsSnapshot, StagedFromOneSource, On, Admitting
  <2> QED BY <1>4, <2>1
<1>7. ASSUME NEW m \in Members, ReadBody(m) PROVE Snapshots'
  <2>1. CASE job' # JobFails
    <3>1. /\ job'.pc \in {"body", "again"} /\ job'.on = job.on /\ job'.meta = job.meta
          /\ tree' = tree /\ ghost' = [n \in Members |-> On.at[n].frame]
          /\ job'.pc = "again" => job'.todo = Members
      BY <1>0, <1>7, <2>1 DEF ReadBody, Need, Onto, Job, Quiet
    <3>2. \A k \in Members : job'.meta[k] <= On.at[k].frame /\ ghost'[k] = On.at[k].frame
      BY <1>0, <1>7, <3>1 DEF ReadBody, StagingInv, SeenInOrder, Admitting
    <3> QED BY <1>0, <3>1, <3>2
            DEF SeenInOrder, AdmittedIsSnapshot, StagedFromOneSource, On, Admitting
  <2> QED BY <1>4, <2>1
<1>8. ASSUME NEW m \in Members, Recheck(m) PROVE Snapshots'
  <2>1. CASE job' # JobFails
    <3>1. /\ On.at[m].frame = job.meta[m] /\ job.pc = "again" /\ m \in job.todo
          /\ job'.pc = IF job.todo = {m} THEN "admitted" ELSE "again"
          /\ job'.on = job.on /\ job'.meta = job.meta /\ job'.todo = job.todo \ {m}
          /\ tree' = tree /\ ghost' = ghost
      BY <1>0, <1>8, <2>1 DEF Recheck, Need, Onto, Unchanged, Job, Quiet
    <3>2. ghost[m] = job.meta[m]
      BY <1>0, <3>1 DEF StagingInv, SeenInOrder, On
    <3>3. \A k \in Members : k \notin job'.todo => ghost[k] = job.meta[k]
      BY <3>1, <3>2 DEF StagingInv, SeenInOrder
    <3>4. job'.pc = "admitted" => ghost = job.meta
      BY <1>0, <3>1, <3>3 DEF Frames
    <3> QED BY <3>1, <3>3, <3>4
            DEF StagingInv, SeenInOrder, AdmittedIsSnapshot, StagedFromOneSource, On, Admitting
  <2> QED BY <1>4, <2>1
<1>9. CASE Verified
  <2>1. CASE job' = Onto("done", {}) /\ SameSource
    BY <1>0, <1>9, <2>1 DEF Verified, SameSource, Declared, Onto, Job, Quiet, StagingInv, SeenInOrder,
       AdmittedIsSnapshot, StagedFromOneSource, Admitting
  <2> QED BY <1>4, <1>9, <2>1 DEF Verified, Need
<1>10. CASE Authenticate
  BY <1>0, <1>3, <1>10 DEF Authenticate, Idle, Trees
<1>11. CASE WriteMarker
  BY <1>0, <1>3, <1>11 DEF WriteMarker, Admission, Job, Trees
<1>12. CASE Inventoried
  BY <1>0, <1>3, <1>4, <1>12 DEF Inventoried, Need, Admission, Job, Trees
<1>13. CASE Captured
  BY <1>0, <1>2, <1>4, <1>13 DEF Captured, Need, Job, Admitting
<1>14. CASE RefuseExisting
  BY <1>0, <1>2, <1>4, <1>14 DEF RefuseExisting, Onto, Job, Admitting
<1>15. ASSUME NEW m \in Members, CopyMember(m) PROVE Snapshots'
  BY <1>0, <1>2, <1>4, <1>15 DEF CopyMember, AfterCopy, Need, Onto, Job, Admitting
<1>16. CASE Kill
  BY <1>0, <1>2, <1>16 DEF Kill, Job, Admitting
<1>17. CASE RecheckDirectory
  BY <1>4, <1>17 DEF RecheckDirectory
<1>18. CASE UNCHANGED <<job, ghost>>
  BY <1>1, <1>18
<1> QED
  BY <1>5, <1>6, <1>7, <1>8, <1>9, <1>10, <1>11, <1>12, <1>13, <1>14, <1>15, <1>16, <1>17, <1>18
     DEF RuntimeNext, runtimeVars, ChangeMember, AddMember, ChangeInput

\* What is copied stays, and the marker is written over a whole copy.
LEMMA MarkerNext ==
  ASSUME StagingInv, [RuntimeNext]_runtimeVars
  PROVE  CopiedIsThere' /\ MarkerMeansWhole'
<1> DEFINE Marked == CopiedIsThere /\ MarkerMeansWhole
           At(m) == tree["payload"].at[m].text
           Kept == /\ \A m \in Members : tree'["payload"].at[m] = tree["payload"].at[m]
                   /\ tree'["payload"].marker = tree["payload"].marker
                   /\ budget'.paid = budget.paid
<1>0. job \in Job /\ last + 1 \in Nat /\ tree \in [Trees -> Tree] /\ budget.paid \in Nat
  BY DEF StagingInv, StagingTypeOK
<1>1. ASSUME Kept, job'.pc \notin {"copy", "mark"} \/ job' = job PROVE Marked'
  BY <1>1 DEF StagingInv, CopiedIsThere, MarkerMeansWhole
<1>2. ASSUME budget'.paid = budget.paid + 1 PROVE Marked'
  BY <1>0, <1>2 DEF CopiedIsThere, MarkerMeansWhole
<1>3. ASSUME NEW t \in Trees, NEW m \in Members, ChangeMember(t, m) PROVE Marked'
  <2>1. PICK text \in {0, 1, Absent}, d \in Nat : tree' = Placed(tree, t, m, text, last + 1, d)
    BY <1>3, ChangedMember DEF StagingInv
  <2>2. CASE t = "source"
    <3>0. OneMember(tree', tree, t, m, text, last + 1)
      BY <1>0, <2>1, MemberPlaced
    <3>1. tree'["payload"] = tree["payload"]
      BY <2>2, <3>0 DEF OneMember, Trees
    <3>2. budget'.paid = budget.paid /\ job' = job
      BY <1>0, <1>3, <2>2, BudgetSpent DEF ChangeMember, StagingInv
    <3> QED BY <1>1, <3>1, <3>2
  <2>3. CASE t = "payload"
    BY <1>2, <1>3, <2>3, BudgetSpent DEF ChangeMember, StagingInv
  <2> QED BY <2>2, <2>3 DEF Trees
<1>4. ASSUME NEW t \in Trees, AddMember(t) PROVE Marked'
  <2>1. CASE t = "source"
    <3>1. tree'["payload"] = tree["payload"]
      BY <1>0, <1>4, <2>1 DEF AddMember, Trees
    <3>2. budget'.paid = budget.paid /\ job' = job
      BY <1>0, <1>4, <2>1, BudgetSpent DEF AddMember, StagingInv
    <3> QED BY <1>1, <3>1, <3>2
  <2>2. CASE t = "payload"
    BY <1>2, <1>4, <2>2, BudgetSpent DEF AddMember, StagingInv
  <2> QED BY <2>1, <2>2 DEF Trees
<1>5. ASSUME NEW m \in Members, CopyMember(m) PROVE Marked'
  <2>0. budget' = budget /\ job.pc = "copy" /\ m \in job.todo
    BY <1>5 DEF CopyMember
  <2>1. CASE tree' = tree /\ job' = JobFails
    BY <1>0, <1>1, <2>0, <2>1 DEF JobFails, Job
  <2>2. CASE /\ tree' = Placed(tree, "payload", m, 0, last + 1, last + 1)
             /\ job' = Onto(AfterCopy(m), job.todo \ {m})
    <3>0. OneMember(tree', tree, "payload", m, 0, last + 1)
      BY <1>0, <2>2, MemberPlaced DEF Trees
    <3>1. /\ At(m)' = 0 /\ \A k \in Members \ {m} : At(k)' = At(k)
          /\ tree'["payload"].marker = tree["payload"].marker
      BY <3>0 DEF OneMember
    <3>2. job'.todo = job.todo \ {m} /\ (job'.pc = "mark" => job.todo = {m})
      BY <1>0, <2>2 DEF Onto, AfterCopy, Job
    <3> HIDE DEF At
    <3>3. budget.paid = 0 => \A k \in Members \ job'.todo : At(k)' = 0
      BY <2>0, <3>1, <3>2 DEF StagingInv, CopiedIsThere, At
    <3>4. tree["payload"].marker /\ budget.paid = 0 => \A k \in Members : At(k)' = 0
      BY <3>1 DEF StagingInv, MarkerMeansWhole, At
    <3> QED BY <2>0, <3>1, <3>2, <3>3, <3>4 DEF CopiedIsThere, MarkerMeansWhole, At
  <2> QED BY <1>5, <2>1, <2>2, CopiedMember DEF StagingInv
<1>6. CASE RefuseExisting
  <2>1. Kept
    BY <1>0, <1>6 DEF RefuseExisting, Trees, Tree
  <2>2. job'.pc \notin {"copy", "mark"} \/ (job'.pc = "copy" /\ job'.todo = Members)
    <3>1. JobFails.pc = "failed"
      BY <1>0 DEF JobFails, Job
    <3>2. Onto("copy", Members).pc = "copy" /\ Onto("copy", Members).todo = Members
      BY <1>0 DEF Onto, Job
    <3> QED BY <1>6, <3>1, <3>2 DEF RefuseExisting
  <2> QED BY <2>1, <2>2 DEF StagingInv, CopiedIsThere, MarkerMeansWhole
<1>7. CASE WriteMarker
  <2>1. /\ \A m \in Members : tree'["payload"].at[m] = tree["payload"].at[m]
        /\ budget' = budget /\ job'.pc = "list" /\ job.pc = "mark"
    BY <1>0, <1>7 DEF WriteMarker, Admission, Trees, Tree, Job
  <2> QED BY <2>1 DEF StagingInv, CopiedIsThere, MarkerMeansWhole
<1>8. ASSUME UNCHANGED tree, budget'.paid = budget.paid,
             job' = job \/ job'.pc \notin {"copy", "mark"}
      PROVE  Marked'
  BY <1>1, <1>8
<1>9. CASE ChangeInput
  BY <1>0, <1>8, <1>9 DEF ChangeInput, StagingInv, StagingTypeOK
<1>10. CASE Authenticate
  BY <1>0, <1>8, <1>10 DEF Authenticate, Idle, StagingInv, StagingTypeOK
<1>11. CASE Kill
  BY <1>0, <1>8, <1>11 DEF Kill, Job, StagingInv, StagingTypeOK
<1>12. CASE AdmitNames \/ RecheckDirectory \/ Captured \/ Inventoried \/ Verified
  BY <1>0, <1>8, <1>12 DEF AdmitNames, RecheckDirectory, Captured, Inventoried, Verified, Need, JobFails,
     Onto, Admission, Quiet, Job
<1>13. ASSUME NEW m \in Members, AdmitMetadata(m) \/ ReadBody(m) \/ Recheck(m) PROVE Marked'
  BY <1>0, <1>8, <1>13 DEF AdmitMetadata, ReadBody, Recheck, Need, JobFails, Onto, Quiet, Job
<1>14. CASE UNCHANGED runtimeVars
  BY <1>8, <1>14 DEF runtimeVars
<1> QED
  BY <1>3, <1>4, <1>5, <1>6, <1>7, <1>9, <1>10, <1>11, <1>12, <1>13, <1>14 DEF RuntimeNext

LEMMA StagingInvAlways == RuntimeSpec => []StagingInv
<1>1. StagingInv /\ [RuntimeNext]_runtimeVars => StagingInv'
  BY StagingTypeNext, FramesGrow, SnapshotsNext, MarkerNext DEF StagingInv
<1> QED BY StagingInvInit, <1>1, PTL DEF RuntimeSpec

-----------------------------------------------------------------------------
\* An admission reports one moment of its tree, and a staging that succeeds had one source,
\* for any members and whatever other processes change meanwhile (admitRuntimeNamespace,
\* verifyRuntimeSourceSnapshot).
THEOREM StagingSnapshots == RuntimeSpec => []RuntimeSnapshots
<1>1. StagingInv => RuntimeSnapshots
  BY DEF StagingInv, RuntimeSnapshots
<1> QED BY StagingInvAlways, <1>1, PTL

\* native-runtime.json stands only beside the whole runtime, wherever a staging fails or is
\* killed, until another process touches the payload (stageNativeRuntime).
THEOREM StagingMarker == RuntimeSpec => []MarkerMeansWhole
<1>1. StagingInv => MarkerMeansWhole
  BY DEF StagingInv
<1> QED BY StagingInvAlways, <1>1, PTL

-----------------------------------------------------------------------------
(***************************************************************************)
(* The adopted Node runtime.                                               *)
(*                                                                         *)
(* Proofs about NodeAdoption, for any builds, files and other programs.  A *)
(* build owns what it has created, because nobody unlinks a name but the   *)
(* build that made it; so undoing its list undoes all it did but a copy    *)
(* that it could not fill, which is not in the list.  As long as nobody    *)
(* undoes, a file that was found authentic stays.                          *)
(***************************************************************************)

\* A name holds no file or a file somebody made, and there is a first name to adopt.
SomeFile == [who : Builds \cup {Others}, good : BOOLEAN]
NamesAreFiles ==
  Entries \in Seq(Names) /\ Len(Entries) >= 1 /\ NoFile \notin SomeFile /\ Others \notin Builds

BuildPcs == {"idle", "verify", "place", "copy", "check", "undo", "failed", "done"}

AdoptionState == [pc : BuildPcs, next : 1..Len(Entries), created : Seq(Names),
                  how : {NoFile, "link", "copy"}]

AdoptionTypeOK ==
  /\ final \in [Names -> SomeFile \cup {NoFile}]
  /\ build \in [Builds -> AdoptionState]
  /\ others \in Nat

\* The file of its own that a build in state s has not listed: the copy it is filling, or
\* was when it failed.
Partial(s, f, n) == s.pc \in {"copy", "undo", "failed"} /\ n = Entries[s.next] /\ ~f[n].good

Filling(b, s, f) ==
  s.pc = "copy" =>
    LET n == Entries[s.next]
    IN /\ f[n] # NoFile /\ f[n].who = b /\ ~f[n].good
       /\ \A i \in 1..Len(s.created) : s.created[i] # n

\* What build b, in state s, has created is what it finds of its own at the names, but for
\* a copy that is not filled.
Owns(b, s, f) ==
  /\ \A i \in 1..Len(s.created) : f[s.created[i]] # NoFile /\ f[s.created[i]].who = b
  /\ \A i, j \in 1..Len(s.created) : s.created[i] = s.created[j] => i = j
  /\ \A n \in Names : f[n] # NoFile /\ f[n].who = b =>
       Partial(s, f, n) \/ \E i \in 1..Len(s.created) : s.created[i] = n
  /\ Filling(b, s, f)
  /\ s.pc \in {"idle", "verify", "failed"} => s.created = <<>>

BuildsOwn == \A b \in Builds : Owns(b, build[b], final)

NobodyUndoes == \A b \in Builds : build[b].pc \notin {"undo", "failed"}

\* What build b, in state s, has passed is authentic.
Passed(s, f) ==
  /\ \A i \in 1..Len(Entries) : i < s.next => Genuine(f[Entries[i]])
  /\ s.pc = "done" => \A i \in 1..Len(Entries) : Genuine(f[Entries[i]])

AdoptionInv ==
  /\ AdoptionTypeOK
  /\ BuildsOwn
  /\ NobodyUndoes => \A b \in Builds : Passed(build[b], final)

LEMMA AdoptionInvInit ==
  ASSUME NamesAreFiles, NodeInit
  PROVE  AdoptionInv
<1>1. /\ File(Others, TRUE) \in SomeFile /\ File(Others, FALSE) \in SomeFile
      /\ File(Others, TRUE).who = Others /\ File(Others, FALSE).who = Others
  BY DEF File, SomeFile
<1>2. /\ <<>> \in Seq(Names) /\ Len(<<>>) = 0 /\ 1 \in 1..Len(Entries)
  BY DEF NamesAreFiles
<1>3. AdoptionTypeOK
  BY <1>1, <1>2 DEF NodeInit, AdoptionTypeOK, AdoptionState, BuildPcs
<1>4. BuildsOwn
  <2> SUFFICES ASSUME NEW b \in Builds PROVE Owns(b, build[b], final)
    BY DEF BuildsOwn
  <2>1. build[b].created = <<>> /\ \A i \in 1..Len(build[b].created) : FALSE
    BY <1>2 DEF NodeInit
  <2>2. \A n \in Names : final[n] # NoFile => final[n].who # b
    BY <1>1 DEF NodeInit, NamesAreFiles
  <2>3. build[b].pc = "idle"
    BY DEF NodeInit
  <2> QED BY <2>1, <2>2, <2>3 DEF Owns, Filling
<1>5. \A b \in Builds : Passed(build[b], final)
  BY DEF NodeInit, Passed
<1> QED BY <1>3, <1>4, <1>5 DEF AdoptionInv

\* The entry a build is at is a name, and every name is an entry.
LEMMA EntriesAreNames ==
  ASSUME NamesAreFiles, AdoptionTypeOK
  PROVE  /\ \A b \in Builds : Entry(b) \in Names
         /\ \A n \in Names : \E i \in 1..Len(Entries) : n = Entries[i]
<1>1. DOMAIN Entries = 1..Len(Entries)
  BY DEF NamesAreFiles
<1>2. \A b \in Builds : build[b].next \in 1..Len(Entries)
  BY DEF AdoptionTypeOK, AdoptionState
<1>3. \A b \in Builds : Entry(b) \in Names
  BY <1>1, <1>2 DEF Entry, Names
<1>4. \A n \in Names : \E i \in 1..Len(Entries) : n = Entries[i]
  BY <1>1 DEF Names
<1> QED BY <1>3, <1>4

\* A build goes on and the names stay.
LEMMA BuildGoes ==
  ASSUME NamesAreFiles, AdoptionInv, NEW b \in Builds,
         NEW new \in AdoptionState,
         Set(b, new), UNCHANGED <<final, others>>, new.created = build[b].created,
         new.pc \in {"idle", "verify", "failed"} => new.created = <<>>,
         build[b].pc \in {"copy", "undo", "failed"} =>
           new.pc \in {"undo", "failed"} /\ new.next = build[b].next,
         new.pc # "copy",
         NobodyUndoes /\ new.pc \notin {"undo", "failed"} => Passed(new, final)
  PROVE  AdoptionInv'
<1>1. build'[b] = new /\ \A c \in Builds \ {b} : build'[c] = build[c]
  BY DEF AdoptionInv, AdoptionTypeOK, Set
<1>2. AdoptionTypeOK'
  BY DEF AdoptionInv, AdoptionTypeOK, Set
<1>3. BuildsOwn'
  <2>1. Owns(b, new, final)
    <3>1. Owns(b, build[b], final)
      BY DEF AdoptionInv, BuildsOwn
    <3>2. \A n \in Names : Partial(build[b], final, n) => Partial(new, final, n)
      BY DEF Partial
    <3> QED BY <3>1, <3>2 DEF Owns, Filling
  <2>2. \A c \in Builds \ {b} : Owns(c, build'[c], final)
    BY <1>1 DEF AdoptionInv, BuildsOwn
  <2> QED BY <1>1, <2>1, <2>2 DEF BuildsOwn
<1>4. NobodyUndoes' => \A c \in Builds : Passed(build'[c], final')
  <2> SUFFICES ASSUME NobodyUndoes' PROVE \A c \in Builds : Passed(build'[c], final)
    OBVIOUS
  <2>1. NobodyUndoes /\ new.pc \notin {"undo", "failed"}
    BY <1>1 DEF NobodyUndoes
  <2> QED BY <1>1, <2>1 DEF AdoptionInv
<1> QED BY <1>2, <1>3, <1>4 DEF AdoptionInv

\* No other build is disturbed by a change of a file that it does not own and does not get.
LEMMA OthersOwn ==
  ASSUME NamesAreFiles, AdoptionInv, NEW n \in Names, NEW c \in Builds,
         final[n] = NoFile \/ final[n].who # c, final'[n] = NoFile \/ final'[n].who # c,
         \A m \in Names \ {n} : final'[m] = final[m]
  PROVE  Owns(c, build[c], final')
<1> DEFINE e == Entries[build[c].next]
<1>1. Owns(c, build[c], final) /\ build[c].created \in Seq(Names)
  BY DEF AdoptionInv, BuildsOwn, AdoptionTypeOK, AdoptionState
<1>2. \A i \in 1..Len(build[c].created) : build[c].created[i] \in Names \ {n}
  BY <1>1 DEF Owns
<1>3. \A m \in Names : final'[m] # NoFile /\ final'[m].who = c =>
         final[m] # NoFile /\ final[m].who = c /\ final'[m] = final[m]
  OBVIOUS
<1>4. \A m \in Names : Partial(build[c], final, m) /\ final'[m] = final[m] => Partial(build[c], final', m)
  BY DEF Partial
<1>5. Filling(c, build[c], final')
  <2>1. e \in Names
    BY EntriesAreNames DEF AdoptionInv, Entry
  <2>2. Filling(c, build[c], final)
    BY <1>1 DEF Owns
  <2>3. build[c].pc = "copy" => e # n
    BY <2>2 DEF Filling
  <2> QED BY <2>1, <2>2, <2>3 DEF Filling
<1>6. \A m \in Names : final'[m] # NoFile /\ final'[m].who = c =>
         Partial(build[c], final', m) \/ \E i \in 1..Len(build[c].created) : build[c].created[i] = m
  BY <1>1, <1>3, <1>4 DEF Owns
<1>7. \A i \in 1..Len(build[c].created) :
         final'[build[c].created[i]] # NoFile /\ final'[build[c].created[i]].who = c
  BY <1>1, <1>2 DEF Owns
<1> QED BY <1>1, <1>5, <1>6, <1>7 DEF Owns

\* An entry is linked, or a copy of it filled.
LEMMA AdoptedKeeps ==
  ASSUME NamesAreFiles, AdoptionInv, NEW b \in Builds, NEW how \in {"link", "copy"},
         \/ build[b].pc = "place" /\ final[Entry(b)] = NoFile
         \/ build[b].pc = "copy",
         Adopted(b, how), UNCHANGED others
  PROVE  AdoptionInv'
<1> DEFINE n == Entry(b)
           new == [Into(b, "check") EXCEPT !.created = Append(@, n), !.how = how]
<1>1. /\ final' = [final EXCEPT ![n] = File(b, TRUE)] /\ Set(b, new)
      /\ n \in Names
  BY EntriesAreNames DEF Adopted, AdoptionInv
<1>2. /\ File(b, TRUE) \in SomeFile /\ File(b, TRUE) # NoFile /\ File(b, TRUE).who = b
      /\ Genuine(File(b, TRUE))
  <2>1. File(b, TRUE).who = b /\ File(b, TRUE).good = TRUE
    BY DEF File
  <2>2. File(b, TRUE) \in SomeFile
    BY DEF File, SomeFile
  <2>3. File(b, TRUE) # NoFile
    BY <2>2 DEF NamesAreFiles
  <2> QED BY <2>1, <2>2, <2>3 DEF Genuine
<1>3. /\ build[b] \in AdoptionState
      /\ final \in [Names -> SomeFile \cup {NoFile}]
  BY DEF AdoptionInv, AdoptionTypeOK
<1>4. /\ new.pc = "check" /\ new.next = build[b].next
      /\ new.created = Append(build[b].created, n)
      /\ new \in AdoptionState
  <2>1. Append(build[b].created, n) \in Seq(Names)
    BY <1>1, <1>3 DEF AdoptionState
  <2>2. /\ new.pc = "check" /\ new.next = build[b].next
        /\ new.created = Append(build[b].created, n)
    BY <1>3 DEF Into, AdoptionState
  <2>3. new \in AdoptionState
    BY <1>3, <2>1 DEF Into, AdoptionState, BuildPcs
  <2> QED BY <2>2, <2>3
<1>5. build'[b] = new /\ \A c \in Builds \ {b} : build'[c] = build[c]
  BY <1>1 DEF AdoptionInv, AdoptionTypeOK, Set
<1>6. /\ final'[n] = File(b, TRUE)
      /\ \A m \in Names \ {n} : final'[m] = final[m]
  BY <1>1, <1>3
<1>0. /\ \/ final[n] = NoFile
         \/ final[n].who = b /\ ~Genuine(final[n])
      /\ \A i \in 1..Len(build[b].created) : build[b].created[i] # n
      /\ \A m \in Names : Partial(build[b], final, m) => m = n
  <2>1. Owns(b, build[b], final)
    BY DEF AdoptionInv, BuildsOwn
  <2>2. CASE build[b].pc = "place" /\ final[Entry(b)] = NoFile
    BY <2>1, <2>2 DEF Owns, Partial
  <2>3. CASE build[b].pc = "copy"
    BY <2>1, <2>3 DEF Owns, Filling, Partial, Entry, Genuine
  <2> QED BY <2>2, <2>3
<1> HIDE DEF new, n
<1>7. AdoptionTypeOK'
  BY <1>1, <1>2, <1>4 DEF AdoptionInv, AdoptionTypeOK, Set
<1>8. Owns(b, new, final')
  <2> DEFINE old == build[b].created
  <2>1. /\ old \in Seq(Names) /\ Len(new.created) = Len(old) + 1
        /\ new.created[Len(old) + 1] = n
        /\ \A i \in 1..Len(old) : new.created[i] = old[i] /\ old[i] \in Names
    BY <1>1, <1>3, <1>4 DEF AdoptionState
  <2>2. /\ \A i \in 1..Len(old) : final[old[i]] # NoFile /\ final[old[i]].who = b
        /\ \A i, j \in 1..Len(old) : old[i] = old[j] => i = j
        /\ \A i \in 1..Len(old) : old[i] # n
        /\ \A m \in Names \ {n} : final[m] # NoFile /\ final[m].who = b =>
             \E i \in 1..Len(old) : old[i] = m
    BY <1>0 DEF AdoptionInv, BuildsOwn, Owns
  <2> HIDE DEF old
  <2>3. \A i \in 1..Len(old) : old[i] # n
    BY <2>2
  <2>4. \A i \in 1..Len(new.created) : i \in 1..Len(old) \/ i = Len(old) + 1
    BY <2>1
  <2>5. \A i \in 1..Len(new.created) :
          final'[new.created[i]] # NoFile /\ final'[new.created[i]].who = b
    <3> SUFFICES ASSUME NEW i \in 1..Len(new.created)
                 PROVE  final'[new.created[i]] # NoFile /\ final'[new.created[i]].who = b
      OBVIOUS
    <3>1. CASE i = Len(old) + 1
      BY <1>2, <1>6, <2>1, <3>1
    <3>2. CASE i \in 1..Len(old)
      <4>1. final'[old[i]] = final[old[i]]
        BY <1>6, <2>1, <2>3, <3>2
      <4> QED BY <2>1, <2>2, <3>2, <4>1
    <3> QED BY <2>4, <3>1, <3>2
  <2>6. \A i, j \in 1..Len(new.created) : new.created[i] = new.created[j] => i = j
    BY <2>1, <2>2, <2>3, <2>4
  <2>7. \A m \in Names : final'[m] # NoFile /\ final'[m].who = b =>
           \E i \in 1..Len(new.created) : new.created[i] = m
    <3> SUFFICES ASSUME NEW m \in Names, final'[m] # NoFile, final'[m].who = b
                 PROVE  \E i \in 1..Len(new.created) : new.created[i] = m
      OBVIOUS
    <3>1. CASE m = n
      <4>1. Len(old) + 1 \in 1..Len(new.created)
        BY <2>1
      <4> QED BY <2>1, <3>1, <4>1
    <3>2. CASE m # n
      <4>1. PICK i \in 1..Len(old) : old[i] = m
        BY <1>6, <2>2, <3>2
      <4>2. i \in 1..Len(new.created)
        BY <2>1
      <4> QED BY <2>1, <4>1, <4>2
    <3> QED BY <3>1, <3>2
  <2> QED BY <1>4, <2>5, <2>6, <2>7 DEF Owns, Filling
<1>9. \A c \in Builds \ {b} : Owns(c, build[c], final')
  BY <1>0, <1>1, <1>2, <1>6, OthersOwn
<1>10. BuildsOwn'
  BY <1>5, <1>8, <1>9 DEF BuildsOwn
<1>11. NobodyUndoes' => \A c \in Builds : Passed(build'[c], final')
  <2> SUFFICES ASSUME NobodyUndoes', NEW c \in Builds PROVE Passed(build'[c], final')
    OBVIOUS
  <2>1. \A d \in Builds : Passed(build[d], final)
    <3>1. NobodyUndoes
      BY <1>5 DEF NobodyUndoes
    <3> QED BY <3>1 DEF AdoptionInv
  <2>2. \A m \in Names : Genuine(final[m]) => Genuine(final'[m])
    BY <1>0, <1>2, <1>6 DEF Genuine
  <2>3. \A i \in 1..Len(Entries) : Entries[i] \in Names
    BY DEF NamesAreFiles
  <2>4. CASE c = b
    BY <1>4, <1>5, <2>1, <2>2, <2>3, <2>4 DEF Passed
  <2>5. CASE c # b
    BY <1>5, <2>1, <2>2, <2>3, <2>5 DEF Passed
  <2> QED BY <2>4, <2>5
<1> QED BY <1>7, <1>10, <1>11 DEF AdoptionInv

\* A copy is made, still empty.
LEMMA CreateCopyKeeps ==
  ASSUME NamesAreFiles, AdoptionInv, NEW b \in Builds, build[b].pc = "place",
         CreateCopy(b), UNCHANGED others
  PROVE  AdoptionInv'
<1> DEFINE n == Entry(b)
           new == Into(b, "copy")
<1>1. /\ final' = [final EXCEPT ![n] = File(b, FALSE)] /\ Set(b, new)
      /\ n \in Names /\ final[n] = NoFile
  BY EntriesAreNames DEF CreateCopy, AdoptionInv
<1>2. File(b, FALSE) \in SomeFile /\ File(b, FALSE).who = b /\ ~File(b, FALSE).good
  BY DEF File, SomeFile
<1>3. /\ build[b] \in AdoptionState /\ final \in [Names -> SomeFile \cup {NoFile}]
      /\ Owns(b, build[b], final)
  BY DEF AdoptionInv, AdoptionTypeOK, BuildsOwn
<1>4. /\ new \in AdoptionState /\ new.pc = "copy"
      /\ new.created = build[b].created /\ new.next = build[b].next
  BY <1>3 DEF Into, AdoptionState, BuildPcs
<1>5. build'[b] = new /\ \A c \in Builds \ {b} : build'[c] = build[c]
  BY <1>1 DEF AdoptionInv, AdoptionTypeOK, Set
<1>6. /\ final'[n] = File(b, FALSE) /\ final'[n] # NoFile
      /\ \A m \in Names \ {n} : final'[m] = final[m]
  BY <1>1, <1>2, <1>3 DEF NamesAreFiles
<1>7. AdoptionTypeOK'
  BY <1>1, <1>2, <1>4 DEF AdoptionInv, AdoptionTypeOK, Set
<1>8. n = Entries[new.next]
  BY <1>4 DEF Entry
<1> HIDE DEF new, n
<1>9. Owns(b, new, final')
  <2>1. \A i \in 1..Len(new.created) :
          /\ new.created[i] \in Names \ {n}
          /\ final'[new.created[i]] # NoFile /\ final'[new.created[i]].who = b
    <3> SUFFICES ASSUME NEW i \in 1..Len(build[b].created)
                 PROVE  LET m == build[b].created[i]
                        IN m \in Names \ {n} /\ final'[m] # NoFile /\ final'[m].who = b
      BY <1>4
    <3>1. build[b].created \in Seq(Names)
      BY <1>3 DEF AdoptionState
    <3>2. build[b].created[i] \in Names
      BY <3>1
    <3>3. final[build[b].created[i]] # NoFile /\ final[build[b].created[i]].who = b
      BY <1>3 DEF Owns
    <3> QED BY <1>1, <1>6, <3>2, <3>3
  <2>2. Filling(b, new, final')
    BY <1>2, <1>6, <1>8, <2>1 DEF Filling
  <2>3. ASSUME NEW m \in Names, final'[m] # NoFile, final'[m].who = b
        PROVE  Partial(new, final', m) \/ \E i \in 1..Len(new.created) : new.created[i] = m
    <3>1. CASE m = n
      BY <1>2, <1>4, <1>6, <1>8, <3>1 DEF Partial
    <3>2. CASE m # n
      <4>1. final[m] # NoFile /\ final[m].who = b /\ ~Partial(build[b], final, m)
        BY <1>6, <2>3, <3>2 DEF Partial
      <4> QED BY <1>3, <1>4, <4>1 DEF Owns
    <3> QED BY <3>1, <3>2
  <2>4. \A i, j \in 1..Len(new.created) : new.created[i] = new.created[j] => i = j
    BY <1>3, <1>4 DEF Owns
  <2> QED BY <1>4, <2>1, <2>2, <2>3, <2>4 DEF Owns
<1>10. BuildsOwn'
  <2>1. \A c \in Builds \ {b} : Owns(c, build[c], final')
    BY <1>1, <1>2, <1>6, OthersOwn
  <2> QED BY <1>5, <1>9, <2>1 DEF BuildsOwn
<1>11. NobodyUndoes' => \A c \in Builds : Passed(build'[c], final')
  <2> SUFFICES ASSUME NobodyUndoes', NEW c \in Builds PROVE Passed(build'[c], final')
    OBVIOUS
  <2>1. NobodyUndoes
    BY <1>5 DEF NobodyUndoes
  <2>2. \A d \in Builds : Passed(build[d], final)
    BY <2>1 DEF AdoptionInv
  <2>3. \A m \in Names : Genuine(final[m]) => Genuine(final'[m])
    BY <1>1, <1>6 DEF Genuine
  <2>4. \A i \in 1..Len(Entries) : Entries[i] \in Names
    BY DEF NamesAreFiles
  <2>5. CASE c = b
    BY <1>4, <1>5, <2>2, <2>3, <2>4, <2>5 DEF Passed
  <2>6. CASE c # b
    BY <1>5, <2>2, <2>3, <2>4, <2>6 DEF Passed
  <2> QED BY <2>5, <2>6
<1> QED BY <1>7, <1>10, <1>11 DEF AdoptionInv

LEMMA UndoKeeps ==
  ASSUME NamesAreFiles, AdoptionInv, NEW b \in Builds, UndoAdoption(b), Undone(b)
  PROVE  AdoptionInv'
<1> DEFINE old == build[b].created
           n == old[Len(old)]
           new == [build[b] EXCEPT !.created = SubSeq(old, 1, Len(old) - 1)]
<1>1. /\ final' = [final EXCEPT ![n] = NoFile] /\ Set(b, new) /\ others' = others
      /\ build[b].pc = "undo" /\ old # <<>>
  BY DEF UndoAdoption, Undone
<1>2. build[b] \in AdoptionState /\ final \in [Names -> SomeFile \cup {NoFile}]
  BY DEF AdoptionInv, AdoptionTypeOK
<1>3. old \in Seq(Names) /\ Len(old) \in Nat /\ Len(old) >= 1 /\ n \in Names
  BY <1>1, <1>2 DEF AdoptionState
<1>4. /\ SubSeq(old, 1, Len(old) - 1) \in Seq(Names)
      /\ Len(SubSeq(old, 1, Len(old) - 1)) = Len(old) - 1
      /\ \A i \in 1..Len(old) - 1 : SubSeq(old, 1, Len(old) - 1)[i] = old[i]
  BY <1>3
<1>5. new \in AdoptionState /\ new.pc = "undo" /\ new.created = SubSeq(old, 1, Len(old) - 1)
      /\ new.next = build[b].next
  BY <1>1, <1>2, <1>4 DEF AdoptionState
<1>6. build'[b] = new /\ \A c \in Builds \ {b} : build'[c] = build[c]
  BY <1>1 DEF AdoptionInv, AdoptionTypeOK, Set
<1>7. final'[n] = NoFile /\ \A m \in Names \ {n} : final'[m] = final[m]
  BY <1>1, <1>2, <1>3
<1>8. /\ \A i \in 1..Len(old) : final[old[i]] # NoFile /\ final[old[i]].who = b
      /\ \A i, j \in 1..Len(old) : old[i] = old[j] => i = j
      /\ \A m \in Names : final[m] # NoFile /\ final[m].who = b =>
           Partial(build[b], final, m) \/ \E i \in 1..Len(old) : old[i] = m
  BY DEF AdoptionInv, BuildsOwn, Owns
<1>9. AdoptionTypeOK'
  BY <1>1, <1>5 DEF AdoptionInv, AdoptionTypeOK, Set
<1>10. /\ Len(old) \in 1..Len(old) /\ n = old[Len(old)]
       /\ \A i \in 1..Len(old) - 1 : i \in 1..Len(old) /\ i # Len(old)
       /\ \A i \in 1..Len(old) : old[i] \in Names
  BY <1>3
<1> HIDE DEF new, n, old
<1>11. \A i \in 1..Len(old) - 1 : old[i] \in Names /\ old[i] # n
  BY <1>8, <1>10
<1>12. Owns(b, new, final')
  <2>1. \A i \in 1..Len(new.created) :
          new.created[i] = old[i] /\ i \in 1..Len(old) - 1
    BY <1>4, <1>5
  <2>2. \A i \in 1..Len(new.created) :
          final'[new.created[i]] # NoFile /\ final'[new.created[i]].who = b
    <3> SUFFICES ASSUME NEW i \in 1..Len(new.created)
                 PROVE  final'[new.created[i]] # NoFile /\ final'[new.created[i]].who = b
      OBVIOUS
    <3>1. new.created[i] = old[i] /\ i \in 1..Len(old)
      BY <1>10, <2>1
    <3>2. old[i] \in Names \ {n}
      BY <1>11, <2>1
    <3>3. final'[old[i]] = final[old[i]]
      BY <1>7, <3>2
    <3> QED BY <1>8, <3>1, <3>3
  <2>3. \A i, j \in 1..Len(new.created) : new.created[i] = new.created[j] => i = j
    BY <1>8, <1>10, <2>1
  <2>4. \A m \in Names : final'[m] # NoFile /\ final'[m].who = b =>
          Partial(new, final', m) \/ \E i \in 1..Len(new.created) : new.created[i] = m
    <3> SUFFICES ASSUME NEW m \in Names, final'[m] # NoFile, final'[m].who = b,
                        ~Partial(new, final', m)
                 PROVE  \E i \in 1..Len(new.created) : new.created[i] = m
      OBVIOUS
    <3>1. m \in Names \ {n} /\ final'[m] = final[m]
      BY <1>7
    <3>0. ~Partial(build[b], final, m)
      BY <1>5, <3>1 DEF Partial
    <3>2. PICK i \in 1..Len(old) : old[i] = m
      BY <1>8, <3>0, <3>1
    <3>3. i # Len(old)
      BY <1>10, <3>1, <3>2
    <3>4. i \in 1..Len(new.created)
      BY <1>3, <1>4, <1>5, <3>3
    <3> QED BY <2>1, <3>2, <3>4
  <2> QED BY <1>5, <2>2, <2>3, <2>4 DEF Owns, Filling
<1>13. \A c \in Builds \ {b} : Owns(c, build[c], final')
  <2>1. final[n].who = b /\ n \in Names
    BY <1>8, <1>10
  <2> QED BY <1>7, <2>1, OthersOwn
<1>14. BuildsOwn'
  BY <1>6, <1>12, <1>13 DEF BuildsOwn
<1>15. ~NobodyUndoes'
  BY <1>5, <1>6 DEF NobodyUndoes
<1> QED BY <1>9, <1>14, <1>15 DEF AdoptionInv

LEMMA OtherKeeps ==
  ASSUME NamesAreFiles, AdoptionInv, NEW n \in Names, OtherPlaces(n)
  PROVE  AdoptionInv'
<1>1. PICK good \in BOOLEAN : final' = [final EXCEPT ![n] = File(Others, good)]
  BY DEF OtherPlaces
<1>2. File(Others, good) \in SomeFile /\ File(Others, good).who = Others
  BY DEF File, SomeFile
<1>3. final \in [Names -> SomeFile \cup {NoFile}] /\ final[n] = NoFile /\ UNCHANGED build
  BY DEF AdoptionInv, AdoptionTypeOK, OtherPlaces
<1>4. final'[n] = File(Others, good) /\ \A m \in Names \ {n} : final'[m] = final[m]
  BY <1>1, <1>3
<1>5. AdoptionTypeOK'
  BY <1>1, <1>2, <1>3 DEF AdoptionInv, AdoptionTypeOK, OtherPlaces
<1>6. BuildsOwn'
  <2>1. \A c \in Builds : Owns(c, build[c], final')
    BY <1>2, <1>3, <1>4, OthersOwn DEF NamesAreFiles
  <2> QED BY <1>3, <2>1 DEF BuildsOwn
<1>7. NobodyUndoes' => \A c \in Builds : Passed(build'[c], final')
  <2> SUFFICES ASSUME NobodyUndoes', NEW c \in Builds PROVE Passed(build'[c], final')
    OBVIOUS
  <2>1. Passed(build[c], final)
    BY <1>3 DEF NobodyUndoes, AdoptionInv
  <2>2. \A m \in Names : Genuine(final[m]) => Genuine(final'[m])
    BY <1>3, <1>4 DEF Genuine
  <2>3. \A i \in 1..Len(Entries) : Entries[i] \in Names
    BY DEF NamesAreFiles
  <2> QED BY <1>3, <2>1, <2>2, <2>3 DEF Passed
<1> QED BY <1>5, <1>6, <1>7 DEF AdoptionInv

LEMMA CheckKeeps ==
  ASSUME NamesAreFiles, AdoptionInv, NEW b \in Builds, RequireAdopted(b)
  PROVE  AdoptionInv'
<1> DEFINE s == build[b]
<1>1. /\ s \in AdoptionState /\ s.pc = "check" /\ UNCHANGED <<final, others>>
      /\ NobodyUndoes => Passed(s, final)
  BY DEF AdoptionInv, AdoptionTypeOK, RequireAdopted
<1>2. Len(Entries) \in Nat /\ s.next \in 1..Len(Entries)
  BY <1>1 DEF AdoptionState, NamesAreFiles
<1>3. \/ Set(b, Into(b, "undo"))
      \/ Genuine(final[Entry(b)]) /\ s.next = Len(Entries) /\ Set(b, Into(b, "done"))
      \/ /\ Genuine(final[Entry(b)]) /\ s.next # Len(Entries)
         /\ Set(b, [Into(b, "place") EXCEPT !.next = @ + 1])
  BY DEF RequireAdopted
<1>4. CASE Set(b, Into(b, "undo"))
  <2>1. /\ Into(b, "undo") \in AdoptionState /\ Into(b, "undo").pc = "undo"
        /\ Into(b, "undo").created = s.created
    BY <1>1 DEF Into, AdoptionState, BuildPcs
  <2> QED BY <1>1, <1>4, <2>1, BuildGoes
<1>5. CASE Genuine(final[Entry(b)]) /\ s.next = Len(Entries) /\ Set(b, Into(b, "done"))
  <2> DEFINE new == Into(b, "done")
  <2>1. /\ new \in AdoptionState /\ new.pc = "done"
        /\ new.created = s.created /\ new.next = s.next
    BY <1>1 DEF Into, AdoptionState, BuildPcs
  <2> HIDE DEF new
  <2>2. NobodyUndoes => Passed(new, final)
    BY <1>1, <1>2, <1>5, <2>1 DEF Passed, Entry
  <2> QED BY <1>1, <1>5, <2>1, <2>2, BuildGoes DEF new
<1>6. CASE /\ Genuine(final[Entry(b)]) /\ s.next # Len(Entries)
           /\ Set(b, [Into(b, "place") EXCEPT !.next = @ + 1])
  <2> DEFINE new == [Into(b, "place") EXCEPT !.next = @ + 1]
  <2>1. s.next + 1 \in 1..Len(Entries)
    BY <1>2, <1>6
  <2>2. /\ new \in AdoptionState /\ new.pc = "place"
        /\ new.created = s.created /\ new.next = s.next + 1
    BY <1>1, <2>1 DEF Into, AdoptionState, BuildPcs
  <2> HIDE DEF new
  <2>3. NobodyUndoes => Passed(new, final)
    BY <1>1, <1>2, <1>6, <2>2 DEF Passed, Entry
  <2> QED BY <1>1, <1>6, <2>2, <2>3, BuildGoes DEF new
<1> QED BY <1>3, <1>4, <1>5, <1>6

\* The other steps of a build leave the names alone.
LEMMA QuietKeeps ==
  ASSUME NamesAreFiles, AdoptionInv, NEW b \in Builds,
         \/ ReadCache(b) \/ Verify(b)
         \/ PlaceEntry(b) /\ ~(final[Entry(b)] = NoFile /\ Place(b)) /\ ~CreateCopy(b)
         \/ WriteCopy(b) /\ ~Adopted(b, "copy")
         \/ UndoAdoption(b) /\ ~Undone(b)
  PROVE  AdoptionInv'
<1> DEFINE s == build[b]
<1>1. /\ s \in AdoptionState /\ Owns(b, s, final) /\ (NobodyUndoes => Passed(s, final))
  BY DEF AdoptionInv, AdoptionTypeOK, BuildsOwn
<1>2. \A label \in BuildPcs : /\ Into(b, label) \in AdoptionState /\ Into(b, label).pc = label
                             /\ Into(b, label).created = s.created /\ Into(b, label).next = s.next
  BY <1>1 DEF Into, AdoptionState
<1>3. CASE ReadCache(b)
  <2>1. PICK label \in {"failed", "verify"} : Set(b, Into(b, label))
    BY <1>3 DEF ReadCache
  <2>2. s.pc = "idle" /\ UNCHANGED <<final, others>> /\ s.created = <<>> /\ label \in BuildPcs
    BY <1>1, <1>3 DEF ReadCache, Owns, BuildPcs
  <2>3. NobodyUndoes /\ label = "verify" => Passed(Into(b, label), final)
    BY <1>1, <1>2, <2>2 DEF Passed
  <2> QED BY <1>2, <2>1, <2>2, <2>3, BuildGoes
<1>4. CASE Verify(b)
  <2>1. PICK label \in {"place", "failed"} : Set(b, Into(b, label))
    BY <1>4 DEF Verify
  <2>2. s.pc = "verify" /\ UNCHANGED <<final, others>> /\ s.created = <<>> /\ label \in BuildPcs
    BY <1>1, <1>4 DEF Verify, Owns, BuildPcs
  <2>3. NobodyUndoes /\ label = "place" => Passed(Into(b, label), final)
    BY <1>1, <1>2, <2>2 DEF Passed
  <2> QED BY <1>2, <2>1, <2>2, <2>3, BuildGoes
<1>5. CASE PlaceEntry(b) /\ ~(final[Entry(b)] = NoFile /\ Place(b)) /\ ~CreateCopy(b)
  <2>1. s.pc = "place" /\ UNCHANGED <<final, others>>
    BY <1>5 DEF PlaceEntry, Place
  <2>2. Set(b, Into(b, "undo")) \/ Set(b, [Into(b, "check") EXCEPT !.how = NoFile])
    BY <1>5 DEF PlaceEntry, Place
  <2>3. CASE Set(b, Into(b, "undo"))
    <3>1. "undo" \in BuildPcs
      BY DEF BuildPcs
    <3> QED BY <1>2, <2>1, <2>3, <3>1, BuildGoes
  <2>4. CASE Set(b, [Into(b, "check") EXCEPT !.how = NoFile])
    <3> DEFINE new == [Into(b, "check") EXCEPT !.how = NoFile]
    <3>1. /\ new \in AdoptionState /\ new.pc = "check"
          /\ new.created = s.created /\ new.next = s.next
      BY <1>1 DEF Into, AdoptionState, BuildPcs
    <3> HIDE DEF new
    <3>2. NobodyUndoes => Passed(new, final)
      BY <1>1, <3>1 DEF Passed
    <3> QED BY <2>1, <2>4, <3>1, <3>2, BuildGoes DEF new
  <2> QED BY <2>2, <2>3, <2>4
<1>6. CASE UndoAdoption(b) /\ ~Undone(b)
  <2>1. /\ s.pc = "undo" /\ Set(b, Into(b, "failed")) /\ UNCHANGED <<final, others>>
        /\ s.created = <<>> /\ "failed" \in BuildPcs
    BY <1>6 DEF UndoAdoption, Undone, BuildPcs
  <2> QED BY <1>2, <2>1, BuildGoes
<1>7. CASE WriteCopy(b) /\ ~Adopted(b, "copy")
  <2>1. /\ s.pc = "copy" /\ Set(b, Into(b, "undo")) /\ UNCHANGED <<final, others>>
        /\ "undo" \in BuildPcs
    BY <1>7 DEF WriteCopy, BuildPcs
  <2> QED BY <1>2, <2>1, BuildGoes
<1> QED BY <1>3, <1>4, <1>5, <1>6, <1>7

LEMMA AdoptionInvStep ==
  ASSUME NamesAreFiles, AdoptionInv, [NodeNext]_adoptionVars
  PROVE  AdoptionInv'
<1>1. CASE \E b \in Builds : \/ ReadCache(b) \/ Verify(b) \/ PlaceEntry(b) \/ WriteCopy(b)
                             \/ RequireAdopted(b) \/ UndoAdoption(b)
  <2>1. PICK b \in Builds : \/ ReadCache(b) \/ Verify(b) \/ PlaceEntry(b) \/ WriteCopy(b)
                           \/ RequireAdopted(b) \/ UndoAdoption(b)
    BY <1>1
  <2>2. CASE PlaceEntry(b) /\ final[Entry(b)] = NoFile /\ Place(b)
    BY <2>2, AdoptedKeeps DEF PlaceEntry, Place
  <2>5. CASE PlaceEntry(b) /\ CreateCopy(b)
    BY <2>5, CreateCopyKeeps DEF PlaceEntry
  <2>6. CASE WriteCopy(b) /\ Adopted(b, "copy")
    BY <2>6, AdoptedKeeps DEF WriteCopy
  <2>3. CASE UndoAdoption(b) /\ Undone(b)
    BY <2>3, UndoKeeps
  <2>4. CASE RequireAdopted(b)
    BY <2>4, CheckKeeps
  <2> QED BY <2>1, <2>2, <2>3, <2>4, <2>5, <2>6, QuietKeeps
<1>2. CASE \E n \in Names : OtherPlaces(n)
  BY <1>2, OtherKeeps
<1>3. CASE UNCHANGED adoptionVars
  BY <1>3 DEF adoptionVars, AdoptionInv, AdoptionTypeOK, BuildsOwn, NobodyUndoes
<1> QED BY <1>1, <1>2, <1>3 DEF NodeNext

\* adoptNoClobber: a build that failed leaves no file of its own behind but a copy it could
\* not fill, and as long as no build fails one that is done finds every file in place and authentic.
THEOREM BuildsAreWhole ==
  ASSUME NamesAreFiles
  PROVE  NodeSpec => []WholeOrNothing
<1>1. AdoptionInv => WholeOrNothing
  <2> SUFFICES ASSUME AdoptionInv PROVE WholeOrNothing
    OBVIOUS
  <2>1. ASSUME NEW b \in Builds, build[b].pc = "failed",
               NEW n \in Names, final[n] # NoFile, final[n].who = b
        PROVE  Unfilled(b, n)
    <3>1. Owns(b, build[b], final)
      BY DEF AdoptionInv, BuildsOwn
    <3>2. build[b].created = <<>>
      BY <2>1, <3>1 DEF Owns
    <3>3. 1..Len(build[b].created) = {}
      BY <3>2
    <3>4. Partial(build[b], final, n)
      BY <2>1, <3>1, <3>3 DEF Owns
    <3> QED BY <3>4 DEF Partial, Unfilled, Entry
  <2>2. ASSUME NEW b \in Builds, build[b].pc = "done", NobodyUndoes, NEW n \in Names
        PROVE  Genuine(final[n])
    <3>1. PICK i \in 1..Len(Entries) : n = Entries[i]
      BY EntriesAreNames DEF AdoptionInv
    <3> QED BY <2>2, <3>1 DEF AdoptionInv, Passed
  <2> QED BY <2>1, <2>2 DEF WholeOrNothing, NobodyUndoes
<1> QED BY <1>1, AdoptionInvInit, AdoptionInvStep, PTL DEF NodeSpec

\* placeNoClobber and its undo: a file is never replaced, and only the build that made it
\* touches it, to fill its copy or to take it away while it undoes its adoption.
THEOREM FilesAreNotReplaced ==
  ASSUME NamesAreFiles
  PROVE  NodeSpec => NeverReplaced
<1> DEFINE Touches(b, n) ==
             /\ final[n].who = b
             /\ \/ build[b].pc = "undo" /\ final'[n] = NoFile
                \/ build[b].pc = "copy" /\ ~final[n].good /\ final'[n] = File(b, TRUE)
           Kept == \A n \in Names : final'[n] # final[n] /\ final[n] # NoFile =>
                     \E b \in Builds : Touches(b, n)
<1>1. ASSUME AdoptionInv, [NodeNext]_adoptionVars PROVE Kept
  <2> SUFFICES ASSUME NEW n \in Names, final'[n] # final[n], final[n] # NoFile
               PROVE  \E b \in Builds : Touches(b, n)
    OBVIOUS
  <2>1. final \in [Names -> SomeFile \cup {NoFile}]
    BY <1>1 DEF AdoptionInv, AdoptionTypeOK
  <2>2. \A b \in Builds : ~ReadCache(b) /\ ~Verify(b) /\ ~RequireAdopted(b)
    BY DEF ReadCache, Verify, RequireAdopted
  <2>3. \A b \in Builds : ~PlaceEntry(b)
    BY <1>1, <2>1, EntriesAreNames DEF PlaceEntry, Place, Adopted, CreateCopy, AdoptionInv
  <2>4. \A m \in Names : ~OtherPlaces(m)
    BY <2>1 DEF OtherPlaces
  <2>5. ~UNCHANGED adoptionVars
    BY DEF adoptionVars
  <2>6. PICK b \in Builds : UndoAdoption(b) \/ WriteCopy(b)
    BY <1>1, <2>2, <2>3, <2>4, <2>5 DEF NodeNext
  <2>7. Owns(b, build[b], final)
    BY <1>1 DEF AdoptionInv, BuildsOwn
  <2>8. CASE UndoAdoption(b)
    <3> DEFINE names == build[b].created
    <3>1. /\ final' = [final EXCEPT ![names[Len(names)]] = NoFile] /\ names # <<>>
          /\ build[b].pc = "undo"
      BY <2>8 DEF UndoAdoption, Undone
    <3>2. n = names[Len(names)] /\ final'[n] = NoFile
      BY <2>1, <3>1
    <3>3. Len(names) \in 1..Len(names)
      BY <1>1, <3>1 DEF AdoptionInv, AdoptionTypeOK, AdoptionState
    <3>4. final[n].who = b
      BY <2>7, <3>2, <3>3 DEF Owns
    <3> QED BY <3>1, <3>2, <3>4
  <2>9. CASE WriteCopy(b)
    <3>1. build[b].pc = "copy" /\ final' = [final EXCEPT ![Entry(b)] = File(b, TRUE)]
      BY <2>9 DEF WriteCopy, Adopted
    <3>2. n = Entry(b) /\ final'[n] = File(b, TRUE)
      BY <2>1, <3>1
    <3>3. final[n].who = b /\ ~final[n].good
      BY <2>7, <3>1, <3>2 DEF Owns, Filling, Entry
    <3> QED BY <3>1, <3>2, <3>3
  <2> QED BY <2>6, <2>8, <2>9
<1>2. AdoptionInv /\ [NodeNext]_adoptionVars => [Kept]_adoptionVars
  BY <1>1
<1> QED BY <1>2, AdoptionInvInit, AdoptionInvStep, PTL DEF NodeSpec, NeverReplaced

\* Both together: "all or nothing, without ever replacing an existing file", up to the copy
\* across file systems that cannot be filled.
THEOREM AdoptedWholly ==
  ASSUME NamesAreFiles
  PROVE  NodeSpec => AllOrNothing
BY BuildsAreWhole, FilesAreNotReplaced DEF AllOrNothing

-----------------------------------------------------------------------------
(***************************************************************************)
(* The application theme.                                                  *)
(*                                                                         *)
(* A document is known by its number, which tells its file.  One save is   *)
(* under way at a time.  Until it is written, the document in custody is   *)
(* the one the save was pressed for, or another; when it has been written, *)
(* the page will take what was written, unless a document was opened or    *)
(* the session reset since.                                                *)
(***************************************************************************)

Maybe(S) == {None} \cup S
Document ==
  [id : Maybe(Nat), file : Maybe(Files), text : Nat, mtime : Nat, editable : BOOLEAN]
FileState == [text : Nat, mtime : Nat]
LabState ==
  [rev : Nat, gen : Nat, op : Nat, running : Maybe(Nat), compiling : BOOLEAN, profile : Nat,
   doc : Maybe(Document), dirty : BOOLEAN, css : Maybe(Nat), compiled : Maybe(Nat),
   saving : BOOLEAN, adopted : Maybe([css : Maybe(Nat), of : Nat])]
HostState == [active : Maybe(Document), ids : Nat, gen : Nat, latest : Nat]
DidState == [acts : Nat, edits : Nat, text : Nat, overtaken : BOOLEAN, crossed : BOOLEAN]
CallStages ==
  {"sent", "run", "dialog", "read", "prepare", "admit", "bind", "check", "write", "commit",
   "answered"}
CallAnswers ==
  {"none", "stale", "css", "error", "cancelled", "refused", "document", "saved", "reset"}
SaveModes == {"new", "original", "edited"}

\* Files and texts are numbers; none is no number, no document and no way of saving.
FilesAreNumbers ==
  /\ Files \subseteq Nat /\ IsFiniteSet(Files)
  /\ None \notin Nat /\ None \notin Document /\ None \notin SaveModes

CallState ==
  [n : Nat, kind : {"compile", "open", "save", "reset"}, stage : CallStages, op : Nat, rev : Nat,
   gen : Nat, text : Nat, mode : Maybe(SaveModes), dirty : BOOLEAN,
   shown : Maybe(Document), ticket : Nat, file : Maybe(Files),
   held : Maybe(Document \cup FileState), out : Maybe(Document), answer : CallAnswers]

AppTypeOK ==
  /\ page \in LabState
  /\ host \in HostState
  /\ disk \in [Files -> FileState]
  /\ did \in DidState
  /\ calls \in SUBSET CallState

Saves == {c \in calls : c.kind = "save"}
Opens == {c \in calls : c.kind = "open"}
Resetting == \E c \in calls : c.kind = "reset"
Committing == \E c \in Saves : c.stage = "commit"
Answering(c, answer) == c.stage = "answered" /\ c.answer = answer
Documented(c) == Answering(c, "document") \/ Answering(c, "saved")

-----------------------------------------------------------------------------
(* Custody.                                                                *)

\* The documents that have a number.
HasNumber(d) ==
  /\ d # None
  /\ \/ d = page.doc \/ d = host.active
     \/ \E c \in calls : d = c.shown \/ (d = c.out /\ Documented(c))

DocumentsInOrder ==
  /\ \A d \in Document : HasNumber(d) => d.id \in Nat /\ d.id <= host.ids /\ d.file \in Files
  /\ \A d, e \in Document : HasNumber(d) /\ HasNumber(e) /\ d.id = e.id => d.file = e.file

\* What a call holds is of the file it names.
HoldsIts(c) ==
  /\ c.ticket <= host.gen
  /\ Documented(c) => c.out # None
  /\ c.stage \in {"read", "admit", "bind", "check", "write", "commit"} => c.file \in Files
  /\ c.stage = "commit" => c.out # None /\ c.out.file = c.file
  /\ c.stage = "dialog" => c.kind = "open" \/ (c.kind = "save" /\ c.mode = "new")
  /\ c.kind = "open" /\ c.stage = "bind" => c.held \in FileState
  /\ c.kind = "save" =>
       /\ c.mode # None
       /\ c.mode # "new" => c.shown # None
       /\ c.mode # "new" /\ c.stage \in {"admit", "bind", "check", "write", "commit"} =>
            c.file = c.shown.file
       /\ c.mode # "new" /\ c.stage \in {"bind", "check", "write", "commit"} =>
            c.held \in Document /\ c.held.id = c.shown.id

HoldsInOrder == \A c \in calls : HoldsIts(c)

CustodyInv == AppTypeOK /\ DocumentsInOrder /\ HoldsInOrder

-----------------------------------------------------------------------------
(* A step of the host takes one call further.  Most steps leave the        *)
(* document in custody and the files alone.                                *)

\* What a call was made with.
Same(c, to) ==
  /\ to \in CallState
  /\ to.kind = c.kind /\ to.rev = c.rev /\ to.gen = c.gen /\ to.text = c.text
  /\ to.mode = c.mode /\ to.dirty = c.dirty /\ to.shown = c.shown

\* What it has got so far.
Has(c, stage, answer, ticket, file, held, out) ==
  /\ c.stage = stage /\ c.answer = answer /\ c.ticket = ticket /\ c.file = file
  /\ c.held = held /\ c.out = out

LEMMA Moved ==
  ASSUME NEW c \in CallState, NEW s \in CallStages
  PROVE  LET to == [c EXCEPT !.stage = s]
         IN Same(c, to) /\ Has(to, s, c.answer, c.ticket, c.file, c.held, c.out)
BY DEF CallState, Same, Has

LEMMA MovedWithTicket ==
  ASSUME NEW c \in CallState, NEW s \in CallStages, NEW t \in Nat
  PROVE  LET to == [c EXCEPT !.stage = s, !.ticket = t]
         IN Same(c, to) /\ Has(to, s, c.answer, t, c.file, c.held, c.out)
BY DEF CallState, Same, Has

LEMMA MovedWithFile ==
  ASSUME NEW c \in CallState, NEW s \in CallStages, NEW f \in Maybe(Files)
  PROVE  /\ LET to == [c EXCEPT !.stage = s, !.file = f]
            IN Same(c, to) /\ Has(to, s, c.answer, c.ticket, f, c.held, c.out)
         /\ LET to == [c EXCEPT !.file = f, !.stage = s]
            IN Same(c, to) /\ Has(to, s, c.answer, c.ticket, f, c.held, c.out)
BY DEF CallState, Same, Has

LEMMA MovedWithHeld ==
  ASSUME NEW c \in CallState, NEW s \in CallStages, NEW h \in Maybe(Document \cup FileState)
  PROVE  LET to == [c EXCEPT !.stage = s, !.held = h]
         IN Same(c, to) /\ Has(to, s, c.answer, c.ticket, c.file, h, c.out)
BY DEF CallState, Same, Has

LEMMA MovedWithOut ==
  ASSUME NEW c \in CallState, NEW s \in CallStages, NEW d \in Maybe(Document)
  PROVE  LET to == [c EXCEPT !.stage = s, !.out = d]
         IN Same(c, to) /\ Has(to, s, c.answer, c.ticket, c.file, c.held, d)
BY DEF CallState, Same, Has

LEMMA MovedToAnswer ==
  ASSUME NEW c \in CallState, NEW a \in CallAnswers
  PROVE  LET to == [c EXCEPT !.stage = "answered", !.answer = a]
         IN Same(c, to) /\ Has(to, "answered", a, c.ticket, c.file, c.held, c.out)
BY DEF CallState, CallStages, Same, Has

LEMMA MovedToDocument ==
  ASSUME NEW c \in CallState, NEW a \in CallAnswers, NEW d \in Maybe(Document)
  PROVE  LET to == [c EXCEPT !.stage = "answered", !.answer = a, !.out = d]
         IN Same(c, to) /\ Has(to, "answered", a, c.ticket, c.file, c.held, d)
BY DEF CallState, CallStages, Same, Has

\* Where a call is that gives up, or is refused.
GivesUp(to) == to.stage = "answered" /\ to.answer \notin {"document", "saved"}

\* How a quiet step takes a call from c to to.
OpenGoes(c, to) ==
  /\ c.kind = "open"
  /\ \/ to.stage = "dialog"
     \/ to.stage = "read" /\ to.file \in Files
     \/ to.stage = "bind" /\ to.file = c.file /\ c.file \in Files /\ to.held = disk[c.file]
     \/ /\ c.stage = "bind" /\ to.stage = "commit" /\ to.file = c.file /\ to.out # None
        /\ to.out.file = c.file /\ to.out.text = c.held.text

Pressed(c) == host.active # None /\ host.active.id = c.shown.id
SaveGoes(c, to) ==
  /\ c.kind = "save"
  /\ \/ to.stage = "prepare"
     \/ to.stage = "dialog" /\ c.mode = "new"
     \/ /\ to.stage = "admit" /\ to.file \in Files
        /\ c.mode = "new" \/ (Pressed(c) /\ to.file = host.active.file)
     \/ /\ c.stage = "admit" /\ to.stage \in {"bind", "check"} /\ to.file = c.file
        /\ to.held = host.active /\ (c.mode # "new" => Pressed(c))
     \/ /\ c.stage \in {"bind", "check"} /\ to.stage \in {"check", "write"}
        /\ to.file = c.file /\ to.held = c.held

Goes(c, to) ==
  \/ GivesUp(to)
  \/ c.kind = "compile" /\ to.stage = "run"
  \/ OpenGoes(c, to)
  \/ SaveGoes(c, to)

QuietFor(c, to) ==
  /\ App!Becomes(c, to) /\ Same(c, to) /\ Goes(c, to)
  /\ c.stage # "answered" /\ c.kind # "reset" /\ ~(c.kind = "save" /\ c.stage = "commit")
  /\ UNCHANGED <<page, disk, did>>
  /\ host' \in HostState /\ host'.active = host.active /\ host'.ids = host.ids
  /\ host.gen <= host'.gen /\ to.ticket <= host'.gen

QuietFrom(c) == \E to \in CallState : QuietFor(c, to)

LEMMA GivingUp ==
  ASSUME AppTypeOK, HoldsInOrder, NEW c \in calls, NEW a \in CallAnswers,
         App!AnswerWith(c, a), a \notin {"document", "saved"},
         c.stage # "answered", c.kind # "reset", ~(c.kind = "save" /\ c.stage = "commit"),
         UNCHANGED <<page, disk, did>>,
         host' \in HostState, host'.active = host.active, host'.ids = host.ids,
         host.gen <= host'.gen
  PROVE  QuietFrom(c)
<1> DEFINE to == [c EXCEPT !.stage = "answered", !.answer = a]
<1>1. c \in CallState /\ c.ticket \in Nat /\ c.ticket <= host.gen /\ host.gen \in Nat
  BY DEF AppTypeOK, CallState, HoldsInOrder, HoldsIts, HostState
<1>2. Same(c, to) /\ Has(to, "answered", a, c.ticket, c.file, c.held, c.out)
  BY <1>1, MovedToAnswer
<1>3. App!Becomes(c, to)
  BY DEF App!AnswerWith
<1> HIDE DEF to
<1>4. to \in CallState /\ GivesUp(to) /\ to.ticket = c.ticket
  BY <1>2 DEF Same, Has, GivesUp
<1>5. host'.gen \in Nat
  BY DEF HostState
<1>6. to.ticket <= host'.gen
  BY <1>1, <1>4, <1>5
<1> QED BY <1>2, <1>3, <1>4, <1>6 DEF QuietFor, QuietFrom, Goes

LEMMA ClaimIsQuiet ==
  ASSUME AppTypeOK, HoldsInOrder, NEW c \in calls, App!Claim(c)
  PROVE  QuietFrom(c)
<1>1. c \in CallState /\ c.ticket <= host.gen /\ host \in HostState /\ c.rev \in Nat
  BY DEF AppTypeOK, CallState, HoldsInOrder, HoldsIts
<1>2. c.kind = "compile" /\ c.stage = "sent" /\ UNCHANGED <<page, disk, did>>
  BY DEF App!Claim, App!At
<1>3. CASE App!AnswerWith(c, "stale") /\ host' = host
  BY <1>1, <1>2, <1>3, GivingUp DEF CallAnswers, HostState
<1>4. CASE App!To(c, "run") /\ host' = [host EXCEPT !.latest = c.rev]
  <2> DEFINE to == [c EXCEPT !.stage = "run"]
  <2>1. Same(c, to) /\ Has(to, "run", c.answer, c.ticket, c.file, c.held, c.out)
    BY <1>1, Moved DEF CallStages
  <2>2. App!Becomes(c, to)
    BY <1>4 DEF App!To
  <2> HIDE DEF to
  <2>3. host' \in HostState /\ host'.active = host.active /\ host'.ids = host.ids
        /\ host'.gen = host.gen
    BY <1>1, <1>4 DEF HostState
  <2>4. to \in CallState /\ to.stage = "run" /\ to.ticket = c.ticket
    BY <2>1 DEF Same, Has
  <2>5. host.gen \in Nat /\ host.gen <= host'.gen
    BY <1>1, <2>3 DEF HostState
  <2>6. Goes(c, to)
    BY <1>2, <2>4 DEF Goes
  <2>7. QuietFor(c, to)
    BY <1>1, <1>2, <2>1, <2>2, <2>3, <2>4, <2>5, <2>6 DEF QuietFor
  <2> QED BY <2>4, <2>7 DEF QuietFrom
<1> QED BY <1>1, <1>2, <1>3, <1>4 DEF App!Claim

LEMMA GoingOn ==
  ASSUME AppTypeOK, NEW c \in calls, NEW to, NEW t, NEW f, NEW h, NEW o, NEW s,
         Same(c, to), Has(to, s, c.answer, t, f, h, o), App!Becomes(c, to), Goes(c, to),
         t \in Nat, t <= host.gen, App!Stay,
         c.stage # "answered", c.kind # "reset", ~(c.kind = "save" /\ c.stage = "commit")
  PROVE  QuietFrom(c)
<1>1. to \in CallState /\ to.ticket = t
  BY DEF Same, Has
<1>2. host \in HostState /\ host.gen \in Nat
  BY DEF AppTypeOK, HostState
<1>3. UNCHANGED <<page, disk, did>> /\ host' = host
  BY DEF App!Stay
<1>4. host'.gen = host.gen /\ host.gen <= host'.gen /\ to.ticket <= host'.gen
  BY <1>1, <1>2, <1>3
<1>5. QuietFor(c, to)
  BY <1>1, <1>2, <1>3, <1>4 DEF QuietFor
<1> QED BY <1>1, <1>5 DEF QuietFrom

LEMMA CallFacts ==
  ASSUME AppTypeOK, HoldsInOrder, NEW c \in calls
  PROVE  /\ c \in CallState /\ c.ticket \in Nat /\ c.ticket <= host.gen
         /\ c.file \in Maybe(Files) /\ c.held \in Maybe(Document \cup FileState)
         /\ c.out \in Maybe(Document) /\ c.shown \in Maybe(Document) /\ c.text \in Nat
         /\ c.rev \in Nat /\ c.gen \in Nat /\ c.dirty \in BOOLEAN
         /\ host \in HostState /\ host.gen \in Nat /\ host.ids \in Nat
         /\ host.active \in Maybe(Document)
BY DEF AppTypeOK, CallState, HoldsInOrder, HoldsIts, HostState

LEMMA CompiledIsQuiet ==
  ASSUME AppTypeOK, HoldsInOrder, NEW c \in calls, App!Compiled(c)
  PROVE  QuietFrom(c)
<1>1. PICK a \in {"css", "none", "error"} : App!AnswerWith(c, a)
  BY DEF App!Compiled
<1>2. c.kind = "compile" /\ c.stage = "run" /\ App!Stay
  BY DEF App!Compiled, App!At
<1>3. a \in CallAnswers
  BY <1>1 DEF CallAnswers
<1> QED BY <1>1, <1>2, <1>3, CallFacts, GivingUp DEF App!Stay

LEMMA BeginOpenIsQuiet ==
  ASSUME AppTypeOK, HoldsInOrder, NEW c \in calls, App!BeginOpen(c)
  PROVE  QuietFrom(c)
<1> DEFINE to == [c EXCEPT !.stage = "dialog", !.ticket = host.gen + 1]
<1>1. c \in CallState /\ host \in HostState /\ host.gen \in Nat
  BY CallFacts
<1>2. /\ c.kind = "open" /\ c.stage = "sent" /\ UNCHANGED <<page, disk, did>>
      /\ host' = [host EXCEPT !.gen = @ + 1] /\ App!Becomes(c, to)
  BY DEF App!BeginOpen, App!At
<1>3. host.gen + 1 \in Nat /\ "dialog" \in CallStages
  BY <1>1 DEF CallStages
<1>4. Same(c, to) /\ Has(to, "dialog", c.answer, host.gen + 1, c.file, c.held, c.out)
  BY <1>1, <1>3, MovedWithTicket
<1> HIDE DEF to
<1>5. /\ host' \in HostState /\ host'.active = host.active /\ host'.ids = host.ids
      /\ host'.gen = host.gen + 1
  BY <1>1, <1>2, <1>3 DEF HostState
<1>6. to \in CallState /\ to.stage = "dialog" /\ to.ticket = host.gen + 1
  BY <1>4 DEF Same, Has
<1>7. host.gen <= host'.gen /\ to.ticket <= host'.gen
  BY <1>1, <1>5, <1>6
<1>8. Goes(c, to)
  BY <1>2, <1>6 DEF Goes, OpenGoes
<1>9. QuietFor(c, to)
  BY <1>2, <1>4, <1>5, <1>7, <1>8 DEF QuietFor
<1> QED BY <1>6, <1>9 DEF QuietFrom

LEMMA ChooseIsQuiet ==
  ASSUME AppTypeOK, HoldsInOrder, NEW c \in calls, App!Choose(c)
  PROVE  QuietFrom(c)
<1>1. /\ c.stage = "dialog" /\ App!Stay
      /\ c.kind = "open" \/ (c.kind = "save" /\ c.mode = "new")
  BY DEF App!Choose, HoldsInOrder, HoldsIts
<1>2. CASE App!AnswerWith(c, "cancelled")
  BY <1>1, <1>2, CallFacts, GivingUp DEF App!Stay, CallAnswers
<1>3. ASSUME NEW f \in Files,
             App!Becomes(c, [c EXCEPT !.file = f,
                                      !.stage = IF c.kind = "open" THEN "read" ELSE "admit"])
      PROVE  QuietFrom(c)
  <2> DEFINE s == IF c.kind = "open" THEN "read" ELSE "admit"
             to == [c EXCEPT !.file = f, !.stage = s]
  <2>1. s \in CallStages /\ f \in Maybe(Files)
    BY DEF CallStages, Maybe
  <2>2. Same(c, to) /\ Has(to, s, c.answer, c.ticket, f, c.held, c.out)
    BY <2>1, CallFacts, MovedWithFile
  <2>3. App!Becomes(c, to)
    BY <1>3
  <2>4. \/ c.kind = "open" /\ s = "read"
        \/ c.kind = "save" /\ c.mode = "new" /\ s = "admit"
    BY <1>1
  <2> HIDE DEF to, s
  <2>5. Goes(c, to)
    BY <2>2, <2>4 DEF Goes, OpenGoes, SaveGoes, Has
  <2> QED BY <1>1, <2>2, <2>3, <2>5, CallFacts, GoingOn
<1> QED BY <1>2, <1>3 DEF App!Choose

LEMMA ReadIsQuiet ==
  ASSUME AppTypeOK, HoldsInOrder, NEW c \in calls, App!Read(c)
  PROVE  QuietFrom(c)
<1>1. c.kind = "open" /\ c.stage = "read" /\ App!Stay
  BY DEF App!Read, App!At
<1>2. CASE App!AnswerWith(c, "cancelled")
  BY <1>1, <1>2, CallFacts, GivingUp DEF App!Stay, CallAnswers
<1>3. CASE App!Becomes(c, [c EXCEPT !.stage = "bind", !.held = disk[c.file]])
  <2> DEFINE to == [c EXCEPT !.stage = "bind", !.held = disk[c.file]]
  <2>1. c.file \in Files /\ disk[c.file] \in FileState
    BY <1>1 DEF HoldsInOrder, HoldsIts, AppTypeOK
  <2>2. Same(c, to) /\ Has(to, "bind", c.answer, c.ticket, c.file, disk[c.file], c.out)
    BY <2>1, CallFacts, MovedWithHeld DEF CallStages, Maybe
  <2>3. App!Becomes(c, to)
    BY <1>3
  <2> HIDE DEF to
  <2>4. Goes(c, to)
    BY <1>1, <2>1, <2>2 DEF Goes, OpenGoes, Has
  <2> QED BY <1>1, <2>2, <2>3, <2>4, CallFacts, GoingOn
<1> QED BY <1>2, <1>3 DEF App!Read

LEMMA BindOpenIsQuiet ==
  ASSUME FilesAreNumbers, AppTypeOK, HoldsInOrder, NEW c \in calls, App!BindOpen(c)
  PROVE  QuietFrom(c)
<1>1. c.kind = "open" /\ c.stage = "bind" /\ App!Stay
  BY DEF App!BindOpen, App!At
<1>2. ASSUME App!AnswerWith(c, "error") \/ App!AnswerWith(c, "cancelled")
      PROVE  QuietFrom(c)
  BY <1>1, <1>2, CallFacts, GivingUp DEF App!Stay, CallAnswers
<1>3. ASSUME NEW editable \in BOOLEAN,
             App!Becomes(c, [c EXCEPT !.stage = "commit",
               !.out = [id |-> None, file |-> c.file, text |-> c.held.text,
                        mtime |-> c.held.mtime, editable |-> editable]])
      PROVE  QuietFrom(c)
  <2> DEFINE doc == [id |-> None, file |-> c.file, text |-> c.held.text,
                     mtime |-> c.held.mtime, editable |-> editable]
             to == [c EXCEPT !.stage = "commit", !.out = doc]
  <2>1. c.file \in Files /\ c.held \in FileState
    BY <1>1 DEF HoldsInOrder, HoldsIts
  <2>2. doc \in Document /\ doc.file = c.file /\ doc.text = c.held.text
    BY <2>1 DEF Document, FileState, Maybe
  <2>3. App!Becomes(c, to)
    BY <1>3
  <2> HIDE DEF doc
  <2>4. Same(c, to) /\ Has(to, "commit", c.answer, c.ticket, c.file, c.held, doc)
    BY <2>2, CallFacts, MovedWithOut DEF CallStages, Maybe
  <2>5. doc # None
    BY <2>2 DEF FilesAreNumbers
  <2> HIDE DEF to
  <2>6. Goes(c, to)
    BY <1>1, <2>1, <2>2, <2>4, <2>5 DEF Goes, OpenGoes, Has
  <2> QED BY <1>1, <2>3, <2>4, <2>6, CallFacts, GoingOn
<1> QED BY <1>2, <1>3 DEF App!BindOpen

LEMMA TakeTicketIsQuiet ==
  ASSUME AppTypeOK, HoldsInOrder, NEW c \in calls, App!TakeTicket(c)
  PROVE  QuietFrom(c)
<1> DEFINE to == [c EXCEPT !.stage = "prepare", !.ticket = host.gen]
<1>1. c.kind = "save" /\ c.stage = "sent" /\ App!Stay /\ App!Becomes(c, to)
  BY DEF App!TakeTicket, App!At
<1>2. host.gen \in Nat /\ host.gen <= host.gen
  BY CallFacts
<1>3. Same(c, to) /\ Has(to, "prepare", c.answer, host.gen, c.file, c.held, c.out)
  BY <1>2, CallFacts, MovedWithTicket DEF CallStages
<1> HIDE DEF to
<1>4. Goes(c, to)
  BY <1>1, <1>3 DEF Goes, SaveGoes, Has
<1> QED BY <1>1, <1>2, <1>3, <1>4, GoingOn

\* A save of the open document is let on only while that document is in custody.
LEMMA AdmissibleIsPressed ==
  ASSUME HoldsInOrder, AppTypeOK, NEW c \in calls, c.kind = "save", App!Admissible(c)
  PROVE  c.mode = "new" \/ Pressed(c)
BY DEF App!Admissible, App!SameDocument, Pressed, HoldsInOrder, HoldsIts, AppTypeOK, CallState, Maybe,
   SaveModes

LEMMA PrepareIsQuiet ==
  ASSUME FilesAreNumbers, CustodyInv, NEW c \in calls, App!Prepare(c)
  PROVE  QuietFrom(c)
<1> USE DEF CustodyInv
<1>1. c.kind = "save" /\ c.stage = "prepare" /\ App!Stay
  BY DEF App!Prepare, App!At
<1>2. CASE App!AnswerWith(c, "refused")
  BY <1>1, <1>2, CallFacts, GivingUp DEF App!Stay, CallAnswers
<1>3. CASE c.mode = "new" /\ App!To(c, "dialog")
  <2> DEFINE to == [c EXCEPT !.stage = "dialog"]
  <2>1. Same(c, to) /\ Has(to, "dialog", c.answer, c.ticket, c.file, c.held, c.out)
    BY CallFacts, Moved DEF CallStages
  <2>2. App!Becomes(c, to)
    BY <1>3 DEF App!To
  <2> HIDE DEF to
  <2>3. Goes(c, to)
    BY <1>1, <1>3, <2>1 DEF Goes, SaveGoes, Has
  <2> QED BY <1>1, <2>1, <2>2, <2>3, CallFacts, GoingOn
<1>4. CASE /\ App!Admissible(c) /\ c.mode # "new"
           /\ App!Becomes(c, [c EXCEPT !.stage = "admit", !.file = host.active.file])
  <2> DEFINE to == [c EXCEPT !.stage = "admit", !.file = host.active.file]
  <2>1. Pressed(c)
    BY <1>1, <1>4, AdmissibleIsPressed
  <2>2. host.active \in Document /\ HasNumber(host.active)
    BY <2>1, CallFacts DEF Pressed, Maybe, HasNumber
  <2>3. host.active.file \in Files
    BY <2>2 DEF DocumentsInOrder
  <2>4. Same(c, to) /\ Has(to, "admit", c.answer, c.ticket, host.active.file, c.held, c.out)
    BY <2>3, CallFacts, MovedWithFile DEF CallStages, Maybe
  <2>5. App!Becomes(c, to)
    BY <1>4
  <2> HIDE DEF to
  <2>6. Goes(c, to)
    BY <1>1, <2>1, <2>3, <2>4 DEF Goes, SaveGoes, Has
  <2> QED BY <1>1, <2>4, <2>5, <2>6, CallFacts, GoingOn
<1> QED BY <1>2, <1>3, <1>4 DEF App!Prepare

LEMMA AdmitIsQuiet ==
  ASSUME AppTypeOK, HoldsInOrder, NEW c \in calls, App!Admit(c)
  PROVE  QuietFrom(c)
<1>1. c.kind = "save" /\ c.stage = "admit" /\ App!Stay
  BY DEF App!Admit, App!At
<1>2. CASE App!AnswerWith(c, "cancelled") \/ App!AnswerWith(c, "refused")
  BY <1>1, <1>2, CallFacts, GivingUp DEF App!Stay, CallAnswers
<1>3. CASE /\ App!Admissible(c)
           /\ App!Becomes(c, [c EXCEPT !.stage = IF c.mode = "original" THEN "check" ELSE "bind",
                                       !.held = host.active])
  <2> DEFINE s == IF c.mode = "original" THEN "check" ELSE "bind"
             to == [c EXCEPT !.stage = s, !.held = host.active]
  <2>1. (c.mode = "new" \/ Pressed(c)) /\ s \in CallStages /\ s \in {"bind", "check"}
    BY <1>1, <1>3, AdmissibleIsPressed DEF CallStages
  <2>2. host.active \in Maybe(Document \cup FileState)
    BY CallFacts DEF Maybe
  <2>3. App!Becomes(c, to)
    BY <1>3
  <2> HIDE DEF s
  <2>4. Same(c, to) /\ Has(to, s, c.answer, c.ticket, c.file, host.active, c.out)
    BY <2>1, <2>2, CallFacts, MovedWithHeld
  <2> HIDE DEF to
  <2>5. Goes(c, to)
    BY <1>1, <2>1, <2>4 DEF Goes, SaveGoes, Has
  <2> QED BY <1>1, <2>3, <2>4, <2>5, CallFacts, GoingOn
<1> QED BY <1>2, <1>3 DEF App!Admit

LEMMA BindAndCheckAreQuiet ==
  ASSUME AppTypeOK, HoldsInOrder, NEW c \in calls, App!BindSave(c) \/ App!CheckOwner(c)
  PROVE  QuietFrom(c)
<1>1. c.kind = "save" /\ c.stage \in {"bind", "check"} /\ App!Stay
  BY DEF App!BindSave, App!CheckOwner, App!At
<1>2. CASE App!AnswerWith(c, "cancelled") \/ App!AnswerWith(c, "refused")
  BY <1>1, <1>2, CallFacts, GivingUp DEF App!Stay, CallAnswers
<1>3. ASSUME NEW s \in {"check", "write"}, App!To(c, s)
      PROVE  QuietFrom(c)
  <2> DEFINE to == [c EXCEPT !.stage = s]
  <2>1. Same(c, to) /\ Has(to, s, c.answer, c.ticket, c.file, c.held, c.out)
    BY CallFacts, Moved DEF CallStages
  <2>2. App!Becomes(c, to)
    BY <1>3 DEF App!To
  <2> HIDE DEF to
  <2>3. Goes(c, to)
    BY <1>1, <2>1 DEF Goes, SaveGoes, Has
  <2> QED BY <1>1, <2>1, <2>2, <2>3, CallFacts, GoingOn
<1> QED BY <1>2, <1>3 DEF App!BindSave, App!CheckOwner

\* The other steps of the host: a document enters custody, for an open or a save that still
\* owns the session; a save has lost it; a file is written; the session is reset.
Entered(c, to, id) ==
  /\ host' \in HostState /\ host'.gen = host.gen /\ host'.active \in Document
  /\ host'.active.id = id /\ host'.active.file = c.out.file
  /\ host'.active.text = c.out.text /\ host'.active.editable = c.out.editable
  /\ to.out = host'.active /\ to.ticket = c.ticket
  /\ UNCHANGED <<page, disk, did>>

OpenCommits(c, to) ==
  /\ App!Becomes(c, to) /\ Same(c, to) /\ App!At(c, "open", "commit") /\ App!Owns(c)
  /\ Answering(to, "document") /\ host'.ids = host.ids + 1 /\ Entered(c, to, host.ids + 1)

SaveCommits(c, to) ==
  /\ App!Becomes(c, to) /\ Same(c, to) /\ App!At(c, "save", "commit") /\ App!Owns(c)
  /\ Answering(to, "saved")
  /\ \/ c.mode = "new" /\ host'.ids = host.ids + 1 /\ Entered(c, to, host.ids + 1)
     \/ c.mode # "new" /\ host'.ids = host.ids /\ Entered(c, to, c.held.id)

SaveLost(c, to) ==
  /\ App!Becomes(c, to) /\ Same(c, to) /\ App!At(c, "save", "commit") /\ GivesUp(to)
  /\ to.ticket = c.ticket /\ UNCHANGED <<page, host, disk>>
  /\ did' = [did EXCEPT !.crossed = TRUE]

Writes(c, to) ==
  /\ App!Becomes(c, to) /\ Same(c, to) /\ App!At(c, "save", "write")
  /\ to.stage = "commit" /\ to.ticket = c.ticket /\ to.file = c.file /\ to.held = c.held
  /\ to.out \in Document /\ to.out.file = c.file /\ to.out.text = App!Written(c)
  /\ to.out.editable = (IF c.mode = "original" THEN c.held.editable ELSE TRUE)
  /\ disk' \in [Files -> FileState] /\ disk'[c.file].text = App!Written(c)
  /\ \A f \in Files \ {c.file} : disk'[f] = disk[f]
  /\ did' = [did EXCEPT !.crossed = @ \/
       \E o \in calls : o.kind = "open" /\ o.file = c.file /\ o.stage \in {"bind", "commit"}]
  /\ UNCHANGED <<page, host>>

HostResets(c, to) ==
  /\ App!Becomes(c, to) /\ Same(c, to) /\ App!At(c, "reset", "sent")
  /\ GivesUp(to) /\ to.ticket = c.ticket
  /\ host' \in HostState /\ host'.active = None /\ host'.ids = host.ids /\ host.gen <= host'.gen
  /\ UNCHANGED <<page, disk, did>>

LEMMA CommitOpenIs ==
  ASSUME FilesAreNumbers, CustodyInv, NEW c \in calls, App!CommitOpen(c)
  PROVE  QuietFrom(c) \/ \E to : OpenCommits(c, to)
<1> USE DEF CustodyInv
<1> DEFINE doc == [c.out EXCEPT !.id = host.ids + 1]
           to == [c EXCEPT !.stage = "answered", !.answer = "document", !.out = doc]
<1>1. App!At(c, "open", "commit") /\ UNCHANGED <<page, disk, did>>
  BY DEF App!CommitOpen
<1>2. CASE ~App!Owns(c) /\ App!AnswerWith(c, "cancelled") /\ UNCHANGED host
  BY <1>1, <1>2, CallFacts, GivingUp DEF CallAnswers, App!At
<1>3. CASE /\ App!Owns(c) /\ host' = [host EXCEPT !.active = doc, !.ids = @ + 1]
           /\ App!Becomes(c, to)
  <2>1. host.ids + 1 \in Nat /\ c.out \in Document
    BY <1>1, CallFacts DEF HoldsInOrder, HoldsIts, App!At, Maybe
  <2>2. /\ doc \in Document /\ doc.id = host.ids + 1 /\ doc.file = c.out.file
        /\ doc.text = c.out.text /\ doc.editable = c.out.editable
    BY <2>1 DEF Document, Maybe
  <2> HIDE DEF doc
  <2>3. Same(c, to) /\ Has(to, "answered", "document", c.ticket, c.file, c.held, doc)
    BY <2>2, CallFacts, MovedToDocument DEF CallAnswers, Maybe
  <2> HIDE DEF to
  <2>4. /\ host' \in HostState /\ host'.gen = host.gen /\ host'.active = doc
        /\ host'.ids = host.ids + 1
    BY <1>3, <2>1, <2>2, CallFacts DEF HostState, Maybe
  <2>5. OpenCommits(c, to)
    BY <1>1, <1>3, <2>2, <2>3, <2>4 DEF OpenCommits, Entered, Has, Answering
  <2> QED BY <2>5
<1> QED BY <1>2, <1>3 DEF App!CommitOpen

LEMMA CommitSaveIs ==
  ASSUME FilesAreNumbers, CustodyInv, NEW c \in calls, App!CommitSave(c)
  PROVE  \E to : SaveLost(c, to) \/ SaveCommits(c, to)
<1> USE DEF CustodyInv
<1> DEFINE id == IF c.mode = "new" THEN host.ids + 1 ELSE c.held.id
           doc == [c.out EXCEPT !.id = id]
           to == [c EXCEPT !.stage = "answered", !.answer = "saved", !.out = doc]
<1>1. App!At(c, "save", "commit") /\ UNCHANGED <<page, disk>>
  BY DEF App!CommitSave
<1>2. CASE App!AnswerWith(c, "cancelled") /\ UNCHANGED host /\ did' = [did EXCEPT !.crossed = TRUE]
  <2> DEFINE gone == [c EXCEPT !.stage = "answered", !.answer = "cancelled"]
  <2>1. App!Becomes(c, gone)
    BY <1>2 DEF App!AnswerWith
  <2>2. Same(c, gone) /\ Has(gone, "answered", "cancelled", c.ticket, c.file, c.held, c.out)
    BY CallFacts, MovedToAnswer DEF CallAnswers
  <2> HIDE DEF gone
  <2>3. SaveLost(c, gone)
    BY <1>1, <1>2, <2>1, <2>2 DEF SaveLost, Has, GivesUp
  <2> QED BY <2>3
<1>3. CASE /\ App!Owns(c) /\ App!Becomes(c, to) /\ UNCHANGED did
           /\ host' = [host EXCEPT !.active = doc,
                                   !.ids = IF c.mode = "new" THEN @ + 1 ELSE @]
  <2>1. host.ids + 1 \in Nat /\ c.out \in Document /\ c.mode \in SaveModes
    BY <1>1, CallFacts DEF HoldsInOrder, HoldsIts, App!At, Maybe, CallState
  <2>2. c.mode # "new" => c.shown # None /\ c.held \in Document /\ c.held.id = c.shown.id
    BY <1>1 DEF HoldsInOrder, HoldsIts, App!At
  <2>3. c.mode # "new" => c.shown.id \in Nat
    BY <2>2, CallFacts DEF DocumentsInOrder, HasNumber, Maybe
  <2>4. id \in Nat
    BY <2>1, <2>2, <2>3
  <2>5. /\ doc \in Document /\ doc.id = id /\ doc.file = c.out.file
        /\ doc.text = c.out.text /\ doc.editable = c.out.editable
    BY <2>1, <2>4 DEF Document, Maybe
  <2> HIDE DEF doc
  <2>6. Same(c, to) /\ Has(to, "answered", "saved", c.ticket, c.file, c.held, doc)
    BY <2>5, CallFacts, MovedToDocument DEF CallAnswers, Maybe
  <2> HIDE DEF to
  <2>7. /\ host' \in HostState /\ host'.gen = host.gen /\ host'.active = doc
        /\ host'.ids = IF c.mode = "new" THEN host.ids + 1 ELSE host.ids
    BY <1>3, <2>1, <2>5, CallFacts DEF HostState, Maybe
  <2>8. SaveCommits(c, to)
    BY <1>1, <1>3, <2>5, <2>6, <2>7 DEF SaveCommits, Entered, Has, Answering
  <2> QED BY <2>8
<1> QED BY <1>2, <1>3 DEF App!CommitSave

LEMMA WriteIs ==
  ASSUME FilesAreNumbers, CustodyInv, NEW c \in calls, App!Write(c)
  PROVE  QuietFrom(c) \/ \E to : Writes(c, to)
<1> USE DEF CustodyInv
<1> DEFINE text == App!Written(c)
           mtime == disk[c.file].mtime + 1
           editable == IF c.mode = "original" THEN c.held.editable ELSE TRUE
           doc == [id |-> None, file |-> c.file, text |-> text, mtime |-> mtime,
                   editable |-> editable]
           to == [c EXCEPT !.stage = "commit", !.out = doc]
<1>1. App!At(c, "save", "write") /\ UNCHANGED <<page, host>>
  BY DEF App!Write
<1>2. CASE App!AnswerWith(c, "refused") /\ UNCHANGED <<disk, did>>
  BY <1>1, <1>2, CallFacts, GivingUp DEF CallAnswers, App!At
<1>3. CASE /\ disk' = [disk EXCEPT ![c.file] = [text |-> App!Written(c), mtime |-> @.mtime + 1]]
           /\ App!Becomes(c, to)
           /\ did' = [did EXCEPT !.crossed = @ \/
                \E o \in calls : o.kind = "open" /\ o.file = c.file /\ o.stage \in {"bind", "commit"}]
  <2>1. /\ c.file \in Files /\ disk \in [Files -> FileState]
        /\ c.mode # "new" => c.held \in Document
    BY <1>1 DEF HoldsInOrder, HoldsIts, AppTypeOK, App!At
  <2>2. disk[c.file] \in FileState
    BY <2>1
  <2>3. mtime \in Nat
    BY <2>2 DEF FileState
  <2>4. text \in Nat /\ editable \in BOOLEAN
    BY <2>1, CallFacts DEF App!Written, Document
  <2> HIDE DEF text, mtime, editable
  <2>5. /\ doc \in Document /\ doc.file = c.file /\ doc.text = text /\ doc.editable = editable
    BY <2>1, <2>3, <2>4 DEF Document, Maybe
  <2> HIDE DEF doc
  <2>6. Same(c, to) /\ Has(to, "commit", c.answer, c.ticket, c.file, c.held, doc)
    BY <2>5, CallFacts, MovedWithOut DEF CallStages, Maybe
  <2> HIDE DEF to
  <2>7. disk' = [disk EXCEPT ![c.file] = [text |-> text, mtime |-> mtime]]
    BY <1>3, <2>1 DEF text, mtime
  <2>8. /\ disk' \in [Files -> FileState] /\ disk'[c.file].text = text
        /\ \A f \in Files \ {c.file} : disk'[f] = disk[f]
    BY <2>1, <2>3, <2>4, <2>7 DEF FileState
  <2>9. Writes(c, to)
    BY <1>1, <1>3, <2>5, <2>6, <2>8 DEF Writes, Has, text, editable
  <2> QED BY <2>9
<1> QED BY <1>2, <1>3 DEF App!Write

LEMMA HostResetIs ==
  ASSUME AppTypeOK, HoldsInOrder, NEW c \in calls, App!HostReset(c)
  PROVE  \E to : HostResets(c, to)
<1> DEFINE to == [c EXCEPT !.stage = "answered", !.answer = "reset"]
<1>1. /\ App!At(c, "reset", "sent") /\ App!Becomes(c, to) /\ UNCHANGED <<page, disk, did>>
      /\ host' = [host EXCEPT !.gen = @ + 1, !.latest = @ + 1, !.active = None]
  BY DEF App!HostReset, App!AnswerWith
<1>2. Same(c, to) /\ Has(to, "answered", "reset", c.ticket, c.file, c.held, c.out)
  BY CallFacts, MovedToAnswer DEF CallAnswers
<1> HIDE DEF to
<1>3. host.gen \in Nat /\ host.gen + 1 \in Nat /\ host.latest + 1 \in Nat
  BY CallFacts DEF HostState
<1>4. /\ host' \in HostState /\ host'.active = None /\ host'.ids = host.ids
      /\ host'.gen = host.gen + 1
  BY <1>1, <1>3, CallFacts DEF HostState, Maybe
<1>5. HostResets(c, to)
  BY <1>1, <1>2, <1>3, <1>4 DEF HostResets, Has, GivesUp
<1> QED BY <1>5

\* A step of the host is one of these.
HostStep(c, to) ==
  \/ QuietFor(c, to) \/ OpenCommits(c, to) \/ SaveCommits(c, to) \/ SaveLost(c, to)
  \/ Writes(c, to) \/ HostResets(c, to)

LEMMA ServeIs ==
  ASSUME FilesAreNumbers, CustodyInv, App!Serve
  PROVE  \E c \in calls : \E to : HostStep(c, to)
<1>1. AppTypeOK /\ HoldsInOrder
  BY DEF CustodyInv
<1>2. ASSUME NEW c \in calls,
             \/ App!Claim(c) \/ App!Compiled(c) \/ App!BeginOpen(c) \/ App!Choose(c)
             \/ App!Read(c) \/ App!BindOpen(c) \/ App!TakeTicket(c) \/ App!Prepare(c)
             \/ App!Admit(c) \/ App!BindSave(c) \/ App!CheckOwner(c)
      PROVE  QuietFrom(c)
  BY <1>1, <1>2, ClaimIsQuiet, CompiledIsQuiet, BeginOpenIsQuiet, ChooseIsQuiet, ReadIsQuiet,
     BindOpenIsQuiet, TakeTicketIsQuiet, PrepareIsQuiet, AdmitIsQuiet, BindAndCheckAreQuiet
<1> QED BY <1>1, <1>2, CommitOpenIs, CommitSaveIs, WriteIs, HostResetIs
    DEF App!Serve, QuietFrom, HostStep

-----------------------------------------------------------------------------
(* The steps of the page.                                                  *)

\* A call as the page makes it, from what it shows.
Made(c) ==
  /\ c \in CallState /\ c.stage = "sent" /\ c.ticket = 0 /\ c.shown = page.doc
  /\ c.kind = "save" => c.mode # None /\ (c.mode # "new" => page.doc # None)

FromPage(c) ==
  Made(c) /\ c.rev = page.rev /\ c.gen = page.gen /\ c.text = page.profile /\ c.dirty = page.dirty

\* A user operation, which overtakes a reset under way.
UserActs ==
  /\ did' \in DidState /\ UNCHANGED <<host, disk>>
  /\ ~did'.overtaken => ~did.overtaken /\ ~Resetting
  /\ ~did'.crossed => ~did.crossed

\* What no step of the page but its own changes.
SameDraft == page'.rev = page.rev /\ page'.gen = page.gen /\ page'.profile = page.profile
SameShown == page'.doc = page.doc /\ page'.saving = page.saving

LEMMA ActIs ==
  ASSUME NEW d \in DidState, App!Act(d), d.overtaken = did.overtaken, d.crossed = did.crossed,
         UNCHANGED <<host, disk>>
  PROVE  UserActs
<1> DEFINE over == d.overtaken \/ \E c \in calls : c.kind = "reset"
<1>1. did' = [d EXCEPT !.acts = @ + 1, !.overtaken = over]
  BY DEF App!Act
<1>2. over \in BOOLEAN /\ (~over => ~did.overtaken /\ ~Resetting) /\ d.acts + 1 \in Nat
  BY DEF Resetting, DidState
<1> HIDE DEF over
<1>3. did' \in DidState /\ did'.overtaken = over /\ did'.crossed = did.crossed
  BY <1>1, <1>2 DEF DidState
<1> QED BY <1>2, <1>3 DEF UserActs

LEMMA EditIs ==
  ASSUME AppTypeOK, App!Edit
  PROVE  /\ UserActs /\ page' \in LabState /\ SameShown /\ calls' = calls
         /\ page'.rev = page.rev + 1 /\ page'.gen = page.gen
         /\ page'.dirty /\ page'.css = None /\ page'.adopted = page.adopted
<1>1. PICK text \in {did.text + 1, 0} :
        /\ page' = App!Edited(text)
        /\ App!Act([did EXCEPT !.edits = @ + 1, !.text = IF text = 0 THEN @ ELSE text])
  BY DEF App!Edit
<1>2. page \in LabState /\ did \in DidState /\ did.text + 1 \in Nat /\ did.edits + 1 \in Nat
  BY DEF AppTypeOK, DidState
<1>3. text \in Nat /\ page.rev + 1 \in Nat
  BY <1>2 DEF LabState
<1> DEFINE d == [did EXCEPT !.edits = @ + 1, !.text = IF text = 0 THEN @ ELSE text]
<1>4. d \in DidState /\ d.overtaken = did.overtaken /\ d.crossed = did.crossed
  BY <1>2, <1>3 DEF DidState
<1>5. UNCHANGED <<host, disk, calls>> /\ App!Act(d)
  BY <1>1 DEF App!Edit
<1> HIDE DEF d
<1>6. UserActs
  BY <1>4, <1>5, ActIs
<1>7. /\ page' \in LabState /\ SameShown /\ page'.rev = page.rev + 1 /\ page'.gen = page.gen
      /\ page'.dirty /\ page'.css = None /\ page'.adopted = page.adopted
  BY <1>1, <1>2, <1>3 DEF App!Edited, LabState, SameShown, Maybe
<1> QED BY <1>5, <1>6, <1>7

LEMMA CallIs ==
  ASSUME AppTypeOK, NEW kind \in {"compile", "open", "save", "reset"}
  PROVE  /\ App!Call(kind) \in CallState /\ App!Call(kind).kind = kind
         /\ App!Call(kind).stage = "sent" /\ App!Call(kind).ticket = 0
         /\ App!Call(kind).shown = page.doc /\ App!Call(kind).mode = None
         /\ App!Call(kind).rev = page.rev /\ App!Call(kind).gen = page.gen
         /\ App!Call(kind).text = page.profile /\ App!Call(kind).dirty = page.dirty
<1> DEFINE c == App!Call(kind)
<1>1. page \in LabState /\ did.acts \in Nat
  BY DEF AppTypeOK, DidState
<1>2. /\ c.kind = kind /\ c.stage = "sent" /\ c.ticket = 0 /\ c.shown = page.doc /\ c.mode = None
      /\ c.rev = page.rev /\ c.gen = page.gen /\ c.text = page.profile /\ c.dirty = page.dirty
  BY DEF App!Call
<1>3. c \in CallState
  BY <1>1 DEF App!Call, CallState, CallStages, CallAnswers, LabState, Maybe
<1> QED BY <1>2, <1>3

LEMMA CompileCallIs ==
  ASSUME AppTypeOK, NEW p, p.op \in Nat, p.rev \in Nat, NEW text \in Nat
  PROVE  LET c == App!CompileCall(p, text)
         IN /\ c \in CallState /\ c.kind = "compile" /\ c.stage = "sent" /\ c.ticket = 0
            /\ c.shown = page.doc /\ c.rev = p.rev /\ c.gen = page.gen /\ c.text = text
            /\ c.dirty = page.dirty
<1> DEFINE c == App!Call("compile")
           to == [c EXCEPT !.op = p.op + 1, !.rev = p.rev, !.text = text]
<1>1. /\ c \in CallState /\ c.kind = "compile" /\ c.stage = "sent" /\ c.ticket = 0
      /\ c.shown = page.doc /\ c.gen = page.gen /\ c.dirty = page.dirty
  BY CallIs
<1>2. App!CompileCall(p, text) = to /\ p.op + 1 \in Nat
  BY DEF App!CompileCall
<1> HIDE DEF c
<1>3. /\ to \in CallState /\ to.kind = "compile" /\ to.stage = "sent" /\ to.ticket = 0
      /\ to.shown = page.doc /\ to.rev = p.rev /\ to.gen = page.gen /\ to.text = text
      /\ to.dirty = page.dirty
  BY <1>1, <1>2 DEF CallState
<1> QED BY <1>2, <1>3

LEMMA CompileIs ==
  ASSUME AppTypeOK, App!Compile
  PROVE  /\ UserActs /\ page' \in LabState /\ SameDraft /\ SameShown /\ page'.dirty = page.dirty
         /\ page'.css = page.css /\ page'.adopted = page.adopted
         /\ \E c : calls' = calls \cup {c} /\ FromPage(c) /\ c.kind = "compile"
<1>1. page \in LabState /\ did \in DidState
  BY DEF AppTypeOK, DidState
<1>2. page.op \in Nat /\ page.op + 1 \in Nat /\ page.rev \in Nat /\ page.profile \in Nat
  BY <1>1 DEF LabState
<1>3. UserActs
  BY <1>1, ActIs DEF App!Compile
<1>4. /\ page' \in LabState /\ SameDraft /\ SameShown /\ page'.dirty = page.dirty
      /\ page'.css = page.css /\ page'.adopted = page.adopted
  BY <1>1, <1>2 DEF App!Compile, App!RunCompile, LabState, SameDraft, SameShown, Maybe
<1>5. \E c : calls' = calls \cup {c} /\ FromPage(c) /\ c.kind = "compile"
  BY <1>2, CompileCallIs DEF App!Compile, FromPage, Made
<1> QED BY <1>3, <1>4, <1>5

LEMMA OpenIs ==
  ASSUME AppTypeOK, App!Open
  PROVE  /\ UserActs /\ page' = page
         /\ \E c : calls' = calls \cup {c} /\ FromPage(c) /\ c.kind = "open"
<1>1. UserActs
  BY ActIs DEF AppTypeOK, DidState, App!Open
<1> QED BY <1>1, CallIs DEF App!Open, FromPage, Made

LEMMA SaveIs ==
  ASSUME FilesAreNumbers, AppTypeOK, App!Save
  PROVE  /\ UserActs /\ page' \in LabState /\ SameDraft /\ page'.dirty = page.dirty
         /\ page'.css = page.css /\ page'.adopted = page.adopted /\ page'.doc = page.doc
         /\ ~page.saving /\ page'.saving
         /\ \E c : calls' = calls \cup {c} /\ FromPage(c) /\ c.kind = "save"
<1>1. UserActs
  BY ActIs DEF AppTypeOK, DidState, App!Save
<1>2. page \in LabState
  BY DEF AppTypeOK
<1>3. /\ page' \in LabState /\ SameDraft /\ page'.dirty = page.dirty
      /\ page'.css = page.css /\ page'.adopted = page.adopted /\ page'.doc = page.doc
      /\ ~page.saving /\ page'.saving
  BY <1>2 DEF App!Save, LabState, SameDraft
<1>4. PICK mode \in App!SaveModes : calls' = calls \cup {[App!Call("save") EXCEPT !.mode = mode]}
  BY DEF App!Save
<1> DEFINE c == App!Call("save")
           to == [c EXCEPT !.mode = mode]
<1>5. /\ c \in CallState /\ c.kind = "save" /\ c.stage = "sent" /\ c.ticket = 0
      /\ c.shown = page.doc /\ c.rev = page.rev /\ c.gen = page.gen /\ c.text = page.profile
      /\ c.dirty = page.dirty
  BY CallIs
<1>6. mode \in SaveModes /\ mode # None /\ (mode # "new" => page.doc # None)
  BY DEF App!SaveModes, SaveModes, FilesAreNumbers
<1> HIDE DEF c
<1>7. FromPage(to) /\ to.kind = "save"
  BY <1>5, <1>6 DEF FromPage, Made, CallState, Maybe
<1> QED BY <1>1, <1>3, <1>4, <1>7 DEF c

LEMMA ResetIs ==
  ASSUME AppTypeOK, App!Reset
  PROVE  /\ UserActs /\ page' \in LabState /\ SameShown
         /\ page'.rev = page.rev + 1 /\ page'.gen = page.gen + 1 /\ page'.profile = page.profile
         /\ page'.dirty = page.dirty /\ page'.css = page.css /\ page'.adopted = page.adopted
         /\ \E c : calls' = calls \cup {c} /\ FromPage(c) /\ c.kind = "reset"
<1>1. page \in LabState /\ did \in DidState /\ page.rev + 1 \in Nat /\ page.gen + 1 \in Nat
  BY DEF AppTypeOK, DidState, LabState
<1>2. UserActs
  BY <1>1, ActIs DEF App!Reset
<1>3. /\ page' \in LabState /\ SameShown
      /\ page'.rev = page.rev + 1 /\ page'.gen = page.gen + 1 /\ page'.profile = page.profile
      /\ page'.dirty = page.dirty /\ page'.css = page.css /\ page'.adopted = page.adopted
  BY <1>1 DEF App!Reset, LabState, SameShown
<1> QED BY <1>2, <1>3, CallIs DEF App!Reset, FromPage, Made

LEMMA AdoptIs ==
  ASSUME AppTypeOK, App!Adopt
  PROVE  /\ UserActs /\ page' \in LabState /\ SameDraft /\ SameShown /\ page'.dirty = page.dirty
         /\ page'.css = page.css /\ calls' = calls
         /\ page.css # None /\ page'.adopted.css = page.css /\ page'.adopted.of = page.profile
<1>1. page \in LabState /\ did \in DidState
  BY DEF AppTypeOK, DidState
<1>2. UserActs
  BY <1>1, ActIs DEF App!Adopt
<1>3. /\ page' \in LabState /\ SameDraft /\ SameShown /\ page'.dirty = page.dirty
      /\ page'.css = page.css /\ page'.adopted.css = page.css /\ page'.adopted.of = page.profile
  BY <1>1 DEF App!Adopt, LabState, SameDraft, SameShown, Maybe
<1> QED BY <1>2, <1>3 DEF App!Adopt

\* An answer is taken: the call is gone.
Taken(c) ==
  /\ c \in calls /\ calls' = calls \ {c} /\ c.stage = "answered" /\ page' \in LabState
  /\ UNCHANGED <<host, disk, did>>

LEMMA AnswerFacts ==
  ASSUME AppTypeOK, NEW c \in calls, NEW kind, App!Answered(c, kind), App!Done(c),
         page' \in LabState, UNCHANGED <<host, disk, did>>
  PROVE  Taken(c)
BY DEF App!Answered, App!Done, Taken

LEMMA CompileAnsweredIs ==
  ASSUME AppTypeOK, NEW c \in calls, App!CompileAnswered(c)
  PROVE  /\ Taken(c) /\ c.kind = "compile" /\ SameDraft /\ SameShown
         /\ page'.dirty = page.dirty /\ page'.adopted = page.adopted
         /\ \/ page'.css = page.css
            \/ page.rev = c.rev /\ page'.css \in {c.text, None}
<1> DEFINE valid == IF c.answer = "css" THEN c.text ELSE None
           counts == page.running = c.op /\ page.rev = c.rev /\ c.answer # "error"
           p == IF counts THEN [page EXCEPT !.compiled = c.rev, !.css = valid] ELSE page
<1>1. page \in LabState /\ c.text \in Nat /\ c.rev \in Nat
  BY DEF AppTypeOK, CallState
<1>2. page' = App!Settle(p, c)
  BY DEF App!CompileAnswered
<1>3. valid \in Maybe(Nat) /\ valid \in {c.text, None}
  BY <1>1 DEF Maybe
<1> HIDE DEF valid
<1>4. /\ p \in LabState /\ p.rev = page.rev /\ p.gen = page.gen /\ p.profile = page.profile
      /\ p.doc = page.doc /\ p.saving = page.saving /\ p.dirty = page.dirty
      /\ p.adopted = page.adopted
      /\ p.css = page.css \/ (page.rev = c.rev /\ p.css \in {c.text, None})
  BY <1>1, <1>3 DEF LabState, Maybe
<1> HIDE DEF p
<1>5. /\ page' \in LabState /\ page'.rev = p.rev /\ page'.gen = p.gen /\ page'.profile = p.profile
      /\ page'.doc = p.doc /\ page'.saving = p.saving /\ page'.dirty = p.dirty
      /\ page'.adopted = p.adopted /\ page'.css = p.css
  BY <1>2, <1>4 DEF App!Settle, LabState, Maybe
<1>6. Taken(c) /\ c.kind = "compile"
  BY <1>5 DEF App!CompileAnswered, App!Answered, App!Done, Taken
<1> QED BY <1>4, <1>5, <1>6 DEF SameDraft, SameShown

\* An open whose document the page shows; it may start a compile.
Shows(c) ==
  /\ c.kind = "open" /\ Answering(c, "document") /\ page.rev = c.rev /\ c.out \in Document
  /\ page' \in LabState /\ page'.doc = c.out /\ page'.saving = page.saving
  /\ page'.rev = page.rev + 1 /\ page'.gen = page.gen + 1 /\ page'.dirty = FALSE
  /\ page'.css = None /\ page'.adopted = None
  /\ page'.profile = (IF c.out.editable THEN c.out.text ELSE page.profile)
  /\ UNCHANGED <<host, disk, did>>
  /\ \/ calls' = calls \ {c}
     \/ \E to : /\ calls' = (calls \ {c}) \cup {to} /\ Made(to) /\ to.kind = "compile"
                /\ to.rev = page'.rev /\ to.gen = page.gen /\ to.text = page'.profile

LEMMA OpenedIs ==
  ASSUME AppTypeOK, NEW c \in calls, c.out \in Document
  PROVE  /\ App!Opened(c) \in LabState /\ App!Opened(c).doc = c.out
         /\ App!Opened(c).saving = page.saving
         /\ App!Opened(c).rev = page.rev + 1 /\ App!Opened(c).gen = page.gen + 1
         /\ App!Opened(c).dirty = FALSE /\ App!Opened(c).css = None
         /\ App!Opened(c).adopted = None
         /\ App!Opened(c).profile = (IF c.out.editable THEN c.out.text ELSE page.profile)
<1>1. page \in LabState /\ c.out.text \in Nat
  BY DEF AppTypeOK, Document
<1>2. page.rev + 1 \in Nat /\ page.gen + 1 \in Nat /\ page.profile \in Nat
  BY <1>1 DEF LabState
<1> DEFINE text == IF c.out.editable THEN c.out.text ELSE page.profile
<1>3. text \in Nat
  BY <1>1, <1>2
<1> DEFINE rev == page.rev + 1
           gen == page.gen + 1
<1>4. App!Opened(c) =
        [page EXCEPT !.rev = rev, !.gen = gen, !.running = None,
           !.compiling = FALSE, !.doc = c.out, !.dirty = FALSE, !.compiled = None,
           !.adopted = None, !.css = None, !.profile = text]
  BY <1>1 DEF App!Opened, LabState
<1>5. rev \in Nat /\ gen \in Nat
  BY <1>2
<1> HIDE DEF text, rev, gen
<1>6. /\ App!Opened(c).doc = c.out /\ App!Opened(c).saving = page.saving
      /\ App!Opened(c).rev = rev /\ App!Opened(c).gen = gen
      /\ App!Opened(c).dirty = FALSE /\ App!Opened(c).css = None
      /\ App!Opened(c).adopted = None /\ App!Opened(c).profile = text
  BY <1>1, <1>4 DEF LabState
<1>7. App!Opened(c) \in LabState
  <2> DEFINE p == [page EXCEPT !.rev = rev, !.gen = gen, !.running = None, !.compiling = FALSE]
             q == [p EXCEPT !.doc = c.out, !.dirty = FALSE, !.compiled = None]
  <2>1. p \in LabState
    BY <1>1, <1>5 DEF LabState, Maybe
  <2>2. App!Opened(c) = [q EXCEPT !.adopted = None, !.css = None, !.profile = text]
    BY <1>4
  <2> HIDE DEF p
  <2>3. q \in LabState
    BY <2>1 DEF LabState, Maybe
  <2> HIDE DEF q
  <2> QED BY <1>3, <2>2, <2>3 DEF LabState, Maybe
<1> QED BY <1>6, <1>7 DEF text, rev, gen

LEMMA OpenAnsweredIs ==
  ASSUME AppTypeOK, HoldsInOrder, NEW c \in calls, App!OpenAnswered(c)
  PROVE  c.kind = "open" /\ (Shows(c) \/ (Taken(c) /\ page' = page))
<1>1. c.kind = "open" /\ c.stage = "answered" /\ UNCHANGED <<host, disk, did>> /\ page \in LabState
  BY DEF App!OpenAnswered, App!Answered, AppTypeOK
<1>2. CASE page' = page /\ App!Done(c)
  BY <1>1, <1>2 DEF App!Done, Taken
<1>3. CASE c.answer = "document" /\ page.rev = c.rev
  <2>1. c.out \in Document /\ Answering(c, "document")
    BY <1>1, <1>3, CallFacts DEF HoldsInOrder, HoldsIts, Documented, Answering, Maybe
  <2> DEFINE p == App!Opened(c)
             to == [App!CompileCall(p, c.out.text) EXCEPT !.n = c.n]
  <2>2. /\ p \in LabState /\ p.doc = c.out /\ p.saving = page.saving
        /\ p.rev = page.rev + 1 /\ p.gen = page.gen + 1
        /\ p.dirty = FALSE /\ p.css = None /\ p.adopted = None
        /\ p.profile = (IF c.out.editable THEN c.out.text ELSE page.profile)
    BY <2>1, OpenedIs
  <2>3. CASE page' = p /\ App!Done(c)
    BY <1>1, <1>3, <2>1, <2>2, <2>3 DEF App!Done, Shows
  <2>4. CASE /\ c.out.editable /\ page' = App!RunCompile(p, c.out.text)
             /\ calls' = (calls \ {c}) \cup {to}
    <3>1. p.op \in Nat /\ p.rev \in Nat /\ p.op + 1 \in Nat /\ c.out.text \in Nat /\ c.n \in Nat
      BY <2>1, <2>2 DEF LabState, Document, AppTypeOK, CallState
    <3> DEFINE made == App!CompileCall(p, c.out.text)
    <3>2. /\ made \in CallState /\ made.kind = "compile" /\ made.stage = "sent"
          /\ made.ticket = 0 /\ made.shown = page.doc /\ made.rev = p.rev
          /\ made.gen = page.gen /\ made.text = c.out.text
      BY <3>1, CompileCallIs
    <3> HIDE DEF made, p
    <3>3. /\ to \in CallState /\ to.kind = "compile" /\ to.stage = "sent" /\ to.ticket = 0
          /\ to.shown = page.doc /\ to.rev = p.rev /\ to.gen = page.gen /\ to.text = c.out.text
      BY <3>1, <3>2 DEF CallState, made
    <3> HIDE DEF to
    <3>4. /\ page' \in LabState /\ page'.doc = p.doc /\ page'.saving = p.saving
          /\ page'.rev = p.rev /\ page'.gen = p.gen /\ page'.dirty = p.dirty
          /\ page'.css = p.css /\ page'.adopted = p.adopted /\ page'.profile = p.profile
      BY <2>2, <2>4, <3>1 DEF App!RunCompile, LabState, Maybe
    <3>5. Made(to)
      BY <3>3 DEF Made
    <3> QED BY <1>1, <1>3, <2>1, <2>2, <2>4, <3>3, <3>4, <3>5 DEF Shows
  <2> QED BY <1>3, <2>3, <2>4 DEF App!OpenAnswered
<1> QED BY <1>1, <1>2, <1>3 DEF App!OpenAnswered

LEMMA SaveAnsweredIs ==
  ASSUME AppTypeOK, HoldsInOrder, NEW c \in calls, App!SaveAnswered(c)
  PROVE  /\ Taken(c) /\ c.kind = "save" /\ SameDraft
         /\ page'.css = page.css /\ page'.adopted = page.adopted /\ ~page'.saving
         /\ \/ /\ page.gen = c.gen /\ Answering(c, "saved") /\ page'.doc = c.out
               /\ ~page'.dirty => ~page.dirty \/ App!CleanAfter(c)
            \/ /\ ~(page.gen = c.gen /\ Answering(c, "saved"))
               /\ page'.doc = page.doc /\ page'.dirty = page.dirty
<1>1. c.kind = "save" /\ c.stage = "answered" /\ page \in LabState
  BY DEF App!SaveAnswered, App!Answered, AppTypeOK
<1>2. CASE page.gen = c.gen /\ c.answer = "saved"
  <2> DEFINE dirty == page.dirty /\ ~App!CleanAfter(c)
  <2>1. page' = [page EXCEPT !.saving = FALSE, !.doc = c.out, !.dirty = dirty]
    BY <1>1, <1>2 DEF App!SaveAnswered
  <2>2. dirty \in BOOLEAN /\ (~dirty => ~page.dirty \/ App!CleanAfter(c)) /\ c.out \in Maybe(Document)
    BY <1>1, CallFacts DEF LabState
  <2> HIDE DEF dirty
  <2>3. /\ page' \in LabState /\ SameDraft /\ page'.css = page.css /\ page'.saving = FALSE
        /\ page'.adopted = page.adopted /\ page'.doc = c.out /\ page'.dirty = dirty
    BY <1>1, <2>1, <2>2 DEF LabState, SameDraft
  <2>4. Taken(c)
    BY <1>1, <2>3 DEF App!SaveAnswered, App!Done, Taken
  <2> QED BY <1>1, <1>2, <2>2, <2>3, <2>4 DEF Answering
<1>3. CASE ~(page.gen = c.gen /\ c.answer = "saved")
  <2>1. page' = [page EXCEPT !.saving = FALSE]
    BY <1>3 DEF App!SaveAnswered
  <2>2. /\ page' \in LabState /\ SameDraft /\ page'.css = page.css /\ page'.saving = FALSE
        /\ page'.adopted = page.adopted /\ page'.doc = page.doc /\ page'.dirty = page.dirty
    BY <1>1, <2>1 DEF LabState, SameDraft
  <2>3. Taken(c)
    BY <1>1, <2>2 DEF App!SaveAnswered, App!Done, Taken
  <2> QED BY <1>1, <1>3, <2>2, <2>3 DEF Answering
<1> QED BY <1>2, <1>3

LEMMA ResetAnsweredIs ==
  ASSUME AppTypeOK, NEW c \in calls, App!ResetAnswered(c)
  PROVE  /\ Taken(c) /\ c.kind = "reset"
         /\ page'.rev = page.rev /\ page'.gen = page.gen /\ page'.saving = page.saving
         /\ page'.doc = None /\ page'.css = None /\ page'.adopted = None
<1>1. c.kind = "reset" /\ c.stage = "answered" /\ page \in LabState
  BY DEF App!ResetAnswered, App!Answered, AppTypeOK
<1>2. /\ page' \in LabState /\ page'.rev = page.rev /\ page'.gen = page.gen
      /\ page'.saving = page.saving /\ page'.doc = None /\ page'.css = None
      /\ page'.adopted = None
  BY <1>1 DEF App!ResetAnswered, LabState, Maybe
<1> QED BY <1>1, <1>2 DEF App!ResetAnswered, App!Done, Taken

-----------------------------------------------------------------------------
(* Custody is kept.                                                        *)

LEMMA CustodyInit ==
  ASSUME FilesAreNumbers, App!Init
  PROVE  CustodyInv
<1>1. App!Cardinality(Files) \in Nat
  <2>1. App!Cardinality(Files) = Cardinality(Files)
    BY DEF App!Cardinality, Cardinality
  <2> QED BY <2>1, FS_CardinalityType DEF FilesAreNumbers
<1>2. AppTypeOK
  <2>1. page \in LabState
    BY DEF App!Init, LabState, Maybe
  <2>2. host \in HostState
    BY DEF App!Init, HostState, Maybe
  <2>3. disk \in [Files -> FileState]
    BY DEF App!Init, FileState, FilesAreNumbers
  <2>4. did \in DidState
    BY <1>1 DEF App!Init, DidState
  <2>5. calls \in SUBSET CallState
    BY DEF App!Init, CallState, CallStages, CallAnswers, Maybe
  <2> QED BY <2>1, <2>2, <2>3, <2>4, <2>5 DEF AppTypeOK
<1>3. page.doc = None /\ host.active = None /\ host.gen = 0
  BY DEF App!Init
<1>4. \A c \in calls : c.shown = None /\ c.stage = "sent" /\ c.kind = "compile" /\ c.ticket = 0
  BY DEF App!Init
<1>5. \A d : ~HasNumber(d)
  BY <1>3, <1>4 DEF HasNumber, Documented, Answering
<1>6. HoldsInOrder
  BY <1>3, <1>4 DEF HoldsInOrder, HoldsIts, Documented, Answering
<1> QED BY <1>2, <1>5, <1>6 DEF CustodyInv, DocumentsInOrder

\* Documents stay in order when those of a step were there before, with their files, or are
\* the one that it numbers.
LEMMA DocumentsStay ==
  ASSUME AppTypeOK, DocumentsInOrder, AppTypeOK', host'.ids \in {host.ids, host.ids + 1},
         NEW f \in Files,
         \A d \in Document : HasNumber(d)' =>
           \/ \E e \in Document : HasNumber(e) /\ e.id = d.id /\ e.file = d.file
           \/ host'.ids = host.ids + 1 /\ d.id = host.ids + 1 /\ d.file = f
  PROVE  DocumentsInOrder'
<1>1. host.ids \in Nat /\ host'.ids \in Nat
  BY DEF AppTypeOK, HostState
<1>2. ASSUME NEW d \in Document, HasNumber(d)'
      PROVE  /\ d.id \in Nat /\ d.id <= host'.ids /\ d.file \in Files
             /\ \/ \E e \in Document : HasNumber(e) /\ e.id = d.id /\ e.file = d.file
                \/ d.id = host.ids + 1 /\ d.file = f
  BY <1>1, <1>2 DEF DocumentsInOrder
<1>3. ASSUME NEW d \in Document, NEW e \in Document, HasNumber(d)', HasNumber(e)', d.id = e.id
      PROVE  d.file = e.file
  <2>1. CASE d.id = host.ids + 1
    <3>1. ASSUME NEW b \in Document, HasNumber(b)
          PROVE  b.id # d.id
      BY <1>1, <2>1, <3>1 DEF DocumentsInOrder
    <3> QED BY <1>2, <1>3, <3>1
  <2>2. CASE d.id # host.ids + 1
    BY <1>2, <1>3, <2>2 DEF DocumentsInOrder
  <2> QED BY <2>1, <2>2
<1> QED BY <1>2, <1>3 DEF DocumentsInOrder

\* A step of the page.
LEMMA PageKeepsCustody ==
  ASSUME FilesAreNumbers, CustodyInv, page' \in LabState, UNCHANGED <<host, disk>>,
         did' \in DidState, \A c \in calls' : c \in calls \/ Made(c),
         \/ page'.doc = None \/ page'.doc = page.doc
         \/ \E c \in calls : Documented(c) /\ page'.doc = c.out
  PROVE  CustodyInv'
<1>1. AppTypeOK /\ DocumentsInOrder /\ HoldsInOrder
  BY DEF CustodyInv
<1>2. AppTypeOK'
  BY <1>1 DEF AppTypeOK, Made
<1>3. ASSUME NEW d, HasNumber(d)'
      PROVE  HasNumber(d)
  BY <1>3 DEF HasNumber, Made, Documented, Answering
<1>4. DocumentsInOrder'
  BY <1>1, <1>3 DEF DocumentsInOrder
<1>5. HoldsInOrder'
  <2> SUFFICES ASSUME NEW c \in calls'
               PROVE  HoldsIts(c)'
    BY DEF HoldsInOrder
  <2>1. host.gen \in Nat
    BY <1>1 DEF AppTypeOK, HostState
  <2>2. CASE c \in calls
    BY <1>1, <2>2 DEF HoldsInOrder, HoldsIts, Documented, Answering
  <2>3. CASE Made(c)
    BY <1>1, <2>1, <2>3 DEF HoldsIts, Made, Documented, Answering
  <2> QED BY <2>2, <2>3
<1> QED BY <1>2, <1>4, <1>5 DEF CustodyInv

LEMMA HoldsWhatItDid ==
  ASSUME CustodyInv, NEW c \in calls, host' \in HostState, host.gen <= host'.gen
  PROVE  HoldsIts(c)'
<1>1. host.gen \in Nat /\ host'.gen \in Nat /\ c.ticket \in Nat
  BY DEF CustodyInv, AppTypeOK, HostState, CallState
<1>2. HoldsIts(c)
  BY DEF CustodyInv, HoldsInOrder
<1> QED BY <1>1, <1>2 DEF HoldsIts

\* The host takes one call further: the others hold what they did, the types are right.
LEMMA BecomesKeeps ==
  ASSUME CustodyInv, NEW c \in calls, NEW to, App!Becomes(c, to), Same(c, to),
         page' = page, host' \in HostState, host.gen <= host'.gen, did' \in DidState,
         disk' \in [Files -> FileState], HoldsIts(to)'
  PROVE  AppTypeOK' /\ HoldsInOrder'
<1>1. calls' \in SUBSET CallState
  BY DEF App!Becomes, CustodyInv, AppTypeOK, Same
<1>2. AppTypeOK'
  BY <1>1 DEF CustodyInv, AppTypeOK
<1>3. HoldsInOrder'
  BY HoldsWhatItDid DEF HoldsInOrder, App!Becomes
<1> QED BY <1>2, <1>3

\* What a save was made with.
LEMMA SaveWasPressed ==
  ASSUME FilesAreNumbers, CustodyInv, NEW c \in calls, c.kind = "save"
  PROVE  /\ c.mode # None
         /\ c.mode # "new" => /\ c.shown \in Document /\ HasNumber(c.shown)
                              /\ c.shown.id \in Nat /\ c.shown.id <= host.ids
                              /\ c.shown.file \in Files
<1>1. c.mode # None /\ (c.mode # "new" => c.shown # None) /\ c.shown \in Maybe(Document)
  BY DEF CustodyInv, HoldsInOrder, HoldsIts, AppTypeOK, CallState
<1>2. c.mode # "new" => c.shown \in Document /\ HasNumber(c.shown)
  BY <1>1 DEF Maybe, HasNumber
<1> QED BY <1>1, <1>2 DEF CustodyInv, DocumentsInOrder

\* The document in custody is the one that a save was pressed for: it has its file.
LEMMA PressedHasFile ==
  ASSUME FilesAreNumbers, CustodyInv, NEW c \in calls, c.kind = "save", c.mode # "new", Pressed(c)
  PROVE  host.active \in Document /\ host.active.file = c.shown.file
<1>1. host.active \in Document /\ HasNumber(host.active)
  BY DEF Pressed, CustodyInv, AppTypeOK, HostState, Maybe, HasNumber
<1>2. c.shown \in Document /\ HasNumber(c.shown)
  BY SaveWasPressed
<1> QED BY <1>1, <1>2 DEF Pressed, CustodyInv, DocumentsInOrder

LEMMA QuietHolds ==
  ASSUME FilesAreNumbers, CustodyInv, NEW c \in calls, NEW to, QuietFor(c, to)
  PROVE  HoldsIts(to)' /\ ~Documented(to)
<1>1. /\ HoldsIts(c) /\ Same(c, to) /\ Goes(c, to) /\ to.ticket <= host'.gen
      /\ c.stage # "answered"
  BY DEF CustodyInv, HoldsInOrder, QuietFor
<1>2. c.kind = "save" => c.mode # None /\ (c.mode # "new" => c.shown # None)
  BY <1>1 DEF HoldsIts
<1>3. CASE GivesUp(to)
  BY <1>1, <1>2, <1>3 DEF GivesUp, HoldsIts, Same, Documented, Answering
<1>4. CASE c.kind = "compile" /\ to.stage = "run"
  BY <1>1, <1>4 DEF HoldsIts, Same, Documented, Answering
<1>5. CASE OpenGoes(c, to)
  <2>1. c.kind = "open" /\ to.kind = "open"
    BY <1>1, <1>5 DEF OpenGoes, Same
  <2>2. to.stage = "bind" => to.held \in FileState
    BY <1>5 DEF OpenGoes, CustodyInv, AppTypeOK
  <2>3. /\ to.stage \in {"dialog", "read", "bind", "commit"}
        /\ to.stage \in {"read", "bind", "commit"} => to.file \in Files
        /\ to.stage = "commit" => to.out # None /\ to.out.file = to.file
    BY <1>1, <1>5 DEF OpenGoes, HoldsIts
  <2> QED BY <1>1, <2>1, <2>2, <2>3 DEF HoldsIts, Documented, Answering
<1>6. CASE SaveGoes(c, to)
  <2>1. c.kind = "save" /\ to.kind = "save" /\ to.mode = c.mode /\ to.shown = c.shown
    BY <1>1, <1>6 DEF SaveGoes, Same
  <2>2. /\ to.stage \in {"prepare", "dialog", "admit", "bind", "check", "write"}
        /\ to.stage = "dialog" => to.mode = "new"
        /\ to.stage \in {"admit", "bind", "check", "write"} => to.file \in Files
    <3>1. c.stage \in {"admit", "bind", "check"} => c.file \in Files
      BY <1>1 DEF HoldsIts
    <3> QED BY <1>6, <2>1, <3>1 DEF SaveGoes
  <2>3. ASSUME to.mode # "new", to.stage \in {"admit", "bind", "check", "write"}
        PROVE  to.file = to.shown.file
    <3>1. CASE to.stage = "admit"
      BY <1>6, <2>1, <2>3, <3>1, PressedHasFile DEF SaveGoes
    <3>2. CASE to.stage # "admit"
      BY <1>1, <1>6, <2>1, <2>3, <3>2 DEF SaveGoes, HoldsIts
    <3> QED BY <3>1, <3>2
  <2>4. ASSUME to.mode # "new", to.stage \in {"bind", "check", "write"}
        PROVE  to.held \in Document /\ to.held.id = to.shown.id
    <3>1. CASE c.stage = "admit"
      BY <1>6, <2>1, <2>4, <3>1, PressedHasFile DEF SaveGoes, Pressed
    <3>2. CASE c.stage # "admit"
      BY <1>1, <1>6, <2>1, <2>4, <3>2 DEF SaveGoes, HoldsIts
    <3> QED BY <3>1, <3>2
  <2> QED BY <1>1, <1>2, <2>1, <2>2, <2>3, <2>4 DEF HoldsIts, Documented, Answering
<1> QED BY <1>1, <1>3, <1>4, <1>5, <1>6 DEF Goes

\* The documents of a step in which one call goes from c to to.
LEMMA NumbersOfStep ==
  ASSUME NEW c \in calls, NEW to, App!Becomes(c, to), Same(c, to), page' = page,
         NEW d, HasNumber(d)'
  PROVE  HasNumber(d) \/ d = host'.active \/ (d = to.out /\ Documented(to))
BY DEF HasNumber, App!Becomes, Same, Documented, Answering

LEMMA QuietKeepsCustody ==
  ASSUME FilesAreNumbers, CustodyInv, NEW c \in calls, NEW to, QuietFor(c, to)
  PROVE  CustodyInv'
<1>1. HoldsIts(to)' /\ ~Documented(to)
  BY QuietHolds
<1>2. AppTypeOK' /\ HoldsInOrder'
  BY <1>1, BecomesKeeps DEF QuietFor, CustodyInv, AppTypeOK
<1>3. ASSUME NEW d, HasNumber(d)'
      PROVE  HasNumber(d)
  BY <1>1, <1>3, NumbersOfStep DEF QuietFor, HasNumber
<1>4. host'.ids = host.ids
  BY DEF QuietFor
<1>5. DocumentsInOrder'
  BY <1>3, <1>4 DEF DocumentsInOrder, CustodyInv
<1> QED BY <1>2, <1>5 DEF CustodyInv

LEMMA OpenCommitsKeepsCustody ==
  ASSUME FilesAreNumbers, CustodyInv, NEW c \in calls, NEW to, OpenCommits(c, to)
  PROVE  CustodyInv'
<1>1. /\ AppTypeOK /\ DocumentsInOrder /\ HoldsIts(c) /\ Same(c, to) /\ Entered(c, to, host.ids + 1)
      /\ Answering(to, "document") /\ c.kind = "open" /\ c.stage = "commit"
      /\ host'.ids = host.ids + 1 /\ App!Becomes(c, to)
  BY DEF CustodyInv, HoldsInOrder, OpenCommits, App!At
<1>2. host.ids \in Nat /\ host.gen \in Nat /\ c.file \in Files /\ c.out.file = c.file
  BY <1>1 DEF AppTypeOK, HostState, HoldsIts
<1>3. HoldsIts(to)'
  BY <1>1, <1>2 DEF HoldsIts, Same, Entered, Answering, Documented, FilesAreNumbers
<1>4. host' \in HostState /\ host.gen <= host'.gen
  BY <1>1, <1>2 DEF Entered
<1>5. AppTypeOK' /\ HoldsInOrder'
  BY <1>1, <1>3, <1>4, BecomesKeeps DEF Entered, AppTypeOK
<1>6. ASSUME NEW d \in Document, HasNumber(d)'
      PROVE  \/ \E e \in Document : HasNumber(e) /\ e.id = d.id /\ e.file = d.file
             \/ host'.ids = host.ids + 1 /\ d.id = host.ids + 1 /\ d.file = c.file
  BY <1>1, <1>2, <1>6, NumbersOfStep DEF Entered
<1>7. DocumentsInOrder'
  BY <1>1, <1>2, <1>5, <1>6, DocumentsStay
<1> QED BY <1>5, <1>7 DEF CustodyInv

LEMMA SaveCommitsKeepsCustody ==
  ASSUME FilesAreNumbers, CustodyInv, NEW c \in calls, NEW to, SaveCommits(c, to)
  PROVE  CustodyInv'
<1> DEFINE id == IF c.mode = "new" THEN host.ids + 1 ELSE c.held.id
<1>1. /\ AppTypeOK /\ DocumentsInOrder /\ HoldsIts(c) /\ Same(c, to) /\ Entered(c, to, id)
      /\ Answering(to, "saved") /\ c.kind = "save" /\ c.stage = "commit"
      /\ host'.ids = (IF c.mode = "new" THEN host.ids + 1 ELSE host.ids) /\ App!Becomes(c, to)
  BY DEF CustodyInv, HoldsInOrder, SaveCommits, App!At
<1>2. /\ host.ids \in Nat /\ host.gen \in Nat /\ c.file \in Files /\ c.out.file = c.file
      /\ c.mode # None
      /\ c.mode # "new" => c.shown # None /\ c.held.id = c.shown.id /\ c.file = c.shown.file
  BY <1>1 DEF AppTypeOK, HostState, HoldsIts
<1>3. HoldsIts(to)'
  BY <1>1, <1>2 DEF HoldsIts, Same, Entered, Answering, Documented, FilesAreNumbers
<1>4. host' \in HostState /\ host.gen <= host'.gen
  BY <1>1, <1>2 DEF Entered
<1>5. AppTypeOK' /\ HoldsInOrder'
  BY <1>1, <1>3, <1>4, BecomesKeeps DEF Entered, AppTypeOK
<1>6. ASSUME NEW d \in Document, HasNumber(d)'
      PROVE  \/ \E e \in Document : HasNumber(e) /\ e.id = d.id /\ e.file = d.file
             \/ host'.ids = host.ids + 1 /\ d.id = host.ids + 1 /\ d.file = c.file
  <2>1. HasNumber(d) \/ d = host'.active
    BY <1>1, <1>6, NumbersOfStep DEF Entered
  <2>2. CASE c.mode = "new" /\ d = host'.active
    BY <1>1, <1>2, <2>2 DEF Entered
  <2>3. CASE c.mode # "new" /\ d = host'.active
    <3>1. c.shown \in Document /\ HasNumber(c.shown)
      BY <1>1, <2>3, SaveWasPressed
    <3>2. c.shown.id = d.id /\ c.shown.file = d.file
      BY <1>1, <1>2, <2>3 DEF Entered
    <3> QED BY <3>1, <3>2
  <2> QED BY <2>1, <2>2, <2>3
<1>7. host'.ids \in {host.ids, host.ids + 1}
  BY <1>1
<1>8. DocumentsInOrder'
  BY <1>1, <1>2, <1>5, <1>6, <1>7, DocumentsStay
<1> QED BY <1>5, <1>8 DEF CustodyInv

\* A step that leaves the documents in custody, and numbers none.
LEMMA OthersKeepCustody ==
  ASSUME FilesAreNumbers, CustodyInv, NEW c \in calls, NEW to,
         SaveLost(c, to) \/ Writes(c, to) \/ HostResets(c, to)
  PROVE  CustodyInv'
<1>1. /\ AppTypeOK /\ DocumentsInOrder /\ HoldsIts(c) /\ Same(c, to) /\ App!Becomes(c, to)
      /\ page' = page
  BY DEF CustodyInv, HoldsInOrder, SaveLost, Writes, HostResets
<1>2. /\ host' \in HostState /\ host'.active \in {None, host.active} /\ host'.ids = host.ids
      /\ host.gen <= host'.gen
  <2>1. host \in HostState /\ host.gen \in Nat
    BY <1>1 DEF AppTypeOK, HostState
  <2>2. CASE host' = host
    BY <2>1, <2>2
  <2>3. CASE HostResets(c, to)
    BY <2>3 DEF HostResets
  <2> QED BY <2>2, <2>3 DEF SaveLost, Writes
<1>3. disk' \in [Files -> FileState]
  BY <1>1 DEF SaveLost, Writes, HostResets, AppTypeOK
<1>4. did' \in DidState
  <2> DEFINE crossed == did.crossed \/
               \E o \in calls : o.kind = "open" /\ o.file = c.file /\ o.stage \in {"bind", "commit"}
  <2>1. \/ did' = did \/ did' = [did EXCEPT !.crossed = TRUE]
        \/ did' = [did EXCEPT !.crossed = crossed]
    BY DEF SaveLost, Writes, HostResets
  <2>2. crossed \in BOOLEAN /\ did \in DidState
    BY <1>1 DEF AppTypeOK, DidState
  <2> HIDE DEF crossed
  <2> QED BY <2>1, <2>2 DEF DidState
<1>5. host.gen \in Nat /\ host'.gen \in Nat /\ c.ticket \in Nat /\ to.ticket = c.ticket
  BY <1>1, <1>2 DEF AppTypeOK, HostState, CallState, SaveLost, Writes, HostResets
<1>6. HoldsIts(to)' /\ ~Documented(to)
  <2>1. to.ticket <= host'.gen
    BY <1>1, <1>2, <1>5 DEF HoldsIts
  <2>2. CASE SaveLost(c, to) \/ HostResets(c, to)
    BY <1>1, <2>1, <2>2 DEF SaveLost, HostResets, GivesUp, HoldsIts, Same, Documented,
       Answering, App!At
  <2>3. CASE Writes(c, to)
    <3>1. to.stage = "commit" /\ c.stage = "write" /\ c.kind = "save" /\ to.file = c.file
          /\ to.held = c.held /\ to.out # None /\ to.out.file = c.file
      BY <2>3 DEF Writes, App!At, FilesAreNumbers
    <3> QED BY <1>1, <2>1, <3>1 DEF HoldsIts, Same, Documented, Answering
  <2> QED BY <2>2, <2>3
<1>7. AppTypeOK' /\ HoldsInOrder'
  BY <1>1, <1>2, <1>3, <1>4, <1>6, BecomesKeeps
<1>8. ASSUME NEW d, HasNumber(d)'
      PROVE  HasNumber(d)
  BY <1>1, <1>2, <1>6, <1>8, NumbersOfStep DEF HasNumber
<1>9. DocumentsInOrder'
  BY <1>1, <1>2, <1>8 DEF DocumentsInOrder
<1> QED BY <1>7, <1>9 DEF CustodyInv

LEMMA UserKeepsCustody ==
  ASSUME FilesAreNumbers, CustodyInv,
         App!Edit \/ App!Compile \/ App!Open \/ App!Save \/ App!Reset \/ App!Adopt
  PROVE  CustodyInv'
<1>1. AppTypeOK
  BY DEF CustodyInv
<1>2. UserActs /\ page' \in LabState /\ page'.doc = page.doc
  BY <1>1, EditIs, CompileIs, OpenIs, SaveIs, ResetIs, AdoptIs DEF SameShown, AppTypeOK
<1>3. calls' = calls \/ \E c : calls' = calls \cup {c} /\ FromPage(c)
  BY <1>1, EditIs, CompileIs, OpenIs, SaveIs, ResetIs, AdoptIs
<1>4. \A c \in calls' : c \in calls \/ Made(c)
  BY <1>3 DEF FromPage
<1> QED BY <1>2, <1>4, PageKeepsCustody DEF UserActs

LEMMA AnswerKeepsCustody ==
  ASSUME FilesAreNumbers, CustodyInv, App!Continue
  PROVE  CustodyInv'
<1>1. AppTypeOK /\ HoldsInOrder /\ did \in DidState
  BY DEF CustodyInv, AppTypeOK
<1>2. PICK c \in calls : \/ App!CompileAnswered(c) \/ App!OpenAnswered(c)
                         \/ App!SaveAnswered(c) \/ App!ResetAnswered(c)
  BY DEF App!Continue
<1>3. /\ page' \in LabState /\ UNCHANGED <<host, disk, did>>
      /\ \/ page'.doc = None \/ page'.doc = page.doc
         \/ Documented(c) /\ page'.doc = c.out
      /\ \A x \in calls' : x \in calls \/ Made(x)
  <2>1. CASE App!CompileAnswered(c)
    BY <1>1, <2>1, CompileAnsweredIs DEF Taken, SameShown
  <2>2. CASE App!OpenAnswered(c)
    BY <1>1, <2>2, OpenAnsweredIs DEF Taken, Shows, Documented
  <2>3. CASE App!SaveAnswered(c)
    BY <1>1, <2>3, SaveAnsweredIs DEF Taken, Documented
  <2>4. CASE App!ResetAnswered(c)
    BY <1>1, <2>4, ResetAnsweredIs DEF Taken
  <2> QED BY <1>2, <2>1, <2>2, <2>3, <2>4
<1>4. did' \in DidState
  BY <1>1, <1>3
<1> QED BY <1>3, <1>4, PageKeepsCustody

LEMMA CustodyStep ==
  ASSUME FilesAreNumbers, CustodyInv, [FilesNext]_fileVars
  PROVE  CustodyInv'
<1>1. CASE App!Next
  <2>1. CASE App!Serve
    BY <2>1, ServeIs, QuietKeepsCustody, OpenCommitsKeepsCustody, SaveCommitsKeepsCustody,
       OthersKeepCustody DEF HostStep
  <2> QED BY <1>1, <2>1, UserKeepsCustody, AnswerKeepsCustody DEF App!Next
<1>2. CASE UNCHANGED appVars
  BY <1>2 DEF appVars, CustodyInv, AppTypeOK, DocumentsInOrder, HasNumber, HoldsInOrder, HoldsIts
<1> QED BY <1>1, <1>2
    DEF FilesNext, InPair, InScene, InRuntime, InNode, InApp, InPreview, fileVars

LEMMA CustodyHolds ==
  ASSUME FilesAreNumbers
  PROVE  FilesSpec => []CustodyInv
<1>1. FilesInit => CustodyInv
  BY CustodyInit DEF FilesInit
<1> QED BY <1>1, CustodyStep, PTL DEF FilesSpec

\* A save of an open document writes that document and to the file it came from, and a
\* document that enters custody was asked for after every open and reset that has begun
\* (validate_save_request, open_generation of state/app_theme.rs).
THEOREM DocumentsAreKept ==
  ASSUME FilesAreNumbers
  PROVE  FilesSpec => CustodyIsKept
<1>1. CustodyInv => App!SavesItsOwnDocument
  BY DEF CustodyInv, HoldsInOrder, HoldsIts, App!SavesItsOwnDocument
<1>2. ASSUME CustodyInv, [FilesNext]_fileVars, host'.active \notin {None, host.active}
      PROVE  \E c \in calls : /\ c.stage = "commit" /\ c.file = host'.active.file
                              /\ \A o \in calls : o.kind = "open" => o.ticket <= c.ticket
  <2>1. AppTypeOK
    BY <1>2 DEF CustodyInv
  <2>2. App!Next
    BY <1>2 DEF FilesNext, InPair, InScene, InRuntime, InNode, InApp, InPreview, fileVars, appVars
  <2>3. App!Serve
    <3>1. CASE App!Edit \/ App!Compile \/ App!Open \/ App!Save \/ App!Reset \/ App!Adopt
      BY <1>2, <2>1, <3>1, EditIs, CompileIs, OpenIs, SaveIs, ResetIs, AdoptIs DEF UserActs
    <3>2. CASE App!Continue
      BY <1>2, <3>2 DEF App!Continue, App!CompileAnswered, App!OpenAnswered, App!SaveAnswered,
         App!ResetAnswered
    <3> QED BY <2>2, <3>1, <3>2 DEF App!Next
  <2>4. PICK c \in calls : \E to : OpenCommits(c, to) \/ SaveCommits(c, to)
    BY <1>2, <2>3, ServeIs DEF HostStep, QuietFor, SaveLost, Writes, HostResets
  <2>5. PICK to : OpenCommits(c, to) \/ SaveCommits(c, to)
    BY <2>4
  <2>6. /\ c.stage = "commit" /\ host.gen = c.ticket /\ c.out.file = c.file
        /\ host'.active.file = c.out.file
    BY <1>2, <2>5 DEF OpenCommits, SaveCommits, Entered, App!At, App!Owns, CustodyInv,
       HoldsInOrder, HoldsIts
  <2>7. \A o \in calls : o.ticket <= c.ticket
    BY <1>2, <2>6 DEF CustodyInv, HoldsInOrder, HoldsIts
  <2> QED BY <2>6, <2>7
<1>3. CustodyInv /\ [FilesNext]_fileVars =>
        [host'.active \notin {None, host.active} =>
           \E c \in calls : c.stage = "commit" /\ c.file = host'.active.file
                            /\ \A o \in calls : o.kind = "open" => o.ticket <= c.ticket]_(App!vars)
  BY <1>2
<1> QED BY <1>1, <1>3, CustodyHolds, PTL DEF FilesSpec, CustodyIsKept, App!CustodyInOrder

-----------------------------------------------------------------------------
(* The page: what it shows and what its calls were made with.              *)

OneSave ==
  /\ ~page.saving => Saves = {}
  /\ \A c, d \in Saves : c = d

\* What a call took from the page is what the page shows as long as their numbers agree,
\* unless a reset was overtaken.
CallsInOrder ==
  /\ \A c \in calls : c.rev <= page.rev /\ c.gen <= page.gen
  /\ ~did.overtaken =>
       /\ \A c \in calls : c.rev = page.rev => c.text = page.profile
       /\ Resetting => \A c \in calls : c.rev < page.rev /\ c.gen < page.gen
       /\ page.css # None => page.css = page.profile

\* A draft that is clean since a save was pressed was clean, and the same, then.
CleanSince ==
  ~did.overtaken =>
    \A c \in Saves : c.gen = page.gen /\ ~page.dirty => c.rev = page.rev /\ ~c.dirty

PageInv == OneSave /\ CallsInOrder /\ CleanSince /\ App!AdoptedIsShown

LEMMA PageInvInit ==
  ASSUME App!Init
  PROVE  PageInv
BY DEF App!Init, PageInv, OneSave, CallsInOrder, CleanSince, App!AdoptedIsShown, Saves, Resetting

\* A step of the host.
LEMMA HostKeepsPage ==
  ASSUME PageInv, NEW c \in calls, NEW to, App!Becomes(c, to), Same(c, to), page' = page,
         ~did'.overtaken => ~did.overtaken
  PROVE  PageInv'
<1>1. \A x \in calls' : \E y \in calls :
        /\ x.kind = y.kind /\ x.rev = y.rev /\ x.gen = y.gen /\ x.text = y.text
        /\ x.dirty = y.dirty
  BY DEF App!Becomes, Same
<1>2. Resetting' => Resetting
  BY <1>1 DEF Resetting
<1>3. OneSave'
  BY DEF PageInv, OneSave, Saves, App!Becomes, Same
<1>4. CallsInOrder'
  BY <1>1, <1>2 DEF PageInv, CallsInOrder
<1>5. CleanSince'
  <2>1. \A x \in Saves' : \E y \in Saves : x.rev = y.rev /\ x.gen = y.gen /\ x.dirty = y.dirty
    BY <1>1 DEF Saves
  <2> QED BY <2>1 DEF PageInv, CleanSince
<1>6. App!AdoptedIsShown'
  BY DEF PageInv, App!AdoptedIsShown
<1> QED BY <1>3, <1>4, <1>5, <1>6 DEF PageInv

LEMMA EditKeepsPage ==
  ASSUME AppTypeOK, PageInv, App!Edit
  PROVE  PageInv'
<1>1. /\ UserActs /\ SameShown /\ calls' = calls /\ page'.rev = page.rev + 1
      /\ page'.gen = page.gen /\ page'.dirty /\ page'.css = None /\ page'.adopted = page.adopted
  BY EditIs
<1>2. page.rev \in Nat /\ \A c \in calls : c.rev \in Nat
  BY DEF AppTypeOK, LabState, CallState
<1>3. Saves' = Saves /\ (~did'.overtaken => ~did.overtaken /\ ~Resetting)
      /\ (Resetting' <=> Resetting)
  BY <1>1 DEF Saves, UserActs, Resetting
<1>4. OneSave'
  BY <1>1, <1>3 DEF PageInv, OneSave, SameShown
<1>5. CallsInOrder'
  BY <1>1, <1>2, <1>3 DEF PageInv, CallsInOrder
<1>6. CleanSince'
  BY <1>1 DEF CleanSince
<1>7. App!AdoptedIsShown'
  BY <1>1, <1>3 DEF PageInv, App!AdoptedIsShown
<1> QED BY <1>4, <1>5, <1>6, <1>7 DEF PageInv

LEMMA AdoptKeepsPage ==
  ASSUME AppTypeOK, PageInv, App!Adopt
  PROVE  PageInv'
<1>1. /\ UserActs /\ SameDraft /\ SameShown /\ page'.dirty = page.dirty /\ page'.css = page.css
      /\ calls' = calls /\ page.css # None /\ page'.adopted.css = page.css
      /\ page'.adopted.of = page.profile
  BY AdoptIs
<1>2. Saves' = Saves /\ (~did'.overtaken => ~did.overtaken) /\ (Resetting' <=> Resetting)
  BY <1>1 DEF Saves, UserActs, Resetting
<1> QED BY <1>1, <1>2 DEF PageInv, OneSave, CallsInOrder, CleanSince, App!AdoptedIsShown,
     SameDraft, SameShown

\* A call is made.
LEMMA CallKeepsPage ==
  ASSUME AppTypeOK, PageInv, NEW c, calls' = calls \cup {c}, FromPage(c), UserActs,
         c.kind \in {"compile", "open"} \/ (c.kind = "save" /\ ~page.saving /\ page'.saving),
         SameDraft, page'.dirty = page.dirty, page'.css = page.css, page'.adopted = page.adopted,
         c.kind # "save" => page'.saving = page.saving
  PROVE  PageInv'
<1>1. /\ c.rev = page.rev /\ c.gen = page.gen /\ c.text = page.profile /\ c.dirty = page.dirty
      /\ page.rev \in Nat /\ page.gen \in Nat
  BY DEF FromPage, AppTypeOK, LabState
<1>2. (~did'.overtaken => ~did.overtaken /\ ~Resetting) /\ (Resetting' => Resetting)
  BY DEF UserActs, Resetting
<1>3. OneSave'
  BY DEF PageInv, OneSave, Saves
<1>4. CallsInOrder'
  BY <1>1, <1>2 DEF PageInv, CallsInOrder, SameDraft
<1>5. CleanSince'
  BY <1>1, <1>2 DEF PageInv, CleanSince, Saves, SameDraft
<1>6. App!AdoptedIsShown'
  BY <1>2 DEF PageInv, App!AdoptedIsShown
<1> QED BY <1>3, <1>4, <1>5, <1>6 DEF PageInv

LEMMA ResetKeepsPage ==
  ASSUME AppTypeOK, PageInv, App!Reset
  PROVE  PageInv'
<1>1. /\ UserActs /\ SameShown /\ page'.rev = page.rev + 1 /\ page'.gen = page.gen + 1
      /\ page'.profile = page.profile /\ page'.dirty = page.dirty /\ page'.css = page.css
      /\ page'.adopted = page.adopted
  BY ResetIs
<1>2. PICK c : calls' = calls \cup {c} /\ FromPage(c) /\ c.kind = "reset"
  BY ResetIs
<1>3. /\ page.rev \in Nat /\ page.gen \in Nat /\ c.rev = page.rev /\ c.gen = page.gen
      /\ \A x \in calls : x.rev \in Nat /\ x.gen \in Nat
  BY <1>2 DEF FromPage, AppTypeOK, LabState, CallState
<1>4. \A x \in calls' : x.rev < page'.rev /\ x.gen < page'.gen
  BY <1>1, <1>2, <1>3 DEF PageInv, CallsInOrder
<1>5. \A x \in calls' : x.rev \in Nat /\ x.gen \in Nat
  BY <1>2, <1>3
<1>6. ~did'.overtaken => ~did.overtaken
  BY <1>1 DEF UserActs
<1>7. Saves' = Saves
  BY <1>2 DEF Saves
<1>8. OneSave'
  BY <1>1, <1>7 DEF PageInv, OneSave, SameShown
<1>9. page'.rev \in Nat /\ page'.gen \in Nat
  BY <1>1, <1>3
<1>10. CallsInOrder'
  BY <1>1, <1>4, <1>5, <1>6, <1>9 DEF PageInv, CallsInOrder
<1>11. CleanSince'
  BY <1>4, <1>5, <1>9 DEF CleanSince, Saves
<1>12. App!AdoptedIsShown'
  BY <1>1, <1>6 DEF PageInv, App!AdoptedIsShown
<1> QED BY <1>8, <1>10, <1>11, <1>12 DEF PageInv

LEMMA UserKeepsPage ==
  ASSUME FilesAreNumbers, AppTypeOK, PageInv,
         App!Edit \/ App!Compile \/ App!Open \/ App!Save \/ App!Reset \/ App!Adopt
  PROVE  PageInv'
<1>1. CASE App!Compile
  BY <1>1, CompileIs, CallKeepsPage DEF SameShown
<1>2. CASE App!Open
  BY <1>2, OpenIs, CallKeepsPage DEF SameDraft
<1>3. CASE App!Save
  BY <1>3, SaveIs, CallKeepsPage
<1> QED BY <1>1, <1>2, <1>3, EditKeepsPage, ResetKeepsPage, AdoptKeepsPage

\* What is left of the calls is still in order.
LEMMA AnswerTaken ==
  ASSUME PageInv, NEW c, Taken(c)
  PROVE  /\ Saves' \subseteq Saves /\ (Resetting' => Resetting) /\ did' = did
         /\ calls' \subseteq calls /\ (c.kind = "save" => Saves' = {})
BY DEF Taken, Saves, Resetting, PageInv, OneSave

LEMMA CompileAnsweredKeepsPage ==
  ASSUME FilesAreNumbers, AppTypeOK, PageInv, NEW c \in calls, App!CompileAnswered(c)
  PROVE  PageInv'
<1>1. /\ Taken(c) /\ SameDraft /\ SameShown
      /\ page'.dirty = page.dirty /\ page'.adopted = page.adopted
      /\ \/ page'.css = page.css
         \/ page.rev = c.rev /\ page'.css \in {c.text, None}
  BY CompileAnsweredIs
<1>2. Saves' \subseteq Saves /\ (Resetting' => Resetting) /\ did' = did /\ calls' \subseteq calls
  BY <1>1, AnswerTaken
<1>3. OneSave'
  BY <1>1, <1>2 DEF PageInv, OneSave, SameShown
<1>4. CallsInOrder'
  BY <1>1, <1>2 DEF PageInv, CallsInOrder, SameDraft
<1>5. CleanSince' /\ App!AdoptedIsShown'
  BY <1>1, <1>2 DEF PageInv, CleanSince, App!AdoptedIsShown, SameDraft
<1> QED BY <1>3, <1>4, <1>5 DEF PageInv

LEMMA ShowsKeepsPage ==
  ASSUME AppTypeOK, PageInv, NEW c \in calls, Shows(c)
  PROVE  PageInv'
<1>1. /\ page.rev = c.rev /\ page'.saving = page.saving /\ page'.rev = page.rev + 1
      /\ page'.gen = page.gen + 1 /\ page'.css = None /\ page'.adopted = None /\ did' = did
  BY DEF Shows
<1>2. /\ page.rev \in Nat /\ page.gen \in Nat
      /\ \A x \in calls : x.rev \in Nat /\ x.gen \in Nat /\ x.rev <= page.rev /\ x.gen <= page.gen
  BY DEF AppTypeOK, LabState, CallState, PageInv, CallsInOrder
<1>3. \A x \in calls' :
        \/ x \in calls
        \/ /\ x.kind = "compile" /\ x.rev = page'.rev /\ x.gen = page.gen
           /\ x.text = page'.profile
  BY DEF Shows
<1>4. Saves' \subseteq Saves /\ (Resetting' => Resetting)
  BY <1>3 DEF Saves, Resetting
<1>5. OneSave'
  BY <1>1, <1>4 DEF PageInv, OneSave
<1>6. \A x \in calls' : x.rev <= page'.rev /\ x.gen <= page'.gen /\ x.gen # page'.gen
                        /\ (x.rev = page'.rev => x.text = page'.profile)
  BY <1>1, <1>2, <1>3
<1>7. ~did.overtaken => ~Resetting
  BY <1>1, <1>2 DEF PageInv, CallsInOrder
<1>8. CallsInOrder'
  BY <1>1, <1>4, <1>6, <1>7 DEF CallsInOrder
<1>9. CleanSince' /\ App!AdoptedIsShown'
  BY <1>1, <1>6 DEF CleanSince, Saves, App!AdoptedIsShown
<1> QED BY <1>5, <1>8, <1>9 DEF PageInv

LEMMA SaveAnsweredKeepsPage ==
  ASSUME AppTypeOK, HoldsInOrder, PageInv, NEW c \in calls, App!SaveAnswered(c)
  PROVE  PageInv'
<1>1. /\ Taken(c) /\ c.kind = "save" /\ SameDraft
      /\ page'.css = page.css /\ page'.adopted = page.adopted
  BY SaveAnsweredIs
<1>2. Saves' = {} /\ (Resetting' => Resetting) /\ did' = did /\ calls' \subseteq calls
  BY <1>1, AnswerTaken
<1>3. CallsInOrder'
  BY <1>1, <1>2 DEF PageInv, CallsInOrder, SameDraft
<1> QED BY <1>1, <1>2, <1>3 DEF PageInv, OneSave, CleanSince, App!AdoptedIsShown

LEMMA ResetAnsweredKeepsPage ==
  ASSUME AppTypeOK, PageInv, NEW c \in calls, App!ResetAnswered(c)
  PROVE  PageInv'
<1>1. /\ Taken(c) /\ c.kind = "reset" /\ page'.rev = page.rev /\ page'.gen = page.gen
      /\ page'.saving = page.saving /\ page'.css = None /\ page'.adopted = None
  BY ResetAnsweredIs
<1>2. Saves' \subseteq Saves /\ (Resetting' => Resetting) /\ did' = did /\ calls' \subseteq calls
  BY <1>1, AnswerTaken
<1>3. /\ page.rev \in Nat /\ page.gen \in Nat /\ \A x \in calls : x.rev \in Nat /\ x.gen \in Nat
      /\ ~did.overtaken => \A x \in calls : x.rev < page.rev /\ x.gen < page.gen
  BY <1>1 DEF AppTypeOK, LabState, CallState, PageInv, CallsInOrder, Resetting
<1>4. CallsInOrder'
  BY <1>1, <1>2, <1>3 DEF PageInv, CallsInOrder
<1>5. OneSave' /\ App!AdoptedIsShown'
  BY <1>1, <1>2 DEF PageInv, OneSave, App!AdoptedIsShown
<1>6. CleanSince'
  BY <1>1, <1>2, <1>3 DEF CleanSince, Saves
<1> QED BY <1>4, <1>5, <1>6 DEF PageInv

LEMMA AnswerKeepsPage ==
  ASSUME FilesAreNumbers, CustodyInv, PageInv, App!Continue
  PROVE  PageInv'
<1>1. AppTypeOK /\ HoldsInOrder
  BY DEF CustodyInv
<1>2. PICK c \in calls : \/ App!CompileAnswered(c) \/ App!OpenAnswered(c)
                         \/ App!SaveAnswered(c) \/ App!ResetAnswered(c)
  BY DEF App!Continue
<1>3. CASE App!OpenAnswered(c)
  <2>1. CASE Shows(c)
    BY <1>1, <2>1, ShowsKeepsPage
  <2>2. CASE Taken(c) /\ page' = page
    <3>1. /\ Saves' \subseteq Saves /\ (Resetting' => Resetting) /\ did' = did
          /\ calls' \subseteq calls
      BY <2>2, AnswerTaken
    <3> QED BY <2>2, <3>1 DEF PageInv, OneSave, CallsInOrder, CleanSince, App!AdoptedIsShown
  <2> QED BY <1>1, <1>3, <2>1, <2>2, OpenAnsweredIs
<1> QED BY <1>1, <1>2, <1>3, CompileAnsweredKeepsPage, SaveAnsweredKeepsPage,
     ResetAnsweredKeepsPage

LEMMA PageInvStep ==
  ASSUME FilesAreNumbers, CustodyInv, PageInv, [FilesNext]_fileVars
  PROVE  PageInv'
<1>1. CASE App!Next
  <2>1. CASE App!Serve
    <3>1. PICK c \in calls : \E to : HostStep(c, to)
      BY <2>1, ServeIs
    <3> PICK to : HostStep(c, to)
      BY <3>1
    <3>2. App!Becomes(c, to) /\ Same(c, to) /\ page' = page
      BY DEF HostStep, QuietFor, OpenCommits, SaveCommits, SaveLost, Writes, HostResets, Entered
    <3>3. did.overtaken = did'.overtaken
      BY DEF HostStep, QuietFor, OpenCommits, SaveCommits, SaveLost, Writes, HostResets, Entered,
         CustodyInv, AppTypeOK, DidState
    <3> QED BY <3>2, <3>3, HostKeepsPage
  <2> QED BY <1>1, <2>1, UserKeepsPage, AnswerKeepsPage DEF App!Next, CustodyInv
<1>2. CASE UNCHANGED appVars
  BY <1>2 DEF appVars, PageInv, OneSave, CallsInOrder, CleanSince, App!AdoptedIsShown, Saves,
     Resetting
<1> QED BY <1>1, <1>2
    DEF FilesNext, InPair, InScene, InRuntime, InNode, InApp, InPreview, fileVars

-----------------------------------------------------------------------------
(* The documents that are shown, held and written.                         *)

\* The document of an open that is answered is known to nobody else but the host.
NewToPage ==
  \A o \in Opens : Answering(o, "document") =>
    /\ host.active # None /\ host.active.id = o.out.id => host.active = o.out
    /\ page.doc # None => page.doc.id # o.out.id
    /\ \A c \in calls :
         /\ c.shown # None => c.shown.id # o.out.id
         /\ c # o /\ Documented(c) => c.out.id # o.out.id

\* A save of a document that is no longer shown.
LeftBehind ==
  ~did.overtaken /\ ~Resetting /\ page.doc # None =>
    \A c \in Saves : c.gen # page.gen /\ c.shown # None => page.doc.id # c.shown.id

\* The document in custody is the document shown, unless a save is about to replace that.
ShownIsHeld ==
  ~did.overtaken /\ ~Resetting /\ page.doc # None /\ host.active # None
  /\ page.doc.id = host.active.id
    => host.active = page.doc \/ \E c \in Saves : Answering(c, "saved") /\ c.gen = page.gen

\* What a save has written, and what it takes the document in custody for.
SaveInOrder(c) ==
  /\ Answering(c, "saved") /\ host.active # None /\ host.active.id = c.out.id =>
       host.active = c.out
  /\ c.stage = "commit" => c.out.text = disk[c.file].text
  /\ ~did.overtaken =>
       /\ c.stage # "answered" /\ c.mode # "new" /\ Pressed(c) => host.active = c.shown
       /\ c.stage \in {"bind", "check", "write"} /\ c.mode # "new" => c.held = c.shown
       /\ c.mode = "original" /\ ~c.dirty /\ c.shown.editable => c.shown.text = c.text
       /\ (c.stage = "commit" \/ Answering(c, "saved")) /\ c.out.editable
          /\ (c.mode = "original" => ~c.dirty) => c.out.text = c.text

SavesInOrder == \A c \in Saves : SaveInOrder(c)

\* What is in custody, or about to be, is on disk.
HeldIsOnDisk ==
  ~did.crossed =>
    /\ host.active # None /\ ~Committing => host.active.text = disk[host.active.file].text
    /\ \A o \in Opens : o.stage = "bind" => o.held.text = disk[o.file].text
    /\ \A o \in Opens : o.stage = "commit" => o.out.text = disk[o.file].text

ProfileIsShown ==
  page.doc # None /\ page.doc.editable /\ ~page.dirty /\ ~did.overtaken =>
    page.profile = page.doc.text

ShownInv ==
  /\ NewToPage /\ LeftBehind /\ ShownIsHeld /\ SavesInOrder /\ HeldIsOnDisk /\ ProfileIsShown

LEMMA ShownInvInit ==
  ASSUME App!Init
  PROVE  ShownInv
<1>1. /\ page.doc = None /\ host.active = None
      /\ \A c \in calls : c.kind = "compile"
  BY DEF App!Init
<1> QED BY <1>1 DEF ShownInv, NewToPage, LeftBehind, ShownIsHeld, SavesInOrder, HeldIsOnDisk,
     ProfileIsShown, Saves, Opens

\* The documents that calls have brought, and were made with.
LEMMA DocumentsOfCalls ==
  ASSUME FilesAreNumbers, CustodyInv
  PROVE  /\ host.ids \in Nat
         /\ host.active # None => host.active.id \in Nat /\ host.active.id <= host.ids
         /\ page.doc # None => page.doc.id \in Nat /\ page.doc.id <= host.ids
         /\ \A c \in calls :
              /\ c.shown # None => c.shown.id \in Nat /\ c.shown.id <= host.ids
              /\ Documented(c) => c.out \in Document /\ c.out.id \in Nat /\ c.out.id <= host.ids
<1>1. /\ host.ids \in Nat /\ host.active \in Maybe(Document) /\ page.doc \in Maybe(Document)
      /\ \A c \in calls : /\ c.shown \in Maybe(Document) /\ c.out \in Maybe(Document)
                          /\ Documented(c) => c.out # None
  BY DEF CustodyInv, AppTypeOK, HostState, LabState, CallState, HoldsInOrder, HoldsIts
<1>2. \A d \in Document : HasNumber(d) => d.id \in Nat /\ d.id <= host.ids
  BY DEF CustodyInv, DocumentsInOrder
<1> QED BY <1>1, <1>2 DEF HasNumber, Maybe

-----------------------------------------------------------------------------
(* ... in a step of the host.                                              *)

LEMMA HostKeepsLeftBehind ==
  ASSUME LeftBehind, ProfileIsShown, NEW c \in calls, NEW to, App!Becomes(c, to), Same(c, to),
         page' = page, did'.overtaken = did.overtaken
  PROVE  LeftBehind' /\ ProfileIsShown'
<1>1. \A x \in Saves' : \E y \in Saves : x.gen = y.gen /\ x.shown = y.shown
  BY DEF Saves, App!Becomes, Same
<1>2. Resetting' <=> Resetting
  BY DEF Resetting, App!Becomes, Same
<1> QED BY <1>1, <1>2 DEF LeftBehind, ProfileIsShown

\* A step that leaves custody alone, or ends it.
Custodial(c, to) ==
  /\ App!Becomes(c, to) /\ Same(c, to) /\ page' = page /\ did'.overtaken = did.overtaken
  /\ host'.active = host.active \/ host'.active = None
  /\ c.stage # "answered" /\ ~Documented(to)

LEMMA CustodialKeeps ==
  ASSUME ShownInv, NEW c \in calls, NEW to, Custodial(c, to)
  PROVE  NewToPage' /\ ShownIsHeld'
<1>1. NewToPage'
  <2>1. /\ \A x \in calls' : x \in calls \/ (x = to /\ x.shown = c.shown)
        /\ \A x \in Opens' : Answering(x, "document") => x \in Opens
    BY DEF Custodial, App!Becomes, Same, Opens, Documented
  <2>2. ASSUME NEW o \in Opens', Answering(o, "document")
        PROVE  /\ host'.active # None /\ host'.active.id = o.out.id => host'.active = o.out
               /\ page'.doc # None => page'.doc.id # o.out.id
               /\ \A x \in calls' :
                    /\ x.shown # None => x.shown.id # o.out.id
                    /\ x # o /\ Documented(x) => x.out.id # o.out.id
    <3>1. o \in Opens
      BY <2>1, <2>2
    <3>2. /\ host.active # None /\ host.active.id = o.out.id => host.active = o.out
          /\ page.doc # None => page.doc.id # o.out.id
          /\ \A x \in calls :
               /\ x.shown # None => x.shown.id # o.out.id
               /\ x # o /\ Documented(x) => x.out.id # o.out.id
      BY <2>2, <3>1 DEF ShownInv, NewToPage
    <3> QED BY <2>1, <3>2 DEF Custodial
  <2> QED BY <2>2 DEF NewToPage, Answering, Documented
<1>2. ShownIsHeld'
  <2>1. Resetting' <=> Resetting
    BY DEF Resetting, Custodial, App!Becomes, Same
  <2>2. \A x \in Saves : Answering(x, "saved") => x \in Saves'
    BY DEF Custodial, App!Becomes, Saves, Answering
  <2> QED BY <2>1, <2>2 DEF ShownInv, ShownIsHeld, Custodial
<1> QED BY <1>1, <1>2

\* Only the save that moves is another than before.
LEMMA OtherSavesKeep ==
  ASSUME OneSave, SavesInOrder, NEW c \in calls, NEW to, App!Becomes(c, to), Same(c, to),
         c.kind = "save" => SaveInOrder(to)',
         c.kind # "save" => \A x \in Saves : SaveInOrder(x)'
  PROVE  SavesInOrder'
BY DEF OneSave, SavesInOrder, Saves, App!Becomes, Same

LEMMA QuietKeepsShown ==
  ASSUME FilesAreNumbers, CustodyInv, PageInv, ShownInv, NEW c \in calls, NEW to, QuietFor(c, to)
  PROVE  ShownInv'
<1>1. /\ App!Becomes(c, to) /\ Same(c, to) /\ Goes(c, to) /\ UNCHANGED <<page, disk, did>>
      /\ host'.active = host.active /\ c.stage # "answered" /\ ~(c.kind = "save" /\ c.stage = "commit")
      /\ HoldsIts(c)
  BY DEF QuietFor, CustodyInv, HoldsInOrder
<1>2. ~Documented(to)
  BY QuietHolds
<1>3. LeftBehind' /\ ProfileIsShown'
  BY <1>1, HostKeepsLeftBehind DEF ShownInv
<1>4. NewToPage' /\ ShownIsHeld'
  BY <1>1, <1>2, CustodialKeeps DEF Custodial
<1>5. ASSUME c.kind = "save"
      PROVE  SaveInOrder(to)'
  <2>1. SaveInOrder(c)
    BY <1>5 DEF ShownInv, SavesInOrder, Saves
  <2>2. GivesUp(to) \/ SaveGoes(c, to)
    BY <1>1, <1>5 DEF Goes, OpenGoes
  <2>3. CASE GivesUp(to)
    BY <1>1, <2>1, <2>3 DEF GivesUp, SaveInOrder, Same, Answering
  <2>4. CASE SaveGoes(c, to)
    <3>1. to.stage \in {"prepare", "dialog", "admit", "bind", "check", "write"}
      BY <2>4 DEF SaveGoes
    <3>2. /\ to.mode = c.mode /\ to.shown = c.shown /\ to.dirty = c.dirty /\ to.text = c.text
      BY <1>1 DEF Same
    <3>3. ASSUME ~did.overtaken, c.mode # "new", to.stage \in {"bind", "check", "write"}
          PROVE  to.held = c.shown
      <4>1. CASE c.stage = "admit"
        <5>1. to.held = host.active /\ Pressed(c)
          BY <2>4, <3>3, <4>1 DEF SaveGoes
        <5> QED BY <2>1, <3>3, <4>1, <5>1 DEF SaveInOrder
      <4>2. CASE c.stage # "admit"
        <5>1. to.held = c.held /\ c.stage \in {"bind", "check"}
          BY <2>4, <3>3, <4>2 DEF SaveGoes
        <5> QED BY <2>1, <3>3, <5>1 DEF SaveInOrder
      <4> QED BY <4>1, <4>2
    <3>4. ASSUME ~did.overtaken, c.mode # "new", Pressed(to)'
          PROVE  host'.active = c.shown
      BY <1>1, <2>1, <3>2, <3>4 DEF SaveInOrder, Pressed
    <3> QED BY <1>1, <2>1, <3>1, <3>2, <3>3, <3>4 DEF SaveInOrder, Answering
  <2> QED BY <2>2, <2>3, <2>4
<1>6. SavesInOrder'
  <2>1. ASSUME c.kind # "save", NEW x \in Saves
        PROVE  SaveInOrder(x)'
    BY <1>1 DEF ShownInv, SavesInOrder, SaveInOrder, Pressed
  <2> QED BY <1>1, <1>5, <2>1, OtherSavesKeep DEF ShownInv, PageInv
<1>7. HeldIsOnDisk'
  <2>1. Committing' <=> Committing
    <3>1. ~(to.kind = "save" /\ to.stage = "commit")
      BY <1>1 DEF Same, Goes, GivesUp, OpenGoes, SaveGoes
    <3> QED BY <1>1, <3>1 DEF Committing, Saves, App!Becomes
  <2>2. ASSUME ~did.crossed, NEW o \in Opens', o.stage = "bind"
        PROVE  o.held.text = disk[o.file].text
    <3>1. CASE o \in Opens
      BY <2>2, <3>1 DEF ShownInv, HeldIsOnDisk
    <3>2. CASE o = to
      BY <1>1, <2>2, <3>2 DEF Goes, GivesUp, OpenGoes, SaveGoes, Opens, Same
    <3> QED BY <1>1, <3>1, <3>2 DEF Opens, App!Becomes
  <2>3. ASSUME ~did.crossed, NEW o \in Opens', o.stage = "commit"
        PROVE  o.out.text = disk[o.file].text
    <3>1. CASE o \in Opens
      BY <2>3, <3>1 DEF ShownInv, HeldIsOnDisk
    <3>2. CASE o = to
      <4>1. c \in Opens /\ c.stage = "bind" /\ o.file = c.file /\ o.out.text = c.held.text
        BY <1>1, <2>3, <3>2 DEF Goes, GivesUp, OpenGoes, SaveGoes, Opens, Same
      <4> QED BY <2>3, <4>1 DEF ShownInv, HeldIsOnDisk
    <3> QED BY <1>1, <3>1, <3>2 DEF Opens, App!Becomes
  <2> QED BY <1>1, <2>1, <2>2, <2>3 DEF ShownInv, HeldIsOnDisk
<1> QED BY <1>3, <1>4, <1>6, <1>7 DEF ShownInv

\* An open or a save puts a document in custody whose number no open that is answered has,
\* and that is the one shown only if a save of that is answered.
LEMMA EnteredIsNew ==
  ASSUME FilesAreNumbers, CustodyInv, ShownInv, NEW c \in calls, NEW to,
         OpenCommits(c, to) \/ SaveCommits(c, to)
  PROVE  /\ host'.active # None
         /\ \A o \in Opens : Answering(o, "document") => host'.active.id # o.out.id
         /\ \/ host'.active.id = host.ids + 1
            \/ c.kind = "save" /\ c.mode # "new" /\ c.shown # None /\ host'.active.id = c.shown.id
<1>1. host'.active # None
  BY DEF OpenCommits, SaveCommits, Entered, FilesAreNumbers
<1>2. HoldsIts(c)
  BY DEF CustodyInv, HoldsInOrder
<1>3. \/ host'.active.id = host.ids + 1
      \/ c.kind = "save" /\ c.mode # "new" /\ c.shown # None /\ host'.active.id = c.shown.id
  BY <1>2 DEF OpenCommits, SaveCommits, Entered, HoldsIts, App!At
<1>4. ASSUME NEW o \in Opens, Answering(o, "document")
      PROVE  host'.active.id # o.out.id
  <2>1. o.out.id \in Nat /\ o.out.id <= host.ids /\ host.ids \in Nat
    BY <1>4, DocumentsOfCalls DEF Opens, Documented
  <2>2. c.shown # None => c.shown.id # o.out.id
    BY <1>4 DEF ShownInv, NewToPage
  <2> QED BY <1>3, <2>1, <2>2
<1> QED BY <1>1, <1>3, <1>4

LEMMA CommitsKeepsNew ==
  ASSUME FilesAreNumbers, CustodyInv, ShownInv, NEW c \in calls, NEW to,
         OpenCommits(c, to) \/ SaveCommits(c, to)
  PROVE  NewToPage'
<1>1. /\ App!Becomes(c, to) /\ Same(c, to) /\ to.out = host'.active /\ page' = page
      /\ Documented(to) /\ (Answering(to, "document") => OpenCommits(c, to))
      /\ c.stage = "commit"
  BY DEF OpenCommits, SaveCommits, Entered, Documented, Answering, App!At
<1>2. ASSUME NEW o \in Opens, Answering(o, "document"), o # c
      PROVE  /\ host'.active.id # o.out.id
             /\ page.doc # None => page.doc.id # o.out.id
             /\ \A x \in calls' :
                  /\ x.shown # None => x.shown.id # o.out.id
                  /\ x # o /\ Documented(x) => x.out.id # o.out.id
  <2>1. host'.active.id # o.out.id
    BY <1>2, EnteredIsNew
  <2>2. /\ page.doc # None => page.doc.id # o.out.id
        /\ \A x \in calls :
             /\ x.shown # None => x.shown.id # o.out.id
             /\ x # o /\ Documented(x) => x.out.id # o.out.id
    BY <1>2 DEF ShownInv, NewToPage
  <2>3. \A x \in calls' : x \in calls \/ (x = to /\ x.shown = c.shown)
    BY <1>1 DEF App!Becomes, Same
  <2> QED BY <1>1, <2>1, <2>2, <2>3
<1>3. ASSUME Answering(to, "document")
      PROVE  /\ host'.active = to.out
             /\ page.doc # None => page.doc.id # to.out.id
             /\ \A x \in calls' :
                  /\ x.shown # None => x.shown.id # to.out.id
                  /\ x # to /\ Documented(x) => x.out.id # to.out.id
  <2>1. to.out.id = host.ids + 1 /\ host'.active = to.out
    BY <1>1, <1>3 DEF OpenCommits, Entered
  <2>2. /\ host.ids \in Nat
        /\ page.doc # None => page.doc.id \in Nat /\ page.doc.id <= host.ids
        /\ \A x \in calls :
             /\ x.shown # None => x.shown.id \in Nat /\ x.shown.id <= host.ids
             /\ Documented(x) => x.out.id \in Nat /\ x.out.id <= host.ids
    BY DocumentsOfCalls
  <2>3. /\ page.doc # None => page.doc.id # to.out.id
        /\ \A x \in calls :
             /\ x.shown # None => x.shown.id # to.out.id
             /\ Documented(x) => x.out.id # to.out.id
    BY <2>1, <2>2
  <2>4. \A x \in calls' : x \in calls \/ (x = to /\ x.shown = c.shown)
    BY <1>1 DEF App!Becomes, Same
  <2> QED BY <2>1, <2>3, <2>4
<1>4. \A o \in Opens' : o = to \/ (o \in Opens /\ o # c)
  BY <1>1 DEF Opens, App!Becomes
<1> QED BY <1>1, <1>2, <1>3, <1>4 DEF NewToPage, Answering, Documented

LEMMA CommitsKeepShown ==
  ASSUME FilesAreNumbers, CustodyInv, PageInv, ShownInv, NEW c \in calls, NEW to,
         OpenCommits(c, to) \/ SaveCommits(c, to)
  PROVE  ShownInv'
<1>1. /\ App!Becomes(c, to) /\ Same(c, to) /\ UNCHANGED <<page, disk, did>>
      /\ to.out = host'.active /\ to.stage = "answered" /\ c.stage = "commit"
      /\ c.kind \in {"open", "save"}
      /\ host'.active.text = c.out.text /\ host'.active.editable = c.out.editable
      /\ host'.active.file = c.out.file
      /\ Documented(to) /\ (c.kind = "save" => Answering(to, "saved"))
  BY DEF OpenCommits, SaveCommits, Entered, Documented, Answering, App!At
<1>2. /\ host'.active # None
      /\ \/ host'.active.id = host.ids + 1
         \/ c.kind = "save" /\ c.mode # "new" /\ c.shown # None /\ host'.active.id = c.shown.id
  BY EnteredIsNew
<1>3. HoldsIts(c) /\ c.out.file = c.file
  BY <1>1 DEF CustodyInv, HoldsInOrder, HoldsIts
<1>4. LeftBehind' /\ ProfileIsShown'
  BY <1>1, HostKeepsLeftBehind DEF ShownInv
<1>5. NewToPage'
  BY CommitsKeepsNew
<1>6. ShownIsHeld'
  <2>1. Resetting' <=> Resetting
    BY <1>1 DEF Resetting, App!Becomes, Same
  <2>2. CASE host'.active.id = host.ids + 1
    <3>1. page.doc # None => page.doc.id # host'.active.id
      BY <2>2, DocumentsOfCalls
    <3> QED BY <1>1, <3>1 DEF ShownIsHeld
  <2>3. CASE c.kind = "save" /\ c.mode # "new" /\ c.shown # None /\ host'.active.id = c.shown.id
    <3>1. CASE c.gen = page.gen
      <4>1. to \in Saves' /\ Answering(to, "saved") /\ to.gen = page.gen
        BY <1>1, <2>3, <3>1 DEF Saves, App!Becomes, Same
      <4> QED BY <1>1, <4>1 DEF ShownIsHeld, Answering
    <3>2. CASE c.gen # page.gen
      <4>1. ~did.overtaken /\ ~Resetting /\ page.doc # None => page.doc.id # c.shown.id
        BY <2>3, <3>2 DEF ShownInv, LeftBehind, Saves
      <4> QED BY <1>1, <2>1, <2>3, <4>1 DEF ShownIsHeld
    <3> QED BY <3>1, <3>2
  <2> QED BY <1>2, <2>2, <2>3
<1>7. ASSUME c.kind = "save"
      PROVE  SaveInOrder(to)'
  <2>1. SaveInOrder(c)
    BY <1>7 DEF ShownInv, SavesInOrder, Saves
  <2>2. to.mode = c.mode /\ to.shown = c.shown /\ to.dirty = c.dirty /\ to.text = c.text
    BY <1>1 DEF Same
  <2> QED BY <1>1, <2>1, <2>2 DEF SaveInOrder
<1>8. SavesInOrder'
  <2>1. ASSUME c.kind # "save", NEW x \in Saves
        PROVE  SaveInOrder(x)'
    <3>1. host'.active.id = host.ids + 1
      BY <1>2, <2>1
    <3>2. /\ x.shown # None => x.shown.id # host'.active.id
          /\ Answering(x, "saved") => x.out.id # host'.active.id
      BY <2>1, <3>1, DocumentsOfCalls DEF Saves, Documented
    <3>3. SaveInOrder(x) /\ (x.mode # "new" => x.shown # None)
      BY <2>1 DEF ShownInv, SavesInOrder, Saves, CustodyInv, HoldsInOrder, HoldsIts
    <3> QED BY <1>1, <3>2, <3>3 DEF SaveInOrder, Pressed, Answering
  <2> QED BY <1>1, <1>7, <2>1, OtherSavesKeep DEF ShownInv, PageInv
<1>9. HeldIsOnDisk'
  <2>1. ~did.crossed => c.out.text = disk[c.file].text
    <3>1. CASE c.kind = "open"
      BY <1>1, <3>1 DEF ShownInv, HeldIsOnDisk, Opens
    <3>2. CASE c.kind = "save"
      BY <1>1, <3>2 DEF ShownInv, SavesInOrder, SaveInOrder, Saves
    <3> QED BY <1>1, <3>1, <3>2
  <2>2. \A o \in Opens' : o.stage = "answered" \/ o \in Opens
    BY <1>1 DEF Opens, App!Becomes
  <2> QED BY <1>1, <1>3, <2>1, <2>2 DEF ShownInv, HeldIsOnDisk
<1> QED BY <1>4, <1>5, <1>6, <1>8, <1>9 DEF ShownInv

LEMMA WritesKeepShown ==
  ASSUME FilesAreNumbers, CustodyInv, PageInv, ShownInv, NEW c \in calls, NEW to, Writes(c, to)
  PROVE  ShownInv'
<1>1. /\ App!Becomes(c, to) /\ Same(c, to) /\ UNCHANGED <<page, host>> /\ HoldsIts(c)
      /\ c.kind = "save" /\ c.stage = "write" /\ to.stage = "commit" /\ to.file = c.file
      /\ to.held = c.held /\ to.out.text = App!Written(c)
      /\ to.out.editable = (IF c.mode = "original" THEN c.held.editable ELSE TRUE)
      /\ disk'[c.file].text = App!Written(c) /\ \A f \in Files \ {c.file} : disk'[f] = disk[f]
  BY DEF Writes, App!At, CustodyInv, HoldsInOrder
<1>2. /\ did'.overtaken = did.overtaken
      /\ ~did'.crossed =>
           /\ ~did.crossed
           /\ \A o \in Opens : o.stage \in {"bind", "commit"} => o.file # c.file
  <2> DEFINE under ==
        \E o \in calls : o.kind = "open" /\ o.file = c.file /\ o.stage \in {"bind", "commit"}
             crossed == did.crossed \/ under
  <2>1. did' = [did EXCEPT !.crossed = crossed] /\ did \in DidState
    BY DEF Writes, CustodyInv, AppTypeOK
  <2>2. ~crossed => ~did.crossed /\ ~under
    OBVIOUS
  <2>3. ~under => \A o \in Opens : o.stage \in {"bind", "commit"} => o.file # c.file
    BY DEF Opens
  <2> HIDE DEF crossed, under
  <2>4. did'.overtaken = did.overtaken /\ did'.crossed = crossed
    BY <2>1 DEF DidState
  <2> QED BY <2>2, <2>3, <2>4
<1>3. LeftBehind' /\ ProfileIsShown'
  BY <1>1, <1>2, HostKeepsLeftBehind DEF ShownInv
<1>4. NewToPage' /\ ShownIsHeld'
  BY <1>1, <1>2, CustodialKeeps DEF Custodial, Documented, Answering
<1>5. SaveInOrder(to)'
  <2>1. SaveInOrder(c)
    BY <1>1 DEF ShownInv, SavesInOrder, Saves
  <2>2. to.mode = c.mode /\ to.shown = c.shown /\ to.dirty = c.dirty /\ to.text = c.text
    BY <1>1 DEF Same
  <2>3. ASSUME ~did.overtaken, to.out.editable, c.mode = "original" => ~c.dirty
        PROVE  to.out.text = c.text
    <3>1. CASE c.mode = "original"
      <4>1. c.held = c.shown
        BY <1>1, <2>1, <2>3, <3>1 DEF SaveInOrder
      <4> QED BY <1>1, <2>1, <2>3, <3>1, <4>1 DEF SaveInOrder, App!Written
    <3>2. CASE c.mode # "original"
      BY <1>1, <3>2 DEF App!Written
    <3> QED BY <3>1, <3>2
  <2>4. ~did.overtaken /\ c.mode # "new" /\ Pressed(c) => host.active = c.shown
    BY <1>1, <2>1 DEF SaveInOrder
  <2>5. ~did.overtaken /\ c.mode = "original" /\ ~c.dirty /\ c.shown.editable =>
          c.shown.text = c.text
    BY <2>1 DEF SaveInOrder
  <2> QED BY <1>1, <1>2, <2>2, <2>3, <2>4, <2>5 DEF SaveInOrder, Pressed, Answering
<1>6. SavesInOrder'
  BY <1>1, <1>5, OtherSavesKeep DEF ShownInv, PageInv
<1>7. HeldIsOnDisk'
  <2>1. to \in Saves'
    BY <1>1 DEF Saves, App!Becomes, Same
  <2>2. Committing'
    BY <1>1, <2>1 DEF Committing
  <2>3. \A o \in Opens' : o \in Opens
    BY <1>1 DEF Opens, App!Becomes, Same
  <2>4. \A o \in Opens : o.stage \in {"bind", "commit"} => o.file \in Files
    BY DEF CustodyInv, HoldsInOrder, HoldsIts, Opens
  <2> QED BY <1>1, <1>2, <2>2, <2>3, <2>4 DEF ShownInv, HeldIsOnDisk
<1> QED BY <1>3, <1>4, <1>6, <1>7 DEF ShownInv

LEMMA LostOrResetKeepShown ==
  ASSUME FilesAreNumbers, CustodyInv, PageInv, ShownInv, NEW c \in calls, NEW to,
         SaveLost(c, to) \/ HostResets(c, to)
  PROVE  ShownInv'
<1>1. /\ App!Becomes(c, to) /\ Same(c, to) /\ UNCHANGED <<page, disk>> /\ GivesUp(to)
      /\ c.stage # "answered" /\ host'.active \in {host.active, None}
      /\ c.kind = "save" \/ (HostResets(c, to) /\ c.kind = "reset")
  BY DEF SaveLost, HostResets, App!At
<1>2. did'.overtaken = did.overtaken /\ (SaveLost(c, to) => did'.crossed)
  BY DEF SaveLost, HostResets, CustodyInv, AppTypeOK, DidState
<1>3. LeftBehind' /\ ProfileIsShown'
  BY <1>1, <1>2, HostKeepsLeftBehind DEF ShownInv
<1>4. NewToPage' /\ ShownIsHeld'
  BY <1>1, <1>2, CustodialKeeps DEF Custodial, Documented, Answering, GivesUp
<1>5. ASSUME c.kind = "save"
      PROVE  SaveInOrder(to)'
  <2>1. SaveInOrder(c)
    BY <1>5 DEF ShownInv, SavesInOrder, Saves
  <2> QED BY <1>1, <1>2, <2>1 DEF SaveInOrder, Same, GivesUp, Answering
<1>6. SavesInOrder'
  <2>1. ASSUME c.kind # "save", NEW x \in Saves
        PROVE  SaveInOrder(x)'
    <3>1. host'.active = None /\ SaveInOrder(x)
      BY <1>1, <2>1 DEF HostResets, ShownInv, SavesInOrder
    <3> QED BY <1>1, <1>2, <3>1 DEF SaveInOrder, Pressed, Answering
  <2> QED BY <1>1, <1>5, <2>1, OtherSavesKeep DEF ShownInv, PageInv
<1>7. HeldIsOnDisk'
  <2>1. CASE SaveLost(c, to)
    BY <1>2, <2>1 DEF HeldIsOnDisk
  <2>2. CASE HostResets(c, to)
    <3>1. Opens' \subseteq Opens /\ host'.active = None /\ did' = did
      BY <1>1, <2>2 DEF HostResets, Opens, App!Becomes, Same, App!At
    <3> QED BY <1>1, <3>1 DEF ShownInv, HeldIsOnDisk
  <2> QED BY <2>1, <2>2
<1> QED BY <1>3, <1>4, <1>6, <1>7 DEF ShownInv

-----------------------------------------------------------------------------
(* ... in a step of the page.                                              *)

\* A user operation: a call is made, or none, and the documents stay.
LEMMA UserKeepsShown ==
  ASSUME FilesAreNumbers, CustodyInv, PageInv, ShownInv,
         App!Edit \/ App!Compile \/ App!Open \/ App!Save \/ App!Reset \/ App!Adopt
  PROVE  ShownInv'
<1>1. AppTypeOK
  BY DEF CustodyInv
<1>2. /\ UserActs /\ page'.doc = page.doc
      /\ page'.dirty \/ (page'.dirty = page.dirty /\ page'.profile = page.profile)
  BY <1>1, EditIs, CompileIs, OpenIs, SaveIs, ResetIs, AdoptIs DEF SameShown, SameDraft
<1>3. \/ calls' = calls /\ page'.gen = page.gen
      \/ \E c : /\ calls' = calls \cup {c} /\ FromPage(c)
                /\ c.kind = "reset" \/ page'.gen = page.gen
                /\ c.kind = "save" => ~page.saving
  BY <1>1, EditIs, CompileIs, OpenIs, SaveIs, ResetIs, AdoptIs DEF SameDraft
<1>4. /\ ~did'.overtaken => ~did.overtaken /\ ~Resetting
      /\ ~did'.crossed => ~did.crossed
      /\ host' = host /\ disk' = disk
  BY <1>2 DEF UserActs
<1>5. \A x \in calls' : x \in calls \/ (FromPage(x) /\ (x.kind = "save" => ~page.saving))
  BY <1>3
<1>6. \A x \in calls' : x \in calls \/ (x.stage = "sent" /\ x.shown = page.doc)
  BY <1>5 DEF FromPage, Made
<1>7. calls \subseteq calls' /\ (page'.gen = page.gen \/ Resetting')
  BY <1>3 DEF Resetting
<1>8. NewToPage'
  <2>1. \A o \in Opens' : Answering(o, "document") => o \in Opens
    BY <1>6 DEF Opens, Answering
  <2> QED BY <1>2, <1>4, <1>6, <2>1 DEF ShownInv, NewToPage, Documented, Answering
<1>9. LeftBehind'
  <2>1. \A x \in Saves' : x \in Saves \/ x.gen = page.gen
    BY <1>5 DEF Saves, FromPage
  <2> QED BY <1>2, <1>4, <1>7, <2>1 DEF ShownInv, LeftBehind
<1>10. ShownIsHeld'
  BY <1>2, <1>4, <1>7 DEF ShownInv, ShownIsHeld, Saves
<1>11. SavesInOrder'
  <2>1. ASSUME NEW x \in Saves', x \in calls
        PROVE  SaveInOrder(x)'
    BY <1>4, <2>1 DEF ShownInv, SavesInOrder, Saves, SaveInOrder, Pressed
  <2>2. ASSUME NEW x \in Saves', FromPage(x), ~page.saving
        PROVE  SaveInOrder(x)'
    <3>1. /\ x.stage = "sent" /\ x.shown = page.doc /\ x.text = page.profile
          /\ x.dirty = page.dirty /\ (x.mode # "new" => page.doc # None)
      BY <2>2 DEF FromPage, Made, Saves
    <3>2. Saves = {}
      BY <2>2 DEF PageInv, OneSave
    <3>3. ~did'.overtaken /\ x.mode # "new" /\ Pressed(x) => host.active = x.shown
      BY <1>4, <3>1, <3>2 DEF ShownInv, ShownIsHeld, Pressed
    <3>4. ~did'.overtaken /\ x.mode = "original" /\ ~x.dirty /\ x.shown.editable =>
            x.shown.text = x.text
      BY <1>4, <3>1 DEF ShownInv, ProfileIsShown
    <3> QED BY <1>4, <3>1, <3>3, <3>4 DEF SaveInOrder, Pressed, Answering
  <2> QED BY <1>5, <2>1, <2>2 DEF SavesInOrder, Saves
<1>12. HeldIsOnDisk'
  <2>1. \A o \in Opens' : o \in Opens \/ o.stage = "sent"
    BY <1>6 DEF Opens
  <2>2. Committing => Committing'
    BY <1>7 DEF Committing, Saves
  <2> QED BY <1>4, <2>1, <2>2 DEF ShownInv, HeldIsOnDisk
<1>13. ProfileIsShown'
  BY <1>2, <1>4 DEF ShownInv, ProfileIsShown
<1> QED BY <1>8, <1>9, <1>10, <1>11, <1>12, <1>13 DEF ShownInv

\* An answered call is gone: what was written, read and opened is as before.
LEMMA AnswersKeepFiles ==
  ASSUME ShownInv, NEW c \in calls, c.stage = "answered", UNCHANGED <<host, disk, did>>,
         \A x \in calls' : x \in calls \/ x.kind = "compile", calls \ {c} \subseteq calls'
  PROVE  SavesInOrder' /\ HeldIsOnDisk'
<1>1. Saves' \subseteq Saves /\ Opens' \subseteq Opens
  BY DEF Saves, Opens
<1>2. Committing => Committing'
  BY DEF Committing, Saves
<1>3. SavesInOrder'
  BY <1>1 DEF ShownInv, SavesInOrder, SaveInOrder, Pressed
<1>4. HeldIsOnDisk'
  BY <1>1, <1>2 DEF ShownInv, HeldIsOnDisk
<1> QED BY <1>3, <1>4

\* An answer that leaves the document shown and the numbers of the page.
LEMMA PlainAnswerKeepsShown ==
  ASSUME ShownInv, NEW c \in calls, Taken(c), c.kind # "reset", page'.gen = page.gen,
         page'.doc = page.doc, page'.dirty = page.dirty, page'.profile = page.profile,
         ~(Answering(c, "saved") /\ c.gen = page.gen) \/ c.kind # "save"
  PROVE  ShownInv'
<1>1. /\ Saves' \subseteq Saves /\ Opens' \subseteq Opens /\ calls' \subseteq calls
      /\ c.stage = "answered" /\ calls \ {c} \subseteq calls' /\ UNCHANGED <<host, disk, did>>
  BY DEF Taken, Saves, Opens
<1>2. SavesInOrder' /\ HeldIsOnDisk'
  BY <1>1, AnswersKeepFiles
<1>3. Resetting' <=> Resetting
  BY DEF Taken, Resetting
<1>4. NewToPage' /\ LeftBehind'
  BY <1>1, <1>3 DEF ShownInv, NewToPage, LeftBehind
<1>5. ShownIsHeld'
  <2>1. \A x \in Saves : Answering(x, "saved") /\ x.gen = page.gen => x \in Saves'
    BY DEF Taken, Saves
  <2> QED BY <1>1, <1>3, <2>1 DEF ShownInv, ShownIsHeld
<1>6. ProfileIsShown'
  BY <1>1 DEF ShownInv, ProfileIsShown
<1> QED BY <1>2, <1>4, <1>5, <1>6 DEF ShownInv

LEMMA ShowsKeepsShown ==
  ASSUME FilesAreNumbers, CustodyInv, PageInv, ShownInv, NEW c \in calls, Shows(c)
  PROVE  ShownInv'
<1>1. /\ c.kind = "open" /\ Answering(c, "document") /\ c.out \in Document /\ page'.doc = c.out
      /\ page'.profile = (IF c.out.editable THEN c.out.text ELSE page.profile)
      /\ UNCHANGED <<host, disk, did>>
      /\ \A x \in calls' : \/ x \in calls /\ x # c
                           \/ x.kind = "compile" /\ x.stage = "sent" /\ x.shown = page.doc
      /\ calls \ {c} \subseteq calls'
  BY DEF Shows, Made
<1>2. /\ host.active # None /\ host.active.id = c.out.id => host.active = c.out
      /\ \A x \in calls : /\ x.shown # None => x.shown.id # c.out.id
                          /\ x # c /\ Documented(x) => x.out.id # c.out.id
  BY <1>1 DEF ShownInv, NewToPage, Opens
<1>3. SavesInOrder' /\ HeldIsOnDisk'
  BY <1>1, AnswersKeepFiles DEF Answering
<1>4. NewToPage'
  <2>1. ASSUME NEW o \in Opens', Answering(o, "document")
        PROVE  /\ host.active # None /\ host.active.id = o.out.id => host.active = o.out
               /\ page'.doc.id # o.out.id
               /\ \A x \in calls' :
                    /\ x.shown # None => x.shown.id # o.out.id
                    /\ x # o /\ Documented(x) => x.out.id # o.out.id
    <3>1. o \in Opens /\ o # c
      BY <1>1, <2>1 DEF Opens, Answering
    <3>2. page'.doc.id # o.out.id
      BY <1>1, <1>2, <2>1, <3>1 DEF Opens, Documented
    <3>3. /\ host.active # None /\ host.active.id = o.out.id => host.active = o.out
          /\ page.doc # None => page.doc.id # o.out.id
          /\ \A x \in calls : /\ x.shown # None => x.shown.id # o.out.id
                              /\ x # o /\ Documented(x) => x.out.id # o.out.id
      BY <2>1, <3>1 DEF ShownInv, NewToPage
    <3> QED BY <1>1, <3>2, <3>3 DEF Documented, Answering
  <2> QED BY <1>1, <2>1 DEF NewToPage, Answering, Documented
<1>5. LeftBehind'
  BY <1>1, <1>2 DEF LeftBehind, Saves
<1>6. ShownIsHeld'
  BY <1>1, <1>2 DEF ShownIsHeld
<1>7. ProfileIsShown'
  BY <1>1 DEF ProfileIsShown
<1> QED BY <1>3, <1>4, <1>5, <1>6, <1>7 DEF ShownInv

LEMMA SavedKeepsShown ==
  ASSUME FilesAreNumbers, CustodyInv, PageInv, ShownInv, NEW c \in calls, c.kind = "save",
         Taken(c), SameDraft, page.gen = c.gen, Answering(c, "saved"), page'.doc = c.out,
         ~page'.dirty => ~page.dirty \/ App!CleanAfter(c)
  PROVE  ShownInv'
<1>1. /\ Saves' = {} /\ (Resetting' <=> Resetting) /\ did' = did /\ calls' \subseteq calls
      /\ calls \ {c} \subseteq calls' /\ UNCHANGED <<host, disk, did>> /\ c \notin calls'
      /\ Opens' \subseteq Opens
  BY AnswerTaken DEF Taken, Resetting, Opens
<1>2. SavesInOrder' /\ HeldIsOnDisk'
  BY <1>1, AnswersKeepFiles DEF Answering
<1>3. SaveInOrder(c) /\ c \in Saves
  BY DEF ShownInv, SavesInOrder, Saves
<1>4. NewToPage'
  <2>1. \A o \in Opens' : Answering(o, "document") => c.out.id # o.out.id
    BY <1>1 DEF ShownInv, NewToPage, Opens, Documented
  <2> QED BY <1>1, <2>1 DEF ShownInv, NewToPage
<1>5. LeftBehind'
  BY <1>1 DEF LeftBehind
<1>6. ShownIsHeld'
  BY <1>1, <1>3 DEF ShownIsHeld, SaveInOrder
<1>7. ProfileIsShown'
  <2> SUFFICES ASSUME ~did.overtaken, c.out.editable, ~page'.dirty
               PROVE  page.profile = c.out.text
    BY <1>1 DEF ProfileIsShown, SameDraft
  <2>1. page.rev = c.rev /\ (c.mode = "original" => ~c.dirty)
    <3>1. CASE App!CleanAfter(c)
      BY <3>1 DEF App!CleanAfter
    <3>2. CASE ~page.dirty
      BY <1>3, <3>2 DEF PageInv, CleanSince
    <3> QED BY <3>1, <3>2
  <2>2. c.text = page.profile
    BY <2>1 DEF PageInv, CallsInOrder
  <2> QED BY <1>3, <2>1, <2>2 DEF SaveInOrder
<1> QED BY <1>2, <1>4, <1>5, <1>6, <1>7 DEF ShownInv

LEMMA AnswerKeepsShown ==
  ASSUME FilesAreNumbers, CustodyInv, PageInv, ShownInv, App!Continue
  PROVE  ShownInv'
<1>1. AppTypeOK /\ HoldsInOrder
  BY DEF CustodyInv
<1>2. PICK c \in calls : \/ App!CompileAnswered(c) \/ App!OpenAnswered(c)
                         \/ App!SaveAnswered(c) \/ App!ResetAnswered(c)
  BY DEF App!Continue
<1>3. CASE App!CompileAnswered(c)
  BY <1>1, <1>3, CompileAnsweredIs, PlainAnswerKeepsShown DEF SameDraft, SameShown
<1>4. CASE App!OpenAnswered(c)
  BY <1>1, <1>4, OpenAnsweredIs, PlainAnswerKeepsShown, ShowsKeepsShown
<1>5. CASE App!SaveAnswered(c)
  BY <1>1, <1>5, SaveAnsweredIs, PlainAnswerKeepsShown, SavedKeepsShown DEF SameDraft
<1>6. CASE App!ResetAnswered(c)
  <2>1. Taken(c) /\ c.kind = "reset" /\ page'.doc = None
    BY <1>1, <1>6, ResetAnsweredIs
  <2>2. /\ Opens' \subseteq Opens /\ calls' \subseteq calls /\ c.stage = "answered"
        /\ calls \ {c} \subseteq calls' /\ UNCHANGED <<host, disk, did>>
    BY <2>1 DEF Taken, Opens
  <2>3. SavesInOrder' /\ HeldIsOnDisk'
    BY <2>2, AnswersKeepFiles
  <2>4. NewToPage' /\ LeftBehind' /\ ShownIsHeld' /\ ProfileIsShown'
    BY <2>1, <2>2 DEF ShownInv, NewToPage, LeftBehind, ShownIsHeld, ProfileIsShown
  <2> QED BY <2>3, <2>4 DEF ShownInv
<1> QED BY <1>2, <1>3, <1>4, <1>5, <1>6

LEMMA ShownInvStep ==
  ASSUME FilesAreNumbers, CustodyInv, PageInv, ShownInv, [FilesNext]_fileVars
  PROVE  ShownInv'
<1>1. CASE App!Next
  <2>1. CASE App!Serve
    BY <2>1, ServeIs, QuietKeepsShown, CommitsKeepShown, WritesKeepShown, LostOrResetKeepShown
    DEF HostStep
  <2> QED BY <1>1, <2>1, UserKeepsShown, AnswerKeepsShown DEF App!Next
<1>2. CASE UNCHANGED appVars
  BY <1>2 DEF appVars, ShownInv, NewToPage, LeftBehind, ShownIsHeld, SavesInOrder, SaveInOrder,
     HeldIsOnDisk, ProfileIsShown, Saves, Opens, Resetting, Committing, Pressed
<1> QED BY <1>1, <1>2
    DEF FilesNext, InPair, InScene, InRuntime, InNode, InApp, InPreview, fileVars

\* An application theme that is shown as saved is what its file holds, and a style sheet is
\* adopted only for the profile shown at that moment (handleSaveProfile, handleAdoptDraft of
\* ApplicationThemeLab.tsx, atomic_write_bytes of commands/app_theme.rs).
THEOREM AppShowsWhatIsSaved ==
  ASSUME FilesAreNumbers
  PROVE  FilesSpec => []ShownIsTrue
<1>1. FilesInit => PageInv /\ ShownInv
  BY PageInvInit, ShownInvInit DEF FilesInit
<1>2. CustodyInv /\ PageInv /\ ShownInv => ShownIsTrue
  <2> SUFFICES ASSUME CustodyInv, PageInv, ShownInv
               PROVE  App!CleanMeansSaved /\ App!AdoptedIsShown
    BY DEF ShownIsTrue, App!ShownIsTrue
  <2>1. App!CleanMeansSaved
    <3> SUFFICES ASSUME page.doc # None, page.doc = host.active, page.doc.editable, ~page.dirty,
                        ~did.overtaken, ~did.crossed, \A c \in calls : ~App!At(c, "save", "commit")
                 PROVE  disk[page.doc.file].text = page.profile
      BY DEF App!CleanMeansSaved
    <3>1. ~Committing
      BY DEF Committing, Saves, App!At
    <3> QED BY <3>1 DEF ShownInv, HeldIsOnDisk, ProfileIsShown
  <2> QED BY <2>1 DEF PageInv
<1> QED BY <1>1, <1>2, CustodyHolds, PageInvStep, ShownInvStep, PTL DEF FilesSpec
=============================================================================
