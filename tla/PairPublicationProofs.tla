-------------------------- MODULE PairPublicationProofs --------------------------
(***************************************************************************)
(* Proofs about PairPublication, for any number of preparations that       *)
(* follow one another, any number of failures, crashes and cleanings, and  *)
(* inputs that change at any time.  That preparations do not overlap is a  *)
(* hypothesis (the code has no lock), and so is that the lstat after a     *)
(* rename succeeds.  The invariant says for every label of a run where     *)
(* the two halves of the old pair are; it holds after crashes too.  That   *)
(* the pair is whole is added where no crash and no residue lies before.   *)
(***************************************************************************)
EXTENDS PairPublication, FiniteSetTheorems, TLAPS

\* Preparations and cleanings follow one another, and what was renamed can be looked at.
OneAtATime == IsFiniteSet(Runs) /\ MaxActive = 1 /\ ~StatFails

Pairs == Gens \cup {None}
Versions == [Parts -> Nat]
Working == Moving \cup Undoing \cup {"cleanRecovery"}
Verified == Probing \cup Reading \cup Working
Pcs == {"idle"} \cup Staging \cup Verified \cup Ended

RunState == [pc : Pcs, oldBin : Pairs, oldPay : Pairs, backupBin : Pairs, backupPay : Pairs,
             rejBin : Pairs, movedBin : BOOLEAN, movedPay : BOOLEAN, promBin : Pairs,
             retain : BOOLEAN]

PairTypeOK ==
  /\ bin \in Pairs /\ pay \in Pairs /\ binDir \in BOOLEAN
  /\ run \in [Runs -> RunState]
  /\ staged \in [Gens -> [copied : Versions, manifest : Versions]]
  /\ source \in Versions
  /\ cleaner \in {"idle", "half"}
  /\ faults \in Nat /\ crashes \in Nat /\ cleans \in Nat

\* One at a time.
Alone ==
  /\ \A r, s \in Runs : Active(r) /\ Active(s) => r = s
  /\ cleaner = "half" => bin = None /\ \A r \in Runs : ~Active(r)

\* Where the old pair is, for run r in state s with b, p and d at the destination.
Moved(s) ==
  IF s.oldBin = None THEN s.oldPay = None /\ ~s.movedBin /\ ~s.movedPay
  ELSE /\ s.oldPay # None /\ s.movedBin /\ s.movedPay
       /\ s.backupBin = s.oldBin /\ s.backupPay = s.oldPay

Knows(r, s, b, p, d) ==
  /\ s.pc \in {"oldPay", "recovery"} \cup Moving \cup Undoing => d
  /\ s.pc \in {"idle", "oldBin", "oldPay", "recovery"} \cup Staging \cup Probing =>
       ~s.movedBin /\ ~s.movedPay /\ s.promBin = None
  /\ s.pc = "oldPay" => s.oldBin = b
  /\ s.pc = "recovery" => s.oldBin = b /\ s.oldPay = p
  /\ s.pc \in {"idOldBin", "mvOldBin"} =>
       /\ s.oldBin = b /\ s.oldPay = p /\ s.oldBin # None /\ s.oldPay # None
       /\ ~s.movedBin /\ ~s.movedPay /\ s.promBin = None
  /\ s.pc \in {"idOldPay", "mvOldPay"} =>
       /\ b = None /\ s.oldPay = p /\ s.oldBin # None /\ s.oldPay # None
       /\ s.backupBin = s.oldBin /\ s.movedBin /\ ~s.movedPay /\ s.promBin = None
  /\ s.pc \in {"absentBin", "promoteBin"} => b = None /\ p = None /\ s.promBin = None /\ Moved(s)
  /\ s.pc = "statBin" => b = r /\ p = None /\ s.promBin = None /\ Moved(s)
  /\ s.pc \in {"absentPay", "promotePay", "undoBin", "undoBinMv"} =>
       b = r /\ p = None /\ s.promBin = r /\ Moved(s)
  /\ s.pc \in {"statPay", "cleanRecovery"} => b = r /\ p = r /\ Moved(s)
  /\ s.pc \in {"backPay", "backPayMv"} => b = None /\ p = None /\ s.movedPay /\ Moved(s)
  /\ s.pc \in {"backBin", "backBinMv"} =>
       b = None /\ s.oldPay = p /\ s.movedBin /\ s.backupBin = s.oldBin
  /\ s.pc = "dropRecovery" => s.oldBin = b /\ s.oldPay = p

OldPairIsKnown == \A r \in Runs : Knows(r, run[r], bin, pay, binDir)

\* Nobody has seen the pair of a run that has not verified it.
Unseen ==
  \A r \in Runs : run[r].pc \in {"idle"} \cup Staging =>
    /\ bin # r /\ pay # r
    /\ \A s \in Runs : run[s].oldBin # r /\ run[s].oldPay # r

StagedIsTrue == \A r \in Runs : run[r].pc \in Verified => TrueToManifest(r, r)

Whole(b, p) == b = p /\ (b # None => TrueToManifest(b, p))
Calm == crashes = 0 /\ \A r \in Runs : run[r].pc # "residue"

WholeAtRest ==
  /\ Calm /\ cleaner = "idle" /\ (\A r \in Runs : run[r].pc \notin Working) => Whole(bin, pay)
  /\ Calm => \A r \in Runs : run[r].pc \in Moving \cup Undoing => Whole(run[r].oldBin, run[r].oldPay)

PairInv ==
  /\ PairTypeOK /\ Alone /\ OldPairIsKnown /\ Unseen /\ StagedIsTrue /\ WholeAtRest
-----------------------------------------------------------------------------

LEMMA PairInvInit == Init => PairInv
<1> SUFFICES ASSUME Init PROVE PairInv
  OBVIOUS
<1>1. /\ \A r \in Runs : run[r] = Fresh /\ ~Active(r)
      /\ run \in [Runs -> {Fresh}]
      /\ crashes = 0 /\ cleaner = "idle"
  BY DEF Init, Active, Fresh, Ended
<1>2. Fresh \in RunState
  BY DEF Fresh, RunState, Pcs, Pairs
<1>3. Blank \in [copied : Versions, manifest : Versions]
  BY DEF Blank, Versions
<1>4. bin \in Pairs /\ pay \in Pairs /\ binDir \in BOOLEAN /\ bin \in {None, Old} /\ pay = bin
  BY DEF Init, Pairs, Gens
<1>5. PairTypeOK
  BY <1>1, <1>2, <1>3, <1>4 DEF PairTypeOK, Init, Versions
<1>6. Alone
  BY <1>1 DEF Alone
<1>7. OldPairIsKnown
  BY <1>1 DEF OldPairIsKnown, Knows, Fresh, Moving, Undoing, Staging, Probing
<1>8. Unseen
  BY <1>1, <1>4, NamesAssumption DEF Unseen, Fresh
<1>9. StagedIsTrue
  BY <1>1 DEF StagedIsTrue, Fresh, Verified, Probing, Reading, Working, Moving, Undoing
<1>10. WholeAtRest
  <2>1. bin # None => TrueToManifest(bin, pay)
    <3>1. Old \in Gens
      BY DEF Gens
    <3>2. staged[Old] = Blank
      BY <3>1 DEF Init
    <3> QED BY <1>4, <3>2 DEF TrueToManifest, Blank, Parts
  <2>2. \A r \in Runs : run[r].pc \notin Moving \cup Undoing
    BY <1>1 DEF Fresh, Moving, Undoing
  <2> QED BY <1>4, <2>1, <2>2 DEF WholeAtRest, Whole
<1> QED BY <1>5, <1>6, <1>7, <1>8, <1>9, <1>10 DEF PairInv

\* A preparation or a cleaning begins when nobody is at work.
LEMMA NobodyActive ==
  ASSUME OneAtATime, PairTypeOK, ActiveCount < MaxActive
  PROVE  cleaner = "idle" /\ \A r \in Runs : ~Active(r)
<1> DEFINE working == {r \in Runs : Active(r)}
<1>1. IsFiniteSet(working)
  BY FS_Subset DEF OneAtATime
<1>2. Cardinality(working) \in Nat
  BY <1>1, FS_CardinalityType
<1>3. ActiveCount = Cardinality(working) + (IF cleaner = "half" THEN 1 ELSE 0)
  BY DEF ActiveCount
<1>4. Cardinality(working) = 0 /\ cleaner # "half"
  BY <1>2, <1>3 DEF OneAtATime
<1>5. working = {}
  BY <1>1, <1>4, FS_EmptySet
<1> QED BY <1>4, <1>5 DEF PairTypeOK

LEMMA ActiveLabels ==
  ASSUME PairInv, NEW r \in Runs
  PROVE  /\ run[r] \in RunState /\ run[r].pc \in Pcs
         /\ Active(r) <=> run[r].pc \in Staging \cup Verified
         /\ run[r].pc \notin Staging \cup Verified => run[r].pc \in Ended \cup {"idle"}
         /\ Knows(r, run[r], bin, pay, binDir)
         /\ r # None /\ r \in Pairs /\ None \in Pairs
<1>1. run[r] \in RunState /\ run[r].pc \in Pcs
  BY DEF PairInv, PairTypeOK, RunState
<1>2. \A pc \in Staging \cup Verified : pc \notin Ended \cup {"idle"}
  BY DEF Staging, Verified, Probing, Reading, Working, Moving, Undoing, Ended
<1>3. Active(r) <=> run[r].pc \in Staging \cup Verified
  BY <1>1, <1>2 DEF Active, Pcs
<1>4. Knows(r, run[r], bin, pay, binDir)
  BY DEF PairInv, OldPairIsKnown
<1> QED BY <1>1, <1>2, <1>3, <1>4, NamesAssumption DEF Pcs, Pairs, Gens

\* While a run that moves nothing is at work, the destination is as at rest.
LEMMA StillWhole ==
  ASSUME PairInv, NEW r \in Runs, Active(r), run[r].pc \notin Working, Calm
  PROVE  Whole(bin, pay)
<1>1. cleaner = "idle"
  BY DEF PairInv, PairTypeOK, Alone
<1>2. \A s \in Runs : run[s].pc \notin Working
  BY ActiveLabels DEF PairInv, Alone, Verified
<1> QED BY <1>1, <1>2 DEF PairInv, WholeAtRest

\* The one run at work moves on, past its staging.
LEMMA RunMoves ==
  ASSUME PairInv, NEW r \in Runs, Active(r), NEW new \in RunState,
         new.pc \notin {"idle"} \cup Staging,
         run' = [run EXCEPT ![r] = new],
         bin' \in {bin, pay, run[r].oldBin, run[r].oldPay, r, None},
         pay' \in {bin, pay, run[r].oldBin, run[r].oldPay, r, None},
         new.oldBin \in {bin, run[r].oldBin}, new.oldPay \in {pay, run[r].oldPay},
         binDir' \in BOOLEAN, UNCHANGED <<staged, source, cleaner, cleans>>,
         faults' \in Nat, crashes' \in Nat,
         crashes' = crashes \/ crashes' # 0,
         Knows(r, new, bin', pay', binDir'),
         new.pc \in Verified => TrueToManifest(r, r),
         Calm /\ new.pc # "residue" /\ crashes' = 0 =>
           /\ new.pc \in Moving \cup Undoing => Whole(new.oldBin, new.oldPay)
           /\ new.pc \notin Working => Whole(bin', pay')
  PROVE  PairInv'
<1> USE DEF PairInv
<1>1. run'[r] = new /\ \A s \in Runs \ {r} : run'[s] = run[s]
  BY DEF PairTypeOK
<1>2. /\ run[r] \in RunState /\ bin \in Pairs /\ pay \in Pairs
      /\ run[r].oldBin \in Pairs /\ run[r].oldPay \in Pairs /\ r \in Pairs /\ None \in Pairs
  BY ActiveLabels DEF PairTypeOK, RunState
<1>3. \A s \in Runs \ {r} : ~Active(s) /\ run[s].pc \in Ended \cup {"idle"}
                            /\ run[s].pc \notin Staging \cup Verified
  BY ActiveLabels DEF Alone
<1>4. PairTypeOK'
  BY <1>2 DEF PairTypeOK
<1>5. Alone'
  <2>1. \A s \in Runs \ {r} : ~Active(s)'
    BY <1>1, <1>3 DEF Active
  <2>2. cleaner # "half"
    BY DEF Alone
  <2> QED BY <2>1, <2>2 DEF Alone
<1>6. OldPairIsKnown'
  <2>1. \A s \in Runs \ {r} : Knows(s, run'[s], bin', pay', binDir')
    <3>1. \A s \in Runs \ {r} : Knows(s, run[s], bin, pay, binDir)
      BY DEF OldPairIsKnown
    <3> QED BY <1>1, <1>3, <3>1
         DEF Knows, Ended, Moving, Undoing, Staging, Probing
  <2> QED BY <1>1, <2>1 DEF OldPairIsKnown
<1>7. Unseen'
  <2> SUFFICES ASSUME NEW q \in Runs, run'[q].pc \in {"idle"} \cup Staging
               PROVE  /\ bin' # q /\ pay' # q
                      /\ \A s \in Runs : run'[s].oldBin # q /\ run'[s].oldPay # q
    BY DEF Unseen
  <2>1. q # r /\ run[q].pc \in {"idle"} \cup Staging /\ q # None
    BY <1>1, NamesAssumption
  <2>2. bin # q /\ pay # q /\ \A s \in Runs : run[s].oldBin # q /\ run[s].oldPay # q
    BY <2>1 DEF Unseen
  <2> QED BY <1>1, <2>1, <2>2
<1>8. StagedIsTrue'
  BY <1>1, <1>3 DEF StagedIsTrue, TrueToManifest
<1>9. WholeAtRest'
  <2>1. run[r].pc # "residue"
    BY DEF Active, Ended
  <2>2. Calm' => Calm /\ new.pc # "residue" /\ crashes' = 0
    BY <1>1, <2>1 DEF Calm
  <2>4. Whole(bin', pay') => Whole(bin, pay)'
    BY DEF Whole, TrueToManifest
  <2>5. Whole(new.oldBin, new.oldPay) => Whole(run[r].oldBin, run[r].oldPay)'
    BY <1>1 DEF Whole, TrueToManifest
  <2>6. \A s \in Runs \ {r} : run'[s].pc \notin Moving \cup Undoing
    BY <1>1, <1>3 DEF Verified, Working
  <2> QED BY <1>1, <2>2, <2>4, <2>5, <2>6 DEF WholeAtRest
<1> QED BY <1>4, <1>5, <1>6, <1>7, <1>8, <1>9
-----------------------------------------------------------------------------
(* Before anything is renamed.                                             *)

\* A run goes to another label and the destination stays.
LEMMA LabelMoves ==
  ASSUME PairInv, NEW r \in Runs, Active(r), NEW to \in Pcs \ ({"idle"} \cup Staging),
         run' = [run EXCEPT ![r].pc = to],
         UNCHANGED <<bin, pay, binDir, staged, source, cleaner, cleans>>,
         faults' \in Nat, crashes' \in Nat, crashes' = crashes \/ crashes' # 0,
         Knows(r, [run[r] EXCEPT !.pc = to], bin, pay, binDir),
         to \in Verified => TrueToManifest(r, r),
         Calm /\ to # "residue" /\ crashes' = 0 =>
           /\ to \in Moving \cup Undoing => Whole(run[r].oldBin, run[r].oldPay)
           /\ to \notin Working => Whole(bin, pay)
  PROVE  PairInv'
<1> DEFINE new == [run[r] EXCEPT !.pc = to]
<1>1. run[r] \in RunState
  BY ActiveLabels
<1>2. /\ new \in RunState /\ new.pc = to /\ new.oldBin = run[r].oldBin
      /\ new.oldPay = run[r].oldPay
  BY <1>1 DEF RunState
<1>3. run' = [run EXCEPT ![r] = new]
  BY DEF PairInv, PairTypeOK
<1>4. binDir \in BOOLEAN
  BY DEF PairInv, PairTypeOK
<1> HIDE DEF new
<1> QED BY <1>2, <1>3, <1>4, RunMoves DEF new

\* A run that has renamed nothing ends with an error.
LEMMA AbandonKeeps ==
  ASSUME PairInv, NEW r \in Runs, run[r].pc \in Staging \cup Probing \cup Reading, AbandonStage(r),
         UNCHANGED <<bin, pay, binDir, staged, source, cleaner, crashes, cleans>>, faults' \in Nat
  PROVE  PairInv'
<1>1. /\ Active(r) /\ run[r].pc \notin Working
      /\ "failed" \notin {"idle"} \cup Staging \cup Verified /\ "failed" \in Pcs
  BY ActiveLabels
     DEF Verified, Staging, Probing, Reading, Working, Moving, Undoing, Pcs, Ended
<1>2. Knows(r, [run[r] EXCEPT !.pc = "failed"], bin, pay, binDir)
  BY ActiveLabels DEF Knows, RunState, Moving, Undoing, Staging, Probing
<1>3. crashes \in Nat
  BY DEF PairInv, PairTypeOK
<1> QED BY <1>1, <1>2, <1>3, LabelMoves, StillWhole DEF AbandonStage, Verified, Working

\* A run copies its inputs and takes their digests.
LEMMA StageKeeps ==
  ASSUME PairInv, NEW r \in Runs, Stage(r)
  PROVE  PairInv'
<1> USE DEF PairInv
<1>0. PICK to \in Staging :
        /\ run[r].pc \in Staging /\ run' = [run EXCEPT ![r].pc = to]
        /\ \E part \in Parts : \/ staged' = [staged EXCEPT ![r].copied[part] = source[part]]
                               \/ staged' = [staged EXCEPT ![r].manifest[part] = source[part]]
        /\ UNCHANGED <<bin, pay, binDir, source, cleaner, faults, crashes, cleans>>
  BY DEF Stage, CopyPart, DigestPart, Step, Staging, Parts, Disk, Budget
<1>1. /\ run'[r] = [run[r] EXCEPT !.pc = to] /\ \A s \in Runs \ {r} : run'[s] = run[s]
      /\ run[r] \in RunState /\ to \in Pcs /\ run' \in [Runs -> RunState]
  <2>1. run[r] \in RunState /\ to \in Pcs
    BY <1>0, ActiveLabels DEF Pcs
  <2>2. [run[r] EXCEPT !.pc = to] \in RunState
    BY <2>1 DEF RunState
  <2> QED BY <1>0, <2>1, <2>2 DEF PairTypeOK
<1>2. /\ run'[r].pc = to /\ run'[r].oldBin = run[r].oldBin /\ run'[r].oldPay = run[r].oldPay
      /\ run'[r].movedBin = run[r].movedBin /\ run'[r].movedPay = run[r].movedPay
      /\ run'[r].promBin = run[r].promBin
  BY <1>1 DEF RunState
<1>3. to \notin Verified \cup Ended /\ run[r].pc \notin Verified \cup Ended
  BY <1>0 DEF Staging, Verified, Probing, Reading, Working, Moving, Undoing, Ended
<1>4. staged' \in [Gens -> [copied : Versions, manifest : Versions]]
      /\ \A g \in Gens \ {r} : staged'[g] = staged[g]
  <2>1. PICK part \in Parts : \/ staged' = [staged EXCEPT ![r].copied[part] = source[part]]
                             \/ staged' = [staged EXCEPT ![r].manifest[part] = source[part]]
    BY <1>0
  <2>2. r \in Gens /\ staged[r] \in [copied : Versions, manifest : Versions] /\ source[part] \in Nat
    BY DEF Gens, PairTypeOK, Versions
  <2>3. /\ [staged[r] EXCEPT !.copied[part] = source[part]] \in [copied : Versions, manifest : Versions]
        /\ [staged[r] EXCEPT !.manifest[part] = source[part]] \in [copied : Versions, manifest : Versions]
    BY <2>2 DEF Versions
  <2> QED BY <2>1, <2>2, <2>3 DEF PairTypeOK
<1>5. PairTypeOK'
  BY <1>0, <1>1, <1>4 DEF PairTypeOK
<1>6. \A s \in Runs : Active(s)' => Active(s)
  BY <1>0, <1>1, <1>2, <1>3, ActiveLabels DEF Active
<1>7. Alone'
  BY <1>0, <1>6 DEF Alone
<1>8. OldPairIsKnown'
  <2>1. Knows(r, run'[r], bin, pay, binDir)
    BY <1>0, <1>2, ActiveLabels DEF Knows, Staging, Moving, Undoing, Probing
  <2>2. \A s \in Runs \ {r} : Knows(s, run'[s], bin, pay, binDir)
    BY <1>1 DEF OldPairIsKnown
  <2> QED BY <1>0, <2>1, <2>2 DEF OldPairIsKnown
<1>9. Unseen'
  <2>1. \A q \in Runs : run'[q].pc \in {"idle"} \cup Staging => run[q].pc \in {"idle"} \cup Staging
    BY <1>0, <1>1
  <2>2. \A s \in Runs : run'[s].oldBin = run[s].oldBin /\ run'[s].oldPay = run[s].oldPay
    BY <1>1, <1>2
  <2> QED BY <1>0, <2>1, <2>2 DEF Unseen
<1>10. \A b, p \in Gens : b # r /\ p # r /\ TrueToManifest(b, p) => TrueToManifest(b, p)'
  BY <1>4 DEF TrueToManifest
<1>11. StagedIsTrue'
  <2>1. \A s \in Runs : run'[s].pc \in Verified => s # r /\ run[s].pc \in Verified
    BY <1>1, <1>2, <1>3
  <2>2. \A s \in Runs : s \in Gens
    BY DEF Gens
  <2> QED BY <1>10, <2>1, <2>2 DEF StagedIsTrue
<1>12. WholeAtRest'
  <2>1. \A s \in Runs : run'[s].pc \notin Working => run[s].pc \notin Working
    BY <1>1, <1>2, <1>3 DEF Verified
  <2>2. Calm' => Calm
    BY <1>0, <1>1, <1>2, <1>3 DEF Calm, Ended
  <2>3. bin # r /\ pay # r
    BY <1>0 DEF Unseen
  <2>4. Whole(bin, pay) => Whole(bin, pay)'
    BY <1>0, <1>10, <2>3 DEF Whole, PairTypeOK, Pairs
  <2>5. \A s \in Runs : run'[s].pc \notin Moving \cup Undoing
    BY <1>0, <1>1, <1>2, <1>3, ActiveLabels DEF Alone, Verified, Working
  <2> QED BY <1>0, <2>1, <2>2, <2>4, <2>5 DEF WholeAtRest
<1> QED BY <1>5, <1>7, <1>8, <1>9, <1>11, <1>12

LEMMA VerifyStagedKeeps ==
  ASSUME PairInv, NEW r \in Runs, VerifyStaged(r)
  PROVE  PairInv'
<1>1. /\ run[r].pc = "verifyStaged" /\ Active(r) /\ faults \in Nat /\ crashes \in Nat
      /\ UNCHANGED <<bin, pay, binDir, staged, source, cleaner, faults, crashes, cleans>>
  BY DEF VerifyStaged, Disk, Budget, PairInv, PairTypeOK, Active, Ended
<1>2. CASE VerifyDistribution(r, r)
  <2>1. run' = [run EXCEPT ![r].pc = "probeBin"]
    BY <1>2 DEF VerifyStaged
  <2>2. TrueToManifest(r, r)
    BY <1>2 DEF VerifyDistribution, TrueToManifest
  <2>3. "probeBin" \in Pcs \ ({"idle"} \cup Staging) /\ "probeBin" \notin Working
        /\ run[r].pc \notin Working
    BY <1>1 DEF Pcs, Verified, Probing, Staging, Working, Moving, Undoing
  <2>4. Knows(r, [run[r] EXCEPT !.pc = "probeBin"], bin, pay, binDir)
    BY <1>1, ActiveLabels DEF Knows, RunState, Moving, Undoing, Staging, Probing
  <2> QED BY <1>1, <2>1, <2>2, <2>3, <2>4, LabelMoves, StillWhole DEF Working
<1>3. CASE ~VerifyDistribution(r, r)
  <2>1. AbandonStage(r)
    BY <1>3 DEF VerifyStaged
  <2> QED BY <1>1, <2>1, AbandonKeeps DEF Staging
<1> QED BY <1>2, <1>3

\* A run has read one of the identities it is about to replace.
LEMMA ReadingMoves ==
  ASSUME PairInv, NEW r \in Runs, run[r].pc \in Probing \cup Reading, NEW new \in RunState,
         new.pc \in Probing \cup Reading,
         run' = [run EXCEPT ![r] = new], binDir' \in BOOLEAN,
         new.oldBin \in {bin, run[r].oldBin}, new.oldPay \in {pay, run[r].oldPay},
         UNCHANGED <<bin, pay, staged, source, cleaner, faults, crashes, cleans>>,
         Knows(r, new, bin, pay, binDir')
  PROVE  PairInv'
<1>1. /\ run[r].pc \notin Working /\ new.pc \notin Working \cup {"idle"} \cup Staging
      /\ Active(r) /\ TrueToManifest(r, r)
  BY ActiveLabels
     DEF PairInv, StagedIsTrue, Verified, Probing, Reading, Working, Moving, Undoing, Staging
<1>2. faults \in Nat /\ crashes \in Nat
  BY DEF PairInv, PairTypeOK
<1> QED BY <1>1, <1>2, StillWhole, RunMoves DEF Working

LEMMA ProbeKeeps ==
  ASSUME PairInv, NEW r \in Runs, ProbeExisting(r)
  PROVE  PairInv'
<1>1. /\ run[r] \in RunState /\ bin \in Pairs /\ pay \in Pairs /\ binDir \in BOOLEAN
      /\ faults \in Nat /\ Knows(r, run[r], bin, pay, binDir)
      /\ UNCHANGED <<bin, pay, binDir, staged, source, cleaner, faults, crashes, cleans>>
  BY ActiveLabels DEF PairInv, PairTypeOK, ProbeExisting, Disk, Budget
<1>2. CASE /\ run[r].pc = "probeBin"
           /\ run' = [run EXCEPT ![r].pc = "probePay", ![r].oldBin = bin]
  <2> DEFINE new == [run[r] EXCEPT !.pc = "probePay", !.oldBin = bin]
  <2>1. run' = [run EXCEPT ![r] = new]
    BY <1>2 DEF PairInv, PairTypeOK
  <2>2. new \in RunState /\ new.pc \in Probing \cup Reading /\ run[r].pc \in Probing
        /\ new.oldBin = bin /\ new.oldPay = run[r].oldPay
    BY <1>1, <1>2 DEF RunState, Pcs, Verified, Probing
  <2>3. Knows(r, new, bin, pay, binDir)
    BY <1>1, <1>2 DEF Knows, RunState, Moving, Undoing, Staging, Probing
  <2> HIDE DEF new
  <2> QED BY <1>1, <2>1, <2>2, <2>3, ReadingMoves
<1>3. CASE /\ run[r].pc = "probePay"
           /\ run' = [run EXCEPT ![r].pc = "verifyOld", ![r].oldPay = pay]
  <2> DEFINE new == [run[r] EXCEPT !.pc = "verifyOld", !.oldPay = pay]
  <2>1. run' = [run EXCEPT ![r] = new]
    BY <1>3 DEF PairInv, PairTypeOK
  <2>2. new \in RunState /\ new.pc \in Probing \cup Reading /\ run[r].pc \in Probing
        /\ new.oldPay = pay /\ new.oldBin = run[r].oldBin
    BY <1>1, <1>3 DEF RunState, Pcs, Verified, Probing
  <2>3. Knows(r, new, bin, pay, binDir)
    BY <1>1, <1>3 DEF Knows, RunState, Moving, Undoing, Staging, Probing
  <2> HIDE DEF new
  <2> QED BY <1>1, <2>1, <2>2, <2>3, ReadingMoves
<1>4. CASE run[r].pc = "verifyOld" /\ run' = [run EXCEPT ![r].pc = "oldBin"]
  <2> DEFINE new == [run[r] EXCEPT !.pc = "oldBin"]
  <2>1. run' = [run EXCEPT ![r] = new]
    BY <1>4 DEF PairInv, PairTypeOK
  <2>2. new \in RunState /\ new.pc \in Probing \cup Reading /\ run[r].pc \in Probing
        /\ new.oldPay = run[r].oldPay /\ new.oldBin = run[r].oldBin
    BY <1>1, <1>4 DEF RunState, Pcs, Verified, Probing, Reading
  <2>3. Knows(r, new, bin, pay, binDir)
    BY <1>1, <1>4 DEF Knows, RunState, Moving, Undoing, Staging, Probing
  <2> HIDE DEF new
  <2> QED BY <1>1, <2>1, <2>2, <2>3, ReadingMoves
<1>5. CASE run[r].pc = "verifyOld" /\ AbandonStage(r)
  BY <1>1, <1>5, AbandonKeeps DEF Probing
<1> QED BY <1>2, <1>3, <1>4, <1>5 DEF ProbeExisting

LEMMA ReadOldKeeps ==
  ASSUME PairInv, NEW r \in Runs, ReadOldPair(r)
  PROVE  PairInv'
<1>1. /\ run[r] \in RunState /\ bin \in Pairs /\ pay \in Pairs /\ binDir \in BOOLEAN
      /\ faults \in Nat /\ crashes \in Nat /\ Knows(r, run[r], bin, pay, binDir)
      /\ UNCHANGED <<bin, pay, staged, source, cleaner, faults, crashes, cleans>>
  BY ActiveLabels DEF PairInv, PairTypeOK, ReadOldPair, Budget
<1>2. CASE /\ run[r].pc = "oldBin" /\ binDir' = TRUE
           /\ run' = [run EXCEPT ![r].pc = "oldPay", ![r].oldBin = bin]
  <2> DEFINE new == [run[r] EXCEPT !.pc = "oldPay", !.oldBin = bin]
  <2>1. run' = [run EXCEPT ![r] = new]
    BY <1>2 DEF PairInv, PairTypeOK
  <2>2. new \in RunState /\ new.pc \in Probing \cup Reading /\ run[r].pc \in Reading
        /\ new.oldBin = bin /\ new.oldPay = run[r].oldPay
    BY <1>1, <1>2 DEF RunState, Pcs, Verified, Reading
  <2>3. Knows(r, new, bin, pay, binDir')
    BY <1>1, <1>2 DEF Knows, RunState, Moving, Undoing, Staging, Probing
  <2> HIDE DEF new
  <2> QED BY <1>1, <1>2, <2>1, <2>2, <2>3, ReadingMoves
<1>3. CASE /\ run[r].pc = "oldPay" /\ UNCHANGED binDir
           /\ run' = [run EXCEPT ![r].pc = "recovery", ![r].oldPay = pay]
  <2> DEFINE new == [run[r] EXCEPT !.pc = "recovery", !.oldPay = pay]
  <2>1. run' = [run EXCEPT ![r] = new]
    BY <1>3 DEF PairInv, PairTypeOK
  <2>2. new \in RunState /\ new.pc \in Probing \cup Reading /\ run[r].pc \in Reading
        /\ new.oldPay = pay /\ new.oldBin = run[r].oldBin
    BY <1>1, <1>3 DEF RunState, Pcs, Verified, Reading
  <2>3. Knows(r, new, bin, pay, binDir)
    BY <1>1, <1>3 DEF Knows, RunState, Moving, Undoing, Staging, Probing
  <2> HIDE DEF new
  <2> QED BY <1>1, <1>3, <2>1, <2>2, <2>3, ReadingMoves
<1>4. CASE run[r].pc = "recovery" /\ UNCHANGED binDir /\ AbandonStage(r)
  BY <1>1, <1>4, AbandonKeeps DEF Reading
<1>5. CASE /\ run[r].pc = "recovery" /\ UNCHANGED binDir
           /\ (run[r].oldBin = None) <=> (run[r].oldPay = None)
           /\ run' = [run EXCEPT ![r].pc = IF run[r].oldBin # None THEN "idOldBin"
                                                                  ELSE "absentBin"]
  <2> DEFINE to == IF run[r].oldBin # None THEN "idOldBin" ELSE "absentBin"
  <2>1. to \in Moving /\ to \in Pcs \ ({"idle"} \cup Staging) /\ to \in Verified
    BY DEF Moving, Pcs, Verified, Working, Staging
  <2>2. /\ Active(r) /\ run[r].pc \notin Working /\ TrueToManifest(r, r)
        /\ run[r].pc \notin {"idle"} \cup Staging
    BY <1>5, ActiveLabels
       DEF PairInv, StagedIsTrue, Verified, Reading, Working, Moving, Undoing, Staging
  <2>3. Knows(r, [run[r] EXCEPT !.pc = to], bin, pay, binDir)
    BY <1>1, <1>5 DEF Knows, Moved, RunState, Moving, Undoing, Staging, Probing
  <2>4. Calm => Whole(run[r].oldBin, run[r].oldPay)
    <3>1. run[r].oldBin = bin /\ run[r].oldPay = pay
      BY <1>1, <1>5 DEF Knows
    <3> QED BY <2>2, <3>1, StillWhole
  <2>5. crashes' = 0 => crashes = 0
    BY <1>1
  <2>6. Calm /\ crashes' = 0 => /\ to \in Moving \cup Undoing => Whole(run[r].oldBin, run[r].oldPay)
                                /\ to \notin Working => Whole(bin, pay)
    BY <2>1, <2>4 DEF Working
  <2>7. run' = [run EXCEPT ![r].pc = to]
    BY <1>5
  <2> HIDE DEF to
  <2> QED BY <1>1, <1>5, <2>1, <2>2, <2>3, <2>6, <2>7, LabelMoves
<1>6. (run[r].oldBin = None) \in BOOLEAN /\ (run[r].oldPay = None) \in BOOLEAN
  OBVIOUS
<1>7. CASE /\ run[r].pc = "recovery" /\ UNCHANGED binDir
           /\ (run[r].oldBin = None) # (run[r].oldPay = None)
  BY <1>4, <1>7 DEF ReadOldPair
<1>8. CASE /\ run[r].pc = "recovery" /\ UNCHANGED binDir
           /\ ~((run[r].oldBin = None) # (run[r].oldPay = None))
  <2>1. (run[r].oldBin = None) <=> (run[r].oldPay = None)
    BY <1>6, <1>8
  <2>2. run' = [run EXCEPT ![r].pc = IF run[r].oldBin # None THEN "idOldBin" ELSE "absentBin"]
    BY <1>8 DEF ReadOldPair
  <2> QED BY <1>5, <1>8, <2>1, <2>2
<1> QED BY <1>2, <1>3, <1>7, <1>8 DEF ReadOldPair
-----------------------------------------------------------------------------
(* Once something may have been renamed.                                   *)

\* A run goes on with its replacement, or with undoing it, or has published.
LEMMA ReplacingMoves ==
  ASSUME PairInv, NEW r \in Runs, Replacing(r), NEW new \in RunState,
         new.pc \in Working, run' = [run EXCEPT ![r] = new],
         new.oldBin = run[r].oldBin, new.oldPay = run[r].oldPay,
         bin' \in {bin, run[r].oldBin, r, None}, pay' \in {pay, run[r].oldPay, r, None},
         UNCHANGED <<binDir, staged, source, cleaner, crashes, cleans>>, faults' \in Nat,
         Knows(r, new, bin', pay', binDir)
  PROVE  PairInv'
<1>1. /\ Active(r) /\ TrueToManifest(r, r) /\ new.pc \notin {"idle"} \cup Staging
      /\ binDir \in BOOLEAN /\ crashes \in Nat
      /\ Calm => Whole(run[r].oldBin, run[r].oldPay)
  BY ActiveLabels
     DEF PairInv, PairTypeOK, StagedIsTrue, WholeAtRest, Replacing, Verified, Working, Moving,
         Undoing, Staging
<1> QED BY <1>1, RunMoves DEF Working

LEMMA ReplacingGoes ==
  ASSUME PairInv, NEW r \in Runs, Replacing(r), NEW to \in Working,
         run' = [run EXCEPT ![r].pc = to],
         UNCHANGED <<bin, pay, binDir, staged, source, cleaner, crashes, cleans>>, faults' \in Nat,
         Knows(r, [run[r] EXCEPT !.pc = to], bin, pay, binDir)
  PROVE  PairInv'
<1> DEFINE new == [run[r] EXCEPT !.pc = to]
<1>1. run[r] \in RunState /\ to \in Pcs
  BY ActiveLabels DEF Pcs, Verified
<1>2. /\ new \in RunState /\ new.pc = to /\ new.oldBin = run[r].oldBin
      /\ new.oldPay = run[r].oldPay
  BY <1>1 DEF RunState
<1>3. run' = [run EXCEPT ![r] = new]
  BY DEF PairInv, PairTypeOK
<1> HIDE DEF new
<1> QED BY <1>2, <1>3, ReplacingMoves DEF new

\* The catch chooses the first step of the rollback by what has been done.
LEMMA ThrowKeeps ==
  ASSUME PairInv, NEW r \in Runs, run[r].pc \in Moving \ {"statBin", "statPay"}, Throw(r),
         UNCHANGED <<bin, pay, binDir, staged, source, cleaner, crashes, cleans>>, faults' \in Nat
  PROVE  PairInv'
<1>1. /\ run[r] \in RunState /\ Knows(r, run[r], bin, pay, binDir) /\ r # None
      /\ run' = [run EXCEPT ![r].pc = UndoAt(r)] /\ Replacing(r)
  BY ActiveLabels DEF Throw, Replacing
<1>2. CASE run[r].pc \in {"idOldBin", "mvOldBin"}
  <2>1. UndoAt(r) = "dropRecovery"
    BY <1>1, <1>2 DEF Knows, UndoAt, AfterUndoBin, AfterBackPay
  <2>2. Knows(r, [run[r] EXCEPT !.pc = "dropRecovery"], bin, pay, binDir)
    BY <1>1, <1>2 DEF Knows, RunState, Moving, Undoing, Staging, Probing
  <2> QED BY <1>1, <2>1, <2>2, ReplacingGoes DEF Working, Undoing
<1>3. CASE run[r].pc \in {"idOldPay", "mvOldPay"}
  <2>1. UndoAt(r) = "backBin"
    BY <1>1, <1>3 DEF Knows, UndoAt, AfterUndoBin, AfterBackPay
  <2>2. Knows(r, [run[r] EXCEPT !.pc = "backBin"], bin, pay, binDir)
    BY <1>1, <1>3 DEF Knows, RunState, Moving, Undoing, Staging, Probing
  <2> QED BY <1>1, <2>1, <2>2, ReplacingGoes DEF Working, Undoing
<1>4. CASE run[r].pc \in {"absentBin", "promoteBin"} /\ run[r].oldBin = None
  <2>1. UndoAt(r) = "dropRecovery"
    BY <1>1, <1>4 DEF Knows, Moved, UndoAt, AfterUndoBin, AfterBackPay
  <2>2. Knows(r, [run[r] EXCEPT !.pc = "dropRecovery"], bin, pay, binDir)
    BY <1>1, <1>4 DEF Knows, Moved, RunState, Moving, Undoing, Staging, Probing
  <2> QED BY <1>1, <2>1, <2>2, ReplacingGoes DEF Working, Undoing
<1>5. CASE run[r].pc \in {"absentBin", "promoteBin"} /\ run[r].oldBin # None
  <2>1. UndoAt(r) = "backPay"
    BY <1>1, <1>5 DEF Knows, Moved, UndoAt, AfterUndoBin
  <2>2. Knows(r, [run[r] EXCEPT !.pc = "backPay"], bin, pay, binDir)
    BY <1>1, <1>5 DEF Knows, Moved, RunState, Moving, Undoing, Staging, Probing
  <2> QED BY <1>1, <2>1, <2>2, ReplacingGoes DEF Working, Undoing
<1>6. CASE run[r].pc \in {"absentPay", "promotePay"}
  <2>1. UndoAt(r) = "undoBin"
    BY <1>1, <1>6 DEF Knows, UndoAt
  <2>2. Knows(r, [run[r] EXCEPT !.pc = "undoBin"], bin, pay, binDir)
    BY <1>1, <1>6 DEF Knows, Moved, RunState, Moving, Undoing, Staging, Probing
  <2> QED BY <1>1, <2>1, <2>2, ReplacingGoes DEF Working, Undoing
<1> QED BY <1>2, <1>3, <1>4, <1>5, <1>6 DEF Moving

LEMMA RequireKeeps ==
  ASSUME PairInv, NEW r \in Runs, RequireBeforeMove(r)
  PROVE  PairInv'
<1>1. /\ run[r] \in RunState /\ Knows(r, run[r], bin, pay, binDir) /\ faults \in Nat
      /\ UNCHANGED <<bin, pay, binDir, staged, source, cleaner, faults, crashes, cleans>>
      /\ run[r].pc \in {"idOldBin", "idOldPay", "absentBin", "absentPay"}
  BY ActiveLabels DEF RequireBeforeMove, CheckThen, Disk, Budget, PairInv, PairTypeOK
<1>2. CASE Throw(r)
  BY <1>1, <1>2, ThrowKeeps DEF Moving
<1>3. ASSUME NEW from, NEW to,
             <<from, to>> \in {<<"idOldBin", "mvOldBin">>, <<"idOldPay", "mvOldPay">>,
                               <<"absentBin", "promoteBin">>, <<"absentPay", "promotePay">>},
             run[r].pc = from, run' = [run EXCEPT ![r].pc = to]
      PROVE  PairInv'
  <2>1. to \in Working /\ Replacing(r)
    BY <1>3 DEF Working, Moving, Replacing
  <2>2. Knows(r, [run[r] EXCEPT !.pc = to], bin, pay, binDir)
    BY <1>1, <1>3 DEF Knows, Moved, RunState, Moving, Undoing, Staging, Probing
  <2> QED BY <1>1, <1>3, <2>1, <2>2, ReplacingGoes
<1> QED BY <1>2, <1>3 DEF RequireBeforeMove, CheckThen

\* The two renames that take the old pair away.
LEMMA MoveOldKeeps ==
  ASSUME PairInv, NEW r \in Runs, MoveOldBinary(r) \/ MoveOldPayload(r)
  PROVE  PairInv'
<1>1. /\ run[r] \in RunState /\ Knows(r, run[r], bin, pay, binDir) /\ faults \in Nat
      /\ bin \in Pairs /\ pay \in Pairs
  BY ActiveLabels DEF PairInv, PairTypeOK
<1>2. CASE MoveOldBinary(r)
  <2>1. run[r].pc = "mvOldBin" /\ bin # None
    BY <1>1, <1>2 DEF MoveOldBinary, Knows
  <2> DEFINE new == [run[r] EXCEPT !.pc = "idOldPay", !.backupBin = bin, !.movedBin = TRUE]
  <2>2. /\ run' = [run EXCEPT ![r] = new] /\ bin' = None
        /\ UNCHANGED <<pay, binDir, staged, source, cleaner, faults, crashes, cleans>>
    BY <1>2, <2>1 DEF MoveOldBinary, Budget, PairInv, PairTypeOK
  <2>3. /\ new \in RunState /\ new.pc \in Working /\ new.oldBin = run[r].oldBin
        /\ new.oldPay = run[r].oldPay /\ Replacing(r)
    BY <1>1, <2>1 DEF RunState, Pcs, Verified, Working, Moving, Replacing
  <2>4. Knows(r, new, None, pay, binDir)
    BY <1>1, <2>1 DEF Knows, RunState, Moving, Undoing, Staging, Probing
  <2> HIDE DEF new
  <2> QED BY <1>1, <2>2, <2>3, <2>4, ReplacingMoves
<1>3. CASE MoveOldPayload(r)
  <2>1. run[r].pc = "mvOldPay" /\ pay # None
    BY <1>1, <1>3 DEF MoveOldPayload, Knows
  <2> DEFINE new == [run[r] EXCEPT !.pc = "absentBin", !.backupPay = pay, !.movedPay = TRUE]
  <2>2. /\ run' = [run EXCEPT ![r] = new] /\ pay' = None
        /\ UNCHANGED <<bin, binDir, staged, source, cleaner, faults, crashes, cleans>>
    BY <1>3, <2>1 DEF MoveOldPayload, Budget, PairInv, PairTypeOK
  <2>3. /\ new \in RunState /\ new.pc \in Working /\ new.oldBin = run[r].oldBin
        /\ new.oldPay = run[r].oldPay /\ Replacing(r)
    BY <1>1, <2>1 DEF RunState, Pcs, Verified, Working, Moving, Replacing
  <2>4. Knows(r, new, bin, None, binDir)
    BY <1>1, <2>1 DEF Knows, Moved, RunState, Moving, Undoing, Staging, Probing
  <2> HIDE DEF new
  <2> QED BY <1>1, <2>2, <2>3, <2>4, ReplacingMoves
<1> QED BY <1>2, <1>3

\* The two renames that put the new pair in place. With one run at work neither fails.
LEMMA PromoteKeeps ==
  ASSUME PairInv, NEW r \in Runs, PromoteBinary(r) \/ PromotePayload(r)
  PROVE  PairInv'
<1>1. /\ run[r] \in RunState /\ Knows(r, run[r], bin, pay, binDir) /\ faults \in Nat
      /\ r \in Pairs
  BY ActiveLabels DEF PairInv, PairTypeOK
<1>2. CASE PromoteBinary(r)
  <2>1. run[r].pc = "promoteBin" /\ binDir
    BY <1>1, <1>2 DEF PromoteBinary, Knows, Moving
  <2> DEFINE new == [run[r] EXCEPT !.pc = "statBin"]
  <2>2. /\ run' = [run EXCEPT ![r] = new] /\ bin' = r
        /\ UNCHANGED <<pay, binDir, staged, source, cleaner, faults, crashes, cleans>>
    BY <1>2, <2>1 DEF PromoteBinary, Budget, PairInv, PairTypeOK
  <2>3. /\ new \in RunState /\ new.pc \in Working /\ new.oldBin = run[r].oldBin
        /\ new.oldPay = run[r].oldPay /\ Replacing(r)
    BY <1>1, <2>1 DEF RunState, Pcs, Verified, Working, Moving, Replacing
  <2>4. Knows(r, new, r, pay, binDir)
    BY <1>1, <2>1 DEF Knows, Moved, RunState, Moving, Undoing, Staging, Probing
  <2> HIDE DEF new
  <2> QED BY <1>1, <2>2, <2>3, <2>4, ReplacingMoves
<1>3. CASE PromotePayload(r)
  <2>1. run[r].pc = "promotePay" /\ pay = None
    BY <1>1, <1>3 DEF PromotePayload, Knows
  <2> DEFINE new == [run[r] EXCEPT !.pc = "statPay"]
  <2>2. /\ run' = [run EXCEPT ![r] = new] /\ pay' = r
        /\ UNCHANGED <<bin, binDir, staged, source, cleaner, faults, crashes, cleans>>
    BY <1>3, <2>1 DEF PromotePayload, Budget, PairInv, PairTypeOK
  <2>3. /\ new \in RunState /\ new.pc \in Working /\ new.oldBin = run[r].oldBin
        /\ new.oldPay = run[r].oldPay /\ Replacing(r)
    BY <1>1, <2>1 DEF RunState, Pcs, Verified, Working, Moving, Replacing
  <2>4. Knows(r, new, bin, r, binDir)
    BY <1>1, <2>1 DEF Knows, Moved, RunState, Moving, Undoing, Staging, Probing
  <2> HIDE DEF new
  <2> QED BY <1>1, <2>2, <2>3, <2>4, ReplacingMoves
<1> QED BY <1>2, <1>3

LEMMA RecordKeeps ==
  ASSUME PairInv, NEW r \in Runs, RecordPromoted(r)
  PROVE  PairInv'
<1>1. /\ run[r] \in RunState /\ Knows(r, run[r], bin, pay, binDir) /\ faults \in Nat
      /\ bin \in Pairs /\ r # None
      /\ UNCHANGED <<bin, pay, binDir, staged, source, cleaner, faults, crashes, cleans>>
  BY ActiveLabels DEF PairInv, PairTypeOK, RecordPromoted, Disk, Budget
<1>2. CASE /\ run[r].pc = "statBin"
           /\ run' = [run EXCEPT ![r].pc = "absentPay", ![r].promBin = bin]
  <2> DEFINE new == [run[r] EXCEPT !.pc = "absentPay", !.promBin = bin]
  <2>2. run' = [run EXCEPT ![r] = new]
    BY <1>2 DEF PairInv, PairTypeOK
  <2>3. /\ new \in RunState /\ new.pc \in Working /\ new.oldBin = run[r].oldBin
        /\ new.oldPay = run[r].oldPay /\ Replacing(r)
    BY <1>1, <1>2 DEF RunState, Pcs, Verified, Working, Moving, Replacing
  <2>4. Knows(r, new, bin, pay, binDir)
    BY <1>1, <1>2 DEF Knows, Moved, RunState, Moving, Undoing, Staging, Probing
  <2> HIDE DEF new
  <2> QED BY <1>1, <2>2, <2>3, <2>4, ReplacingMoves
<1>3. CASE run[r].pc = "statPay" /\ run' = [run EXCEPT ![r].pc = "cleanRecovery"]
  <2>1. Knows(r, [run[r] EXCEPT !.pc = "cleanRecovery"], bin, pay, binDir)
    BY <1>1, <1>3 DEF Knows, Moved, RunState, Moving, Undoing, Staging, Probing
  <2>2. Replacing(r) /\ "cleanRecovery" \in Working
    BY <1>3 DEF Replacing, Moving, Working
  <2> QED BY <1>1, <1>3, <2>1, <2>2, ReplacingGoes
<1> QED BY <1>2, <1>3 DEF RecordPromoted

\* A run that leaves everything at the destination as it is comes to its end.
LEMMA EndingKeeps ==
  ASSUME PairInv, NEW r \in Runs, Active(r), NEW new \in RunState, new.pc \in Ended,
         run' = [run EXCEPT ![r] = new],
         new.oldBin = run[r].oldBin, new.oldPay = run[r].oldPay,
         UNCHANGED <<bin, pay, binDir, staged, source, cleaner, cleans>>,
         faults' \in Nat, crashes' \in Nat, crashes' = crashes \/ crashes' # 0,
         Calm /\ new.pc # "residue" /\ crashes' = 0 => Whole(bin, pay)
  PROVE  PairInv'
<1>1. /\ new.pc \notin {"idle"} \cup Staging /\ new.pc \notin Verified
      /\ new.pc \notin Moving \cup Undoing
  BY DEF Ended, Verified, Staging, Probing, Reading, Working, Moving, Undoing
<1>2. Knows(r, new, bin, pay, binDir)
  BY <1>1 DEF Knows, Moving, Undoing, Staging, Probing, Verified, Working, Ended
<1>3. binDir \in BOOLEAN
  BY DEF PairInv, PairTypeOK
<1> QED BY <1>1, <1>2, <1>3, RunMoves

LEMMA FinishKeeps ==
  ASSUME PairInv, NEW r \in Runs, Finish(r)
  PROVE  PairInv'
<1> DEFINE new == [run[r] EXCEPT !.pc = "succeeded", !.backupBin = None, !.backupPay = None]
<1>1. /\ run[r] \in RunState /\ Knows(r, run[r], bin, pay, binDir) /\ None \in Pairs
      /\ faults \in Nat /\ crashes \in Nat
      /\ UNCHANGED <<bin, pay, binDir, staged, source, cleaner, faults, crashes, cleans>>
      /\ run[r].pc = "cleanRecovery"
  BY ActiveLabels DEF PairInv, PairTypeOK, Finish, Disk, Budget
<1>2. Active(r) /\ TrueToManifest(r, r)
  BY <1>1 DEF PairInv, StagedIsTrue, Active, Ended, Verified, Working
<1>3. bin = r /\ pay = r
  BY <1>1 DEF Knows
<1>4. run' = [run EXCEPT ![r] = new]
  BY DEF Finish, PairInv, PairTypeOK
<1>5. /\ new \in RunState /\ new.pc \in Ended /\ new.oldBin = run[r].oldBin
      /\ new.oldPay = run[r].oldPay
  BY <1>1 DEF RunState, Pcs, Ended
<1>6. Whole(bin, pay)
  BY <1>2, <1>3 DEF Whole
<1> HIDE DEF new
<1> QED BY <1>1, <1>2, <1>4, <1>5, <1>6, EndingKeeps
-----------------------------------------------------------------------------
(* The rollback.                                                           *)

LEMMA RetainKeeps ==
  ASSUME PairInv, NEW r \in Runs, run[r].pc \in Undoing, Retain(r),
         UNCHANGED <<bin, pay, binDir, staged, source, cleaner, crashes, cleans>>, faults' \in Nat
  PROVE  PairInv'
<1> DEFINE new == [run[r] EXCEPT !.pc = "residue", !.retain = TRUE]
<1>1. run[r] \in RunState /\ crashes \in Nat /\ Active(r)
  BY ActiveLabels DEF PairInv, PairTypeOK, Verified, Working
<1>2. run' = [run EXCEPT ![r] = new]
  BY DEF Retain, PairInv, PairTypeOK
<1>3. /\ new \in RunState /\ new.pc = "residue" /\ new.oldBin = run[r].oldBin
      /\ new.oldPay = run[r].oldPay
  BY <1>1 DEF RunState, Pcs, Ended
<1>4. new.pc \in Ended
  BY <1>3 DEF Ended
<1> HIDE DEF new
<1> QED BY <1>1, <1>2, <1>3, <1>4, EndingKeeps

LEMMA UndoKeeps ==
  ASSUME PairInv, NEW r \in Runs, Undo(r)
  PROVE  PairInv'
<1>1. /\ run[r] \in RunState /\ Knows(r, run[r], bin, pay, binDir) /\ faults \in Nat
      /\ crashes \in Nat /\ bin \in Pairs /\ r # None /\ None \in Pairs
      /\ UNCHANGED <<binDir, staged, source, cleaner, faults, crashes, cleans>>
      /\ run[r].pc \in Undoing /\ Replacing(r) /\ Active(r)
  BY ActiveLabels
     DEF PairInv, PairTypeOK, Undo, RequireBeforeUndo, UndoCheck, UndoBinary, RestorePayload,
         RestoreBinary, DropRecovery, Disk, Budget, Undoing, Replacing, Verified, Working
<1>2. CASE Retain(r) /\ UNCHANGED <<bin, pay>>
  BY <1>1, <1>2, RetainKeeps
<1>3. CASE RequireBeforeUndo(r)
  <2>1. UNCHANGED <<bin, pay>>
    BY <1>3 DEF RequireBeforeUndo, UndoCheck, Disk
  <2>2. ASSUME NEW from, NEW to,
               <<from, to>> \in {<<"undoBin", "undoBinMv">>, <<"backPay", "backPayMv">>,
                                 <<"backBin", "backBinMv">>},
               run[r].pc = from, run' = [run EXCEPT ![r].pc = to]
        PROVE  PairInv'
    <3>1. to \in Working
      BY <2>2 DEF Working, Undoing
    <3>2. Knows(r, [run[r] EXCEPT !.pc = to], bin, pay, binDir)
      BY <1>1, <2>2 DEF Knows, Moved, RunState, Moving, Undoing, Staging, Probing
    <3> QED BY <1>1, <2>1, <2>2, <3>1, <3>2, ReplacingGoes
  <2> QED BY <1>2, <1>3, <2>1, <2>2 DEF RequireBeforeUndo, UndoCheck
<1>4. CASE UndoBinary(r)
  <2>1. run[r].pc = "undoBinMv" /\ bin # None
    BY <1>1, <1>4 DEF UndoBinary, Knows
  <2> DEFINE new == [run[r] EXCEPT !.pc = AfterUndoBin(r), !.rejBin = bin]
  <2>2. run' = [run EXCEPT ![r] = new] /\ bin' = None /\ UNCHANGED pay
    BY <1>4, <2>1 DEF UndoBinary, PairInv, PairTypeOK
  <2>3. AfterUndoBin(r) = IF run[r].oldBin = None THEN "dropRecovery" ELSE "backPay"
    BY <1>1, <2>1 DEF Knows, Moved, AfterUndoBin, AfterBackPay
  <2>4. /\ new \in RunState /\ new.pc \in Working /\ new.oldBin = run[r].oldBin
        /\ new.oldPay = run[r].oldPay
    BY <1>1, <2>3 DEF RunState, Pcs, Verified, Working, Undoing
  <2>5. Knows(r, new, None, pay, binDir)
    BY <1>1, <2>1, <2>3 DEF Knows, Moved, RunState, Moving, Undoing, Staging, Probing
  <2> HIDE DEF new
  <2> QED BY <1>1, <2>2, <2>4, <2>5, ReplacingMoves
<1>5. CASE RestorePayload(r)
  <2>1. /\ run[r].pc = "backPayMv" /\ pay = None /\ run[r].backupPay = run[r].oldPay
        /\ run[r].movedBin
    BY <1>1, <1>5 DEF RestorePayload, Knows, Moved
  <2> DEFINE new == [run[r] EXCEPT !.pc = "backBin", !.backupPay = None]
  <2>2. run' = [run EXCEPT ![r] = new] /\ pay' = run[r].oldPay /\ UNCHANGED bin
    BY <1>5, <2>1 DEF RestorePayload, AfterBackPay, PairInv, PairTypeOK
  <2>4. /\ new \in RunState /\ new.pc \in Working /\ new.oldBin = run[r].oldBin
        /\ new.oldPay = run[r].oldPay
    BY <1>1 DEF RunState, Pcs, Verified, Working, Undoing
  <2>5. Knows(r, new, bin, run[r].oldPay, binDir)
    BY <1>1, <2>1 DEF Knows, Moved, RunState, Moving, Undoing, Staging, Probing
  <2> HIDE DEF new
  <2> QED BY <1>1, <2>2, <2>4, <2>5, ReplacingMoves
<1>6. CASE RestoreBinary(r)
  <2>1. run[r].pc = "backBinMv" /\ binDir /\ run[r].backupBin = run[r].oldBin
    BY <1>1, <1>6 DEF RestoreBinary, Knows, Undoing
  <2> DEFINE new == [run[r] EXCEPT !.pc = "dropRecovery", !.backupBin = None]
  <2>2. run' = [run EXCEPT ![r] = new] /\ bin' = run[r].oldBin /\ UNCHANGED pay
    BY <1>6, <2>1 DEF RestoreBinary, PairInv, PairTypeOK
  <2>4. /\ new \in RunState /\ new.pc \in Working /\ new.oldBin = run[r].oldBin
        /\ new.oldPay = run[r].oldPay
    BY <1>1 DEF RunState, Pcs, Verified, Working, Undoing
  <2>5. Knows(r, new, run[r].oldBin, pay, binDir)
    BY <1>1, <2>1 DEF Knows, Moved, RunState, Moving, Undoing, Staging, Probing
  <2> HIDE DEF new
  <2> QED BY <1>1, <2>2, <2>4, <2>5, ReplacingMoves
<1>7. CASE DropRecovery(r)
  <2> DEFINE new == [run[r] EXCEPT !.pc = "failed",
                       !.backupBin = IF run[r].retain THEN @ ELSE None,
                       !.backupPay = IF run[r].retain THEN @ ELSE None,
                       !.rejBin = IF run[r].retain THEN @ ELSE None]
  <2>1. run' = [run EXCEPT ![r] = new] /\ UNCHANGED <<bin, pay>> /\ run[r].pc = "dropRecovery"
    BY <1>7 DEF DropRecovery, PairInv, PairTypeOK, Disk
  <2>2. /\ new \in RunState /\ new.pc \in Ended /\ new.oldBin = run[r].oldBin
        /\ new.oldPay = run[r].oldPay
    BY <1>1 DEF RunState, Pcs, Ended
  <2>3. Calm => Whole(bin, pay)
    <3>1. run[r].oldBin = bin /\ run[r].oldPay = pay
      BY <1>1, <2>1 DEF Knows
    <3> QED BY <1>1, <3>1 DEF PairInv, WholeAtRest
  <2> HIDE DEF new
  <2> QED BY <1>1, <2>1, <2>2, <2>3, EndingKeeps
<1> QED BY <1>3, <1>4, <1>5, <1>6, <1>7 DEF Undo
-----------------------------------------------------------------------------
(* Failures, crashes, cleaning and the inputs.                             *)

LEMMA FailureKeeps ==
  ASSUME OneAtATime, PairInv, NEW r \in Runs, OperationFails(r)
  PROVE  PairInv'
<1>1. /\ run[r] \in RunState /\ Knows(r, run[r], bin, pay, binDir) /\ faults' \in Nat
      /\ crashes \in Nat
      /\ UNCHANGED <<bin, pay, binDir, staged, source, cleaner, crashes, cleans>>
  BY ActiveLabels DEF PairInv, PairTypeOK, OperationFails, Disk
<1>2. CASE run[r].pc \in Staging \cup Probing \cup Reading /\ AbandonStage(r)
  BY <1>1, <1>2, AbandonKeeps
<1>3. CASE /\ run[r].pc \in Moving /\ Throw(r)
           /\ run[r].pc \in {"statBin", "statPay"} => StatFails
  BY <1>1, <1>3, ThrowKeeps DEF OneAtATime
<1>4. CASE run[r].pc \in Undoing /\ Retain(r)
  BY <1>1, <1>4, RetainKeeps
<1>5. CASE run[r].pc = "cleanRecovery" /\ run' = [run EXCEPT ![r].pc = "publishedResidue"]
  <2> DEFINE new == [run[r] EXCEPT !.pc = "publishedResidue"]
  <2>1. run' = [run EXCEPT ![r] = new]
    BY <1>5 DEF PairInv, PairTypeOK
  <2>2. Active(r) /\ TrueToManifest(r, r)
    BY <1>5 DEF PairInv, StagedIsTrue, Active, Ended, Verified, Working
  <2>3. bin = r /\ pay = r
    BY <1>1, <1>5 DEF Knows
  <2>4. /\ new \in RunState /\ new.pc \in Ended /\ new.oldBin = run[r].oldBin
        /\ new.oldPay = run[r].oldPay
    BY <1>1 DEF RunState, Pcs, Ended
  <2>5. Whole(bin, pay)
    BY <2>2, <2>3 DEF Whole
  <2> HIDE DEF new
  <2> QED BY <1>1, <2>1, <2>2, <2>4, <2>5, EndingKeeps
<1> QED BY <1>2, <1>3, <1>4, <1>5 DEF OperationFails

LEMMA ForeignKeeps ==
  ASSUME PairInv, NEW r \in Runs, ForeignBackup(r)
  PROVE  PairInv'
<1> DEFINE new == [run[r] EXCEPT !.pc = "dropRecovery", !.retain = TRUE]
<1>1. /\ run[r] \in RunState /\ Knows(r, run[r], bin, pay, binDir) /\ faults' \in Nat
      /\ UNCHANGED <<bin, pay, binDir, staged, source, cleaner, crashes, cleans>>
      /\ run[r].pc \in {"idOldBin", "absentBin"} /\ ~run[r].movedBin
  BY ActiveLabels DEF PairInv, PairTypeOK, ForeignBackup, Disk
<1>2. run' = [run EXCEPT ![r] = new]
  BY DEF ForeignBackup, PairInv, PairTypeOK
<1>3. /\ new \in RunState /\ new.pc \in Working /\ new.oldBin = run[r].oldBin
      /\ new.oldPay = run[r].oldPay /\ Replacing(r)
  BY <1>1 DEF RunState, Pcs, Verified, Working, Undoing, Moving, Replacing
<1>4. Knows(r, new, bin, pay, binDir)
  BY <1>1 DEF Knows, Moved, RunState, Moving, Undoing, Staging, Probing
<1> HIDE DEF new
<1> QED BY <1>1, <1>2, <1>3, <1>4, ReplacingMoves

LEMMA CrashKeeps ==
  ASSUME PairInv, NEW r \in Runs, Crash(r)
  PROVE  PairInv'
<1> DEFINE new == [run[r] EXCEPT !.pc = "crashed"]
<1>1. /\ run[r] \in RunState /\ faults \in Nat /\ crashes' \in Nat /\ crashes' # 0
      /\ UNCHANGED <<bin, pay, binDir, staged, source, cleaner, faults, cleans>>
      /\ Active(r)
  BY ActiveLabels DEF PairInv, PairTypeOK, Crash, Disk
<1>2. run' = [run EXCEPT ![r] = new]
  BY DEF Crash, PairInv, PairTypeOK
<1>3. /\ new \in RunState /\ new.pc \in Ended /\ new.oldBin = run[r].oldBin
      /\ new.oldPay = run[r].oldPay
  BY <1>1 DEF RunState, Pcs, Ended
<1> HIDE DEF new
<1> QED BY <1>1, <1>2, <1>3, EndingKeeps

\* A preparation begins.
LEMMA BeginKeeps ==
  ASSUME OneAtATime, PairInv, NEW r \in Runs, BeginPreparation(r)
  PROVE  PairInv'
<1> USE DEF PairInv
<1>1. cleaner = "idle" /\ \A s \in Runs : ~Active(s)
  BY NobodyActive DEF BeginPreparation
<1>2. /\ run[r].pc = "idle" /\ run' = [run EXCEPT ![r].pc = "copyRuntime"]
      /\ UNCHANGED <<bin, pay, binDir, staged, source, cleaner, faults, crashes, cleans>>
  BY DEF BeginPreparation, Step, Disk, Budget
<1>3. /\ \A s \in Runs \ {r} : run'[s] = run[s]
      /\ run[r] \in RunState /\ run'[r] = [run[r] EXCEPT !.pc = "copyRuntime"]
  BY <1>2, ActiveLabels DEF PairTypeOK
<1>4. /\ run'[r].pc = "copyRuntime" /\ run'[r].oldBin = run[r].oldBin
      /\ run'[r].oldPay = run[r].oldPay /\ run'[r].movedBin = run[r].movedBin
      /\ run'[r].movedPay = run[r].movedPay /\ run'[r].promBin = run[r].promBin
      /\ run'[r] \in RunState
  BY <1>3 DEF RunState, Pcs, Staging
<1>5. PairTypeOK'
  BY <1>2, <1>4 DEF PairTypeOK
<1>6. Alone'
  <2>1. \A s \in Runs : Active(s)' => s = r
    BY <1>1, <1>3 DEF Active
  <2> QED BY <1>1, <1>2, <2>1 DEF Alone
<1>7. OldPairIsKnown'
  <2>1. Knows(r, run'[r], bin, pay, binDir)
    BY <1>2, <1>4, ActiveLabels DEF Knows, Staging, Moving, Undoing, Probing
  <2> QED BY <1>2, <1>3, <2>1 DEF OldPairIsKnown
<1>8. Unseen'
  <2>1. \A q \in Runs : run'[q].pc \in {"idle"} \cup Staging => run[q].pc \in {"idle"} \cup Staging
    BY <1>2, <1>3
  <2>2. \A s \in Runs : run'[s].oldBin = run[s].oldBin /\ run'[s].oldPay = run[s].oldPay
    BY <1>3, <1>4
  <2> QED BY <1>2, <2>1, <2>2 DEF Unseen
<1>9. "copyRuntime" \notin Verified
  BY DEF Verified, Probing, Reading, Working, Moving, Undoing
<1>10. StagedIsTrue'
  BY <1>2, <1>3, <1>4, <1>9 DEF StagedIsTrue, TrueToManifest
<1>11. WholeAtRest'
  <2>1. \A s \in Runs : run[s].pc \notin Working
    BY <1>1, ActiveLabels DEF Verified
  <2>2. \A s \in Runs : run'[s].pc \notin Moving \cup Undoing
    BY <1>3, <1>4, <1>9, <2>1 DEF Verified, Working
  <2>3. Calm' => Calm
    BY <1>2, <1>3 DEF Calm
  <2>4. Whole(bin, pay) => Whole(bin, pay)'
    BY <1>2 DEF Whole, TrueToManifest
  <2> QED BY <1>1, <1>2, <2>1, <2>2, <2>3, <2>4 DEF WholeAtRest
<1> QED BY <1>5, <1>6, <1>7, <1>8, <1>10, <1>11

\* The two removals of cleanSidecar; no preparation is at work when they begin, and none
\* begins between them.
LEMMA CleanKeeps ==
  ASSUME OneAtATime, PairInv, CleanBinaries \/ CleanPayload
  PROVE  PairInv'
<1> USE DEF PairInv
<1>1. \A s \in Runs : ~Active(s)
  BY NobodyActive DEF CleanBinaries, CleanPayload, Alone
<1>2. /\ run' = run /\ staged' = staged /\ source' = source /\ faults' = faults
      /\ crashes' = crashes /\ bin' = None /\ binDir' \in BOOLEAN /\ pay' \in {pay, None}
      /\ cleans' \in Nat /\ cleaner' \in {"idle", "half"}
      /\ cleaner' = "idle" => pay' = None
  <2>1. CASE CleanBinaries
    <3>1. /\ bin' = None /\ (binDir' = FALSE) /\ run' = run /\ staged' = staged
          /\ source' = source /\ faults' = faults /\ crashes' = crashes /\ cleans' = cleans + 1
          /\ pay' = pay /\ cleaner' = "half"
      BY <2>1 DEF CleanBinaries
    <3>2. binDir' \in BOOLEAN
      BY <3>1
    <3>3. cleans' \in Nat
      BY <3>1 DEF PairTypeOK
    <3> QED BY <3>1, <3>2, <3>3
  <2>2. CASE CleanPayload
    <3>1. /\ bin' = bin /\ binDir' = binDir /\ run' = run /\ staged' = staged
          /\ source' = source /\ faults' = faults /\ crashes' = crashes /\ cleans' = cleans
          /\ pay' = None /\ cleaner' = "idle" /\ cleaner = "half"
      BY <2>2 DEF CleanPayload, Budget
    <3>2. bin = None
      BY <3>1 DEF Alone
    <3> QED BY <3>1, <3>2 DEF PairTypeOK
  <2> QED BY <2>1, <2>2
<1>3. \A s \in Runs : /\ run[s].pc \notin Staging \cup Verified
                      /\ s # None
  BY <1>1, ActiveLabels
<1>4. None \in Pairs
  BY DEF Pairs
<1>5. PairTypeOK'
  BY <1>2, <1>4 DEF PairTypeOK
<1>6. Alone'
  BY <1>1, <1>2 DEF Alone, Active
<1>7. OldPairIsKnown'
  <2>1. \A s \in Runs : Knows(s, run[s], bin', pay', binDir')
    BY <1>3 DEF OldPairIsKnown, Knows, Verified, Probing, Reading, Working, Moving, Undoing
  <2> QED BY <1>2, <2>1 DEF OldPairIsKnown
<1>8. Unseen'
  BY <1>2, <1>3 DEF Unseen
<1>9. StagedIsTrue'
  BY <1>2 DEF StagedIsTrue, TrueToManifest
<1>10. WholeAtRest'
  BY <1>2, <1>3 DEF WholeAtRest, Whole, Verified, Working
<1> QED BY <1>5, <1>6, <1>7, <1>8, <1>9, <1>10

LEMMA EditKeeps ==
  ASSUME PairInv, NEW p \in Parts, EditSource(p)
  PROVE  PairInv'
<1> USE DEF PairInv
<1>1. /\ UNCHANGED <<bin, pay, binDir, run, staged, cleaner, faults, crashes, cleans>>
      /\ source' = [source EXCEPT ![p] = @ + 1]
  BY DEF EditSource, Disk, Budget
<1>2. PairTypeOK'
  BY <1>1 DEF PairTypeOK, Versions
<1>3. Alone' /\ OldPairIsKnown' /\ Unseen'
  BY <1>1 DEF Alone, Active, OldPairIsKnown, Unseen
<1>4. StagedIsTrue' /\ WholeAtRest'
  BY <1>1 DEF StagedIsTrue, WholeAtRest, TrueToManifest, Whole, Calm
<1> QED BY <1>2, <1>3, <1>4

LEMMA PairInvStutters ==
  ASSUME PairInv, UNCHANGED vars
  PROVE  PairInv'
<1>1. UNCHANGED <<bin, pay, binDir, run, staged, source, cleaner, faults, crashes, cleans>>
  BY DEF vars
<1>2. PairTypeOK' /\ Alone' /\ OldPairIsKnown' /\ Unseen'
  BY <1>1 DEF PairInv, PairTypeOK, Alone, Active, OldPairIsKnown, Unseen
<1>3. StagedIsTrue' /\ WholeAtRest'
  BY <1>1 DEF PairInv, StagedIsTrue, WholeAtRest, TrueToManifest, Whole, Calm
<1> QED BY <1>2, <1>3 DEF PairInv

LEMMA PairInvStep ==
  ASSUME OneAtATime, PairInv, [Next]_vars
  PROVE  PairInv'
<1>1. ASSUME NEW r \in Runs, Progress(r)
      PROVE  PairInv'
  BY <1>1, StageKeeps, VerifyStagedKeeps, ProbeKeeps, ReadOldKeeps, RequireKeeps, MoveOldKeeps,
     PromoteKeeps, RecordKeeps, FinishKeeps, UndoKeeps DEF Progress
<1>2. ASSUME NEW r \in Runs, OperationFails(r) \/ ForeignBackup(r) \/ Crash(r)
      PROVE  PairInv'
  BY <1>2, FailureKeeps, ForeignKeeps, CrashKeeps
<1>3. ASSUME NEW r \in Runs, BeginPreparation(r)
      PROVE  PairInv'
  BY <1>3, BeginKeeps
<1>4. CASE CleanBinaries \/ CleanPayload
  BY <1>4, CleanKeeps
<1>5. ASSUME NEW p \in Parts, EditSource(p)
      PROVE  PairInv'
  BY <1>5, EditKeeps
<1>6. CASE UNCHANGED vars
  BY <1>6, PairInvStutters
<1> QED BY <1>1, <1>2, <1>3, <1>4, <1>5, <1>6 DEF Next
-----------------------------------------------------------------------------
\* Runs of prepareSidecar and cleanSidecar that follow one another keep the invariant: at
\* every label of a run the halves of the pair it found are where the run believes them,
\* whichever operation fails next and wherever an earlier run was killed.
THEOREM PairIsKnown == ASSUME OneAtATime PROVE Spec => []PairInv
<1>1. Init => PairInv
  BY PairInvInit
<1>2. PairInv /\ [Next]_vars => PairInv'
  BY PairInvStep
<1> QED BY <1>1, <1>2, PTL DEF Spec

\* When nobody is at work, nobody was killed and nothing is reported as retained, the
\* destination holds no pair or one whole pair made by one run (replaceGeneratedPair and
\* its rollback), and the manifest of that pair is true of its bytes although the inputs
\* may have changed between their copy and their digest.
THEOREM RestIsOnePair == ASSUME OneAtATime PROVE Spec => []RestIsWhole
<1>1. PairInv => RestIsWhole
  <2> SUFFICES ASSUME PairInv, ActiveCount = 0, crashes = 0,
                      \A r \in Runs : run[r].pc # "residue"
               PROVE  Whole(bin, pay)
    BY DEF RestIsWhole, Whole
  <2>1. cleaner = "idle" /\ \A r \in Runs : ~Active(r)
    BY NobodyActive DEF PairInv, OneAtATime
  <2>2. \A r \in Runs : run[r].pc \notin Working
    BY <2>1, ActiveLabels DEF Verified
  <2> QED BY <2>1, <2>2 DEF PairInv, WholeAtRest, Calm
<1> QED BY <1>1, PairIsKnown, PTL

\* While a run is replacing the pair, both old halves are at the destination or in the
\* recovery directory of the run.
LEMMA OldHalvesKept ==
  ASSUME PairInv, NEW r \in Runs, Replacing(r)
  PROVE  OldBinaryKept(r) /\ OldPayloadKept(r)
<1>1. Knows(r, run[r], bin, pay, binDir)
  BY DEF PairInv, OldPairIsKnown
<1>2. CASE run[r].pc \in Moving
  BY <1>1, <1>2 DEF Knows, Moved, Moving, OldBinaryKept, OldPayloadKept
<1>3. CASE run[r].pc \in Undoing
  BY <1>1, <1>3 DEF Knows, Moved, Undoing, OldBinaryKept, OldPayloadKept
<1> QED BY <1>2, <1>3 DEF Replacing

\* Only a run that has begun and not ended takes steps.
LEMMA StepIsActive ==
  ASSUME NEW r \in Runs, Progress(r) \/ OperationFails(r) \/ ForeignBackup(r) \/ Crash(r)
  PROVE  Active(r)
<1>1. CASE Stage(r) \/ VerifyStaged(r) \/ ProbeExisting(r) \/ ReadOldPair(r)
  BY <1>1 DEF Stage, CopyPart, DigestPart, Step, VerifyStaged, ProbeExisting, ReadOldPair,
              Active, Ended
<1>2. CASE \/ RequireBeforeMove(r) \/ MoveOldBinary(r) \/ MoveOldPayload(r) \/ PromoteBinary(r)
           \/ PromotePayload(r) \/ RecordPromoted(r) \/ Finish(r)
  BY <1>2 DEF RequireBeforeMove, CheckThen, MoveOldBinary, MoveOldPayload, PromoteBinary,
              PromotePayload, RecordPromoted, Finish, Active, Ended
<1>3. CASE Undo(r)
  BY <1>3 DEF Undo, RequireBeforeUndo, UndoCheck, UndoBinary, RestorePayload, RestoreBinary,
              DropRecovery, Active, Ended
<1>4. CASE OperationFails(r)
  BY <1>4 DEF OperationFails, Staging, Probing, Reading, Moving, Undoing, Active, Ended
<1>5. CASE ForeignBackup(r) \/ Crash(r)
  BY <1>5 DEF ForeignBackup, Crash, Active, Ended
<1> QED BY <1>1, <1>2, <1>3, <1>4, <1>5 DEF Progress

\* A replacement that fails with an ordinary error has put back exactly the pair it found;
\* one that reports retained residue or is killed leaves both old halves at the destination
\* or in its recovery directory (the catch of replaceGeneratedPair).
THEOREM OldPairRestored == ASSUME OneAtATime PROVE Spec => FailureRestores
<1> DEFINE Kept(r) == /\ run'[r].pc = "failed" => bin' = run[r].oldBin /\ pay' = run[r].oldPay
                      /\ run'[r].pc \in {"residue", "crashed"} =>
                           (OldBinaryKept(r) /\ OldPayloadKept(r))'
<1>1. ASSUME PairInv, [Next]_vars, NEW r \in Runs, Replacing(r)
      PROVE  Kept(r)
  <2>1. /\ run[r] \in RunState /\ Knows(r, run[r], bin, pay, binDir) /\ Active(r)
        /\ run[r].pc \in Verified /\ run[r].pc \notin {"idle", "failed", "residue", "crashed"}
    BY <1>1, ActiveLabels
       DEF Replacing, Verified, Working, Moving, Undoing
  <2>2. CASE run' = run
    BY <2>1, <2>2
  <2>3. ASSUME NEW s \in Runs \ {r}, Progress(s) \/ OperationFails(s) \/ ForeignBackup(s) \/ Crash(s)
        PROVE  FALSE
    <3>1. run[s].pc \in Staging \cup Verified
      BY <2>3, StepIsActive, ActiveLabels, <1>1
    <3> QED BY <1>1, <2>1, <2>3, <3>1, ActiveLabels DEF PairInv, Alone
  <2>4. ASSUME NEW s \in Runs, BeginPreparation(s)
        PROVE  FALSE
    BY <1>1, <2>1, <2>4, NobodyActive DEF BeginPreparation, PairInv
  <2>5. CASE CleanBinaries \/ CleanPayload
    BY <2>2, <2>5 DEF CleanBinaries, CleanPayload
  <2>6. CASE \E p \in Parts : EditSource(p)
    BY <2>2, <2>6 DEF EditSource
  <2>7. CASE Progress(r) \/ OperationFails(r) \/ ForeignBackup(r) \/ Crash(r)
    <3>1. OldBinaryKept(r) /\ OldPayloadKept(r)
      BY <1>1, OldHalvesKept
    <3>6. run \in [Runs -> RunState]
      BY <1>1 DEF PairInv, PairTypeOK
    <3>2. /\ run[r].pc \notin Staging \cup Probing \cup Reading
          /\ run[r].pc \notin {"verifyStaged", "probeBin", "probePay", "verifyOld",
                               "oldBin", "oldPay", "recovery", "cleanRecovery"}
      BY <1>1 DEF Replacing, Moving, Undoing, Staging, Probing, Reading
    <3>3. CASE /\ UNCHANGED <<bin, pay>> /\ run'[r].pc \in {"residue", "crashed"}
               /\ run'[r].oldBin = run[r].oldBin /\ run'[r].oldPay = run[r].oldPay
               /\ run'[r].backupBin = run[r].backupBin /\ run'[r].backupPay = run[r].backupPay
      BY <3>1, <3>3 DEF OldBinaryKept, OldPayloadKept
    <3>4. CASE run'[r].pc \notin {"failed", "residue", "crashed"}
      BY <3>4
    <3>5. CASE DropRecovery(r)
      <4>1. run[r].pc = "dropRecovery" /\ bin' = bin /\ pay' = pay
        BY <3>5 DEF DropRecovery, Disk
      <4>2. bin = run[r].oldBin /\ pay = run[r].oldPay
        BY <2>1, <4>1 DEF Knows
      <4>3. run'[r].pc = "failed"
        BY <2>1, <3>5, <3>6 DEF DropRecovery, RunState
      <4> QED BY <4>1, <4>2, <4>3
    <3>7. UndoAt(r) \notin {"failed", "residue", "crashed"}
          /\ AfterUndoBin(r) \notin {"failed", "residue", "crashed"}
          /\ AfterBackPay(r) \notin {"failed", "residue", "crashed"}
      BY DEF UndoAt, AfterUndoBin, AfterBackPay
    <3>8. CASE Crash(r)
      BY <3>3, <3>6, <3>8 DEF Crash, Disk, RunState
    <3>9. Retain(r) => /\ run'[r].pc = "residue"
                       /\ run'[r].oldBin = run[r].oldBin /\ run'[r].oldPay = run[r].oldPay
                       /\ run'[r].backupBin = run[r].backupBin
                       /\ run'[r].backupPay = run[r].backupPay
      BY <3>6 DEF Retain, RunState
    <3>10. Throw(r) => run'[r].pc = UndoAt(r)
      BY <3>6 DEF Throw, RunState
    <3>11. CASE OperationFails(r) \/ ForeignBackup(r)
      <4>1. CASE Throw(r)
        BY <3>4, <3>7, <3>10, <4>1
      <4>2. CASE Retain(r) /\ UNCHANGED <<bin, pay>>
        BY <3>3, <3>9, <4>2
      <4>3. CASE ForeignBackup(r)
        <5>1. run'[r].pc = "dropRecovery"
          BY <3>6, <4>3 DEF ForeignBackup, RunState
        <5> QED BY <3>4, <5>1
      <4> QED BY <3>2, <3>11, <4>1, <4>2, <4>3 DEF OperationFails, Disk
    <3>12. CASE Undo(r)
      <4>1. CASE RequireBeforeUndo(r)
        BY <3>3, <3>4, <3>6, <3>9, <4>1 DEF RequireBeforeUndo, UndoCheck, Disk, RunState
      <4>2. CASE UndoBinary(r)
        BY <3>3, <3>4, <3>6, <3>7, <3>9, <4>2 DEF UndoBinary, RunState
      <4>3. CASE RestorePayload(r)
        BY <3>3, <3>4, <3>6, <3>7, <3>9, <4>3 DEF RestorePayload, RunState
      <4>4. CASE RestoreBinary(r)
        BY <3>3, <3>4, <3>6, <3>7, <3>9, <4>4 DEF RestoreBinary, RunState
      <4> QED BY <3>5, <3>12, <4>1, <4>2, <4>3, <4>4 DEF Undo
    <3>13. CASE RequireBeforeMove(r)
      BY <3>4, <3>6, <3>7, <3>10, <3>13 DEF RequireBeforeMove, CheckThen, RunState
    <3>14. CASE MoveOldBinary(r) \/ MoveOldPayload(r) \/ PromoteBinary(r) \/ PromotePayload(r)
                \/ RecordPromoted(r)
      <4>1. CASE Throw(r)
        BY <3>4, <3>7, <3>10, <4>1
      <4>2. CASE MoveOldBinary(r) \/ MoveOldPayload(r)
        BY <3>4, <3>6, <4>1, <4>2 DEF MoveOldBinary, MoveOldPayload, RunState
      <4>3. CASE PromoteBinary(r) \/ PromotePayload(r)
        BY <3>4, <3>6, <4>1, <4>3 DEF PromoteBinary, PromotePayload, RunState
      <4>4. CASE RecordPromoted(r)
        BY <3>4, <3>6, <4>4 DEF RecordPromoted, RunState
      <4> QED BY <3>14, <4>2, <4>3, <4>4
    <3>15. ~(Stage(r) \/ VerifyStaged(r) \/ ProbeExisting(r) \/ ReadOldPair(r) \/ Finish(r))
      BY <3>2 DEF Stage, CopyPart, DigestPart, Step, Staging, VerifyStaged, ProbeExisting,
                  ReadOldPair, Finish
    <3> HIDE DEF Kept
    <3> QED BY <2>7, <3>8, <3>11, <3>12, <3>13, <3>14, <3>15 DEF Progress
  <2>8. CASE UNCHANGED vars
    BY <2>2, <2>8 DEF vars
  <2> HIDE DEF Kept
  <2> QED BY <1>1, <2>3, <2>4, <2>5, <2>6, <2>7, <2>8 DEF Next
<1>2. PairInv /\ [Next]_vars =>
        [\A r \in Runs : Replacing(r) =>
           /\ run'[r].pc = "failed" => bin' = run[r].oldBin /\ pay' = run[r].oldPay
           /\ run'[r].pc \in {"residue", "crashed"} =>
                (OldBinaryKept(r) /\ OldPayloadKept(r))']_vars
  BY <1>1
<1> QED BY <1>2, PairIsKnown, PTL DEF Spec, FailureRestores
===============================================================================
