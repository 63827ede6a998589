------------------------- MODULE PairPublication --------------------------
(***************************************************************************)
(* The preparation of the sidecar pair (tools/sidecar-common.mjs): a run   *)
(* stages a Node binary and a payload, verifies what it staged, verifies   *)
(* the pair it finds at the destination and replaces that pair by renames. *)
(* The two destinations cannot be renamed together, so a run keeps the old *)
(* pair in a recovery directory of its own until both halves are in place, *)
(* and undoes its renames when one of them fails.                          *)
(*                                                                         *)
(* A binary or a payload is named by the run that staged it: the inode a   *)
(* run compares (dev, ino, size, mode, mtime) survives a rename.           *)
(***************************************************************************)
EXTENDS Naturals, FiniteSets

CONSTANTS Runs,       \* the invocations of prepareSidecar, each used once
          Old,        \* the run that made the pair found at the start
          None,       \* no file
          MaxActive,  \* how many invocations may be under way together
          MaxFaults,  \* bound on file operations that fail
          MaxCrashes, \* bound on processes that are killed
          MaxCleans,  \* bound on invocations of cleanSidecar
          MaxEdits,   \* bound on changes of the inputs while they are copied
          StatFails   \* may the lstat that follows a rename fail?

ASSUME NamesAssumption == Old \notin Runs /\ None \notin Runs \cup {Old}

Gens == Runs \cup {Old}

\* Inputs that are copied and whose digests the manifest takes from their source
\* again: the Node runtime, and the native addon, raster, WASM and protocol files.
\* The other files are only inventoried, from the staged bytes.
Parts == {"runtime", "bound"}

VARIABLES bin,       \* binaries/<sidecar>: which run's binary is there
          pay,       \* sidecar-payload: which run's payload is there
          binDir,    \* does the directory of the binary exist?
          run,       \* the local state of every invocation
          staged,    \* what each run's pair is made of
          source,    \* the present version of each input
          cleaner,   \* "idle", or "half": binaries removed, payload not yet
          faults, crashes, cleans

vars == <<bin, pay, binDir, run, staged, source, cleaner, faults, crashes, cleans>>

-----------------------------------------------------------------------------
Staging == {"copyRuntime", "copyBound", "digestRuntime",
            "digestBound", "verifyStaged"}
Probing == {"probeBin", "probePay", "verifyOld"}
Reading == {"oldBin", "oldPay", "recovery"}
Moving == {"idOldBin", "mvOldBin", "idOldPay", "mvOldPay", "absentBin",
           "promoteBin", "statBin", "absentPay", "promotePay", "statPay"}
Undoing == {"undoBin", "undoBinMv", "backPay", "backPayMv", "backBin", "backBinMv",
            "dropRecovery"}
Ended == {"succeeded", "failed", "residue", "publishedResidue", "crashed"}

Active(r) == run[r].pc \notin Ended \cup {"idle"}
ActiveCount == Cardinality({r \in Runs : Active(r)}) + (IF cleaner = "half" THEN 1 ELSE 0)

Fresh == [pc |-> "idle", oldBin |-> None, oldPay |-> None,
          backupBin |-> None, backupPay |-> None, rejBin |-> None,
          movedBin |-> FALSE, movedPay |-> FALSE, promBin |-> None, retain |-> FALSE]

Blank == [copied |-> [p \in Parts |-> 0], manifest |-> [p \in Parts |-> 0]]

Init ==
  /\ \/ bin = None /\ pay = None
     \/ bin = Old /\ pay = Old
  /\ binDir = (bin # None)
  /\ run = [r \in Runs |-> Fresh]
  /\ staged = [g \in Gens |-> Blank]
  /\ source = [p \in Parts |-> 0]
  /\ cleaner = "idle"
  /\ faults = 0 /\ crashes = 0 /\ cleans = 0

-----------------------------------------------------------------------------
\* verifyDistribution with validateManifestShape: the runtime's digest, the
\* inventory and the digests the manifest repeats must agree with the bytes.
\* The inventory is of the staged bytes themselves, whatever their version.
WrongVerifyDistribution(b, p) == staged[b].copied["runtime"] = staged[p].manifest["runtime"]
VerifyDistribution(b, p) ==
  /\ staged[b].copied["runtime"] = staged[p].manifest["runtime"]
  /\ staged[p].copied["bound"] = staged[p].manifest["bound"]

Step(r, from, to) == run[r].pc = from /\ run' = [run EXCEPT ![r].pc = to]
Disk == <<bin, pay, binDir>>
Budget == <<faults, crashes, cleans>>

\* prepareSidecar: mkdtemp of the stage and the checks of its options.
BeginPreparation(r) ==
  /\ ActiveCount < MaxActive
  /\ Step(r, "idle", "copyRuntime")
  /\ UNCHANGED <<Disk, staged, source, cleaner, Budget>>

\* copyRegular and copyClosedTree, in the order of the code.
CopyPart(r, from, part, to) ==
  /\ Step(r, from, to)
  /\ staged' = [staged EXCEPT ![r].copied[part] = source[part]]
  /\ UNCHANGED <<Disk, source, cleaner, Budget>>

\* The manifest is filled from a second read of the inputs, not of the stage.
DigestPart(r, from, part, to) ==
  /\ Step(r, from, to)
  /\ staged' = [staged EXCEPT ![r].manifest[part] = source[part]]
  /\ UNCHANGED <<Disk, source, cleaner, Budget>>

Stage(r) ==
  \/ CopyPart(r, "copyRuntime", "runtime", "copyBound")
  \/ CopyPart(r, "copyBound", "bound", "digestRuntime")
  \/ DigestPart(r, "digestRuntime", "runtime", "digestBound")
  \/ DigestPart(r, "digestBound", "bound", "verifyStaged")

\* The error path of prepareSidecar before a replacement began: the stage is
\* removed and the error thrown.
AbandonStage(r) == run' = [run EXCEPT ![r].pc = "failed"]

VerifyStaged(r) ==
  /\ run[r].pc = "verifyStaged"
  /\ IF VerifyDistribution(r, r)
       THEN run' = [run EXCEPT ![r].pc = "probeBin"]
       ELSE AbandonStage(r)
  /\ UNCHANGED <<Disk, staged, source, cleaner, Budget>>

\* optionalIdentity of both destinations, then the pair that is to be replaced
\* must be complete and must verify.
ProbeExisting(r) ==
  /\ \/ /\ run[r].pc = "probeBin"
        /\ run' = [run EXCEPT ![r].pc = "probePay", ![r].oldBin = bin]
     \/ /\ run[r].pc = "probePay"
        /\ run' = [run EXCEPT ![r].pc = "verifyOld", ![r].oldPay = pay]
     \/ /\ run[r].pc = "verifyOld"
        /\ LET absent == run[r].oldBin = None /\ run[r].oldPay = None
               whole == run[r].oldBin # None /\ run[r].oldPay # None
                          /\ bin # None /\ pay # None /\ VerifyDistribution(bin, pay)
           IN IF absent \/ whole
                THEN run' = [run EXCEPT ![r].pc = "oldBin"]
                ELSE AbandonStage(r)
  /\ UNCHANGED <<Disk, staged, source, cleaner, Budget>>

\* replaceGeneratedPair up to its try: the parents are made, the identities
\* are read again and a recovery directory is made.
ReadOldPair(r) ==
  /\ \/ /\ run[r].pc = "oldBin"
        /\ binDir' = TRUE
        /\ run' = [run EXCEPT ![r].pc = "oldPay", ![r].oldBin = bin]
     \/ /\ run[r].pc = "oldPay"
        /\ UNCHANGED binDir
        /\ run' = [run EXCEPT ![r].pc = "recovery", ![r].oldPay = pay]
     \/ /\ run[r].pc = "recovery"
        /\ UNCHANGED binDir
        /\ IF (run[r].oldBin = None) # (run[r].oldPay = None)
             THEN AbandonStage(r)
             ELSE run' = [run EXCEPT ![r].pc = IF run[r].oldBin # None THEN "idOldBin" ELSE "absentBin"]
  /\ UNCHANGED <<bin, pay, staged, source, cleaner, Budget>>

\* The catch of replaceGeneratedPair: which undo steps apply depends on what
\* the run knows it has done. Its first branch, for a promoted payload, is never
\* taken: the payload is recorded in the step that sets published.
WrongAfterBackPay(r) == "dropRecovery"
AfterBackPay(r) == IF run[r].movedBin THEN "backBin" ELSE "dropRecovery"
AfterUndoBin(r) == IF run[r].movedPay THEN "backPay" ELSE AfterBackPay(r)
UndoAt(r) == IF run[r].promBin # None THEN "undoBin" ELSE AfterUndoBin(r)

Throw(r) == run' = [run EXCEPT ![r].pc = UndoAt(r)]

\* requireIdentity and requireAbsent: look first, rename later.
CheckThen(r, from, to, holds) ==
  /\ run[r].pc = from
  /\ IF holds THEN run' = [run EXCEPT ![r].pc = to] ELSE Throw(r)
  /\ UNCHANGED <<Disk, staged, source, cleaner, Budget>>

RequireBeforeMove(r) ==
  \/ CheckThen(r, "idOldBin", "mvOldBin", bin = run[r].oldBin)
  \/ CheckThen(r, "idOldPay", "mvOldPay", pay = run[r].oldPay)
  \/ CheckThen(r, "absentBin", "promoteBin", bin = None)
  \/ CheckThen(r, "absentPay", "promotePay", pay = None)

\* rename(binaryDestination, backupBinary); whatever is there is moved.
MoveOldBinary(r) ==
  /\ run[r].pc = "mvOldBin"
  /\ IF bin = None
       THEN Throw(r) /\ UNCHANGED bin
       ELSE /\ run' = [run EXCEPT ![r].pc = "idOldPay", ![r].backupBin = bin,
                                  ![r].movedBin = TRUE]
            /\ bin' = None
  /\ UNCHANGED <<pay, binDir, staged, source, cleaner, Budget>>

MoveOldPayload(r) ==
  /\ run[r].pc = "mvOldPay"
  /\ IF pay = None
       THEN Throw(r) /\ UNCHANGED pay
       ELSE /\ run' = [run EXCEPT ![r].pc = "absentBin", ![r].backupPay = pay,
                                  ![r].movedPay = TRUE]
            /\ pay' = None
  /\ UNCHANGED <<bin, binDir, staged, source, cleaner, Budget>>

\* rename of a file replaces the file it finds; it needs the directory.
PromoteBinary(r) ==
  /\ run[r].pc = "promoteBin"
  /\ IF binDir
       THEN /\ bin' = r
            /\ run' = [run EXCEPT ![r].pc = "statBin"]
       ELSE Throw(r) /\ UNCHANGED bin
  /\ UNCHANGED <<pay, binDir, staged, source, cleaner, Budget>>

\* rename of a directory fails when the destination is not empty.
PromotePayload(r) ==
  /\ run[r].pc = "promotePay"
  /\ IF pay = None
       THEN /\ pay' = r
            /\ run' = [run EXCEPT ![r].pc = "statPay"]
       ELSE Throw(r) /\ UNCHANGED pay
  /\ UNCHANGED <<bin, binDir, staged, source, cleaner, Budget>>

\* The identity of what was promoted is read after the rename.
RecordPromoted(r) ==
  /\ \/ /\ run[r].pc = "statBin"
        /\ run' = [run EXCEPT ![r].pc = "absentPay", ![r].promBin = bin]
     \/ /\ run[r].pc = "statPay"
        /\ run' = [run EXCEPT ![r].pc = "cleanRecovery"]
  /\ UNCHANGED <<Disk, staged, source, cleaner, Budget>>

\* published: the recovery directory goes, and the old pair with it.
Finish(r) ==
  /\ run[r].pc = "cleanRecovery"
  /\ run' = [run EXCEPT ![r].pc = "succeeded",
                        ![r].backupBin = None, ![r].backupPay = None]
  /\ UNCHANGED <<Disk, staged, source, cleaner, Budget>>

-----------------------------------------------------------------------------
\* The rollback. It stops at the first check that fails and keeps what the
\* recovery directory holds.
Retain(r) == run' = [run EXCEPT ![r].pc = "residue", ![r].retain = TRUE]

UndoCheck(r, from, to, holds) ==
  /\ run[r].pc = from
  /\ IF holds THEN run' = [run EXCEPT ![r].pc = to] ELSE Retain(r)
  /\ UNCHANGED <<Disk, staged, source, cleaner, Budget>>

RequireBeforeUndo(r) ==
  \/ UndoCheck(r, "undoBin", "undoBinMv", bin # None /\ bin = run[r].promBin)
  \/ UndoCheck(r, "backPay", "backPayMv", pay = None /\ run[r].backupPay = run[r].oldPay)
  \/ UndoCheck(r, "backBin", "backBinMv", bin = None /\ run[r].backupBin = run[r].oldBin)

UndoBinary(r) ==
  /\ run[r].pc = "undoBinMv"
  /\ IF bin = None
       THEN Retain(r) /\ UNCHANGED bin
       ELSE /\ run' = [run EXCEPT ![r].pc = AfterUndoBin(r), ![r].rejBin = bin]
            /\ bin' = None
  /\ UNCHANGED <<pay, binDir, staged, source, cleaner, Budget>>

RestorePayload(r) ==
  /\ run[r].pc = "backPayMv"
  /\ IF pay = None
       THEN /\ pay' = run[r].backupPay
            /\ run' = [run EXCEPT ![r].pc = AfterBackPay(r), ![r].backupPay = None]
       ELSE Retain(r) /\ UNCHANGED pay
  /\ UNCHANGED <<bin, binDir, staged, source, cleaner, Budget>>

RestoreBinary(r) ==
  /\ run[r].pc = "backBinMv"
  /\ IF binDir
       THEN /\ bin' = run[r].backupBin
            /\ run' = [run EXCEPT ![r].pc = "dropRecovery", ![r].backupBin = None]
       ELSE Retain(r) /\ UNCHANGED bin
  /\ UNCHANGED <<pay, binDir, staged, source, cleaner, Budget>>

\* The recovery directory is removed with everything that is still in it, unless
\* it must be retained; then prepareSidecar removes its stage and throws.
DropRecovery(r) ==
  /\ run[r].pc = "dropRecovery"
  /\ run' = [run EXCEPT ![r].pc = "failed",
               ![r].backupBin = IF run[r].retain THEN @ ELSE None,
               ![r].backupPay = IF run[r].retain THEN @ ELSE None,
               ![r].rejBin = IF run[r].retain THEN @ ELSE None]
  /\ UNCHANGED <<Disk, staged, source, cleaner, Budget>>

Undo(r) == \/ RequireBeforeUndo(r) \/ UndoBinary(r)
           \/ RestorePayload(r) \/ RestoreBinary(r) \/ DropRecovery(r)

-----------------------------------------------------------------------------
\* A file operation fails. Before the replacement the stage is abandoned; before
\* publication the rollback starts; during the rollback it stops; after
\* publication only the removal of the recovery directory can fail.
OperationFails(r) ==
  /\ faults < MaxFaults
  /\ faults' = faults + 1
  /\ \/ run[r].pc \in Staging \cup Probing \cup Reading /\ AbandonStage(r)
     \/ /\ run[r].pc \in Moving
        /\ run[r].pc \in {"statBin", "statPay"} => StatFails
        /\ Throw(r)
     \/ run[r].pc \in Undoing /\ Retain(r)
     \/ /\ run[r].pc = "cleanRecovery"
        /\ run' = [run EXCEPT ![r].pc = "publishedResidue"]
  /\ UNCHANGED <<Disk, staged, source, cleaner, crashes, cleans>>

\* An object the run did not make is found in the new recovery directory.
ForeignBackup(r) ==
  /\ faults < MaxFaults
  /\ run[r].pc \in {"idOldBin", "absentBin"}
  /\ ~run[r].movedBin /\ ~run[r].retain
  /\ faults' = faults + 1
  /\ run' = [run EXCEPT ![r].pc = "dropRecovery", ![r].retain = TRUE]
  /\ UNCHANGED <<Disk, staged, source, cleaner, crashes, cleans>>

\* The process is killed; nothing it did is undone.
Crash(r) ==
  /\ crashes < MaxCrashes
  /\ Active(r)
  /\ run' = [run EXCEPT ![r].pc = "crashed"]
  /\ crashes' = crashes + 1
  /\ UNCHANGED <<Disk, staged, source, cleaner, faults, cleans>>

\* cleanSidecar: the binaries directory, then the payload.
CleanBinaries ==
  /\ cleaner = "idle" /\ cleans < MaxCleans /\ ActiveCount < MaxActive
  /\ bin' = None /\ binDir' = FALSE /\ cleaner' = "half" /\ cleans' = cleans + 1
  /\ UNCHANGED <<pay, run, staged, source, faults, crashes>>

CleanPayload ==
  /\ cleaner = "half"
  /\ pay' = None /\ cleaner' = "idle"
  /\ UNCHANGED <<bin, binDir, run, staged, source, Budget>>

\* Somebody rebuilds or replaces an input while a run reads it.
EditSource(p) ==
  /\ source[p] < MaxEdits
  /\ \E r \in Runs : run[r].pc \in Staging
  /\ source' = [source EXCEPT ![p] = @ + 1]
  /\ UNCHANGED <<Disk, run, staged, cleaner, Budget>>

Progress(r) ==
  \/ Stage(r) \/ VerifyStaged(r) \/ ProbeExisting(r) \/ ReadOldPair(r)
  \/ RequireBeforeMove(r) \/ MoveOldBinary(r) \/ MoveOldPayload(r)
  \/ PromoteBinary(r) \/ PromotePayload(r) \/ RecordPromoted(r) \/ Finish(r)
  \/ Undo(r)

Next ==
  \/ \E r \in Runs : \/ BeginPreparation(r) \/ Progress(r)
                     \/ OperationFails(r) \/ ForeignBackup(r) \/ Crash(r)
  \/ CleanBinaries \/ CleanPayload
  \/ \E p \in Parts : EditSource(p)

Spec == Init /\ [][Next]_vars

-----------------------------------------------------------------------------

\* Is run r between its reading of the old pair and its publication?
Replacing(r) == run[r].pc \in Moving \cup Undoing

OldBinaryKept(r) == run[r].oldBin \in {None, bin, run[r].backupBin}
OldPayloadKept(r) == run[r].oldPay \in {None, pay, run[r].backupPay}

\* A replacement that ends with an ordinary error has put back exactly the pair
\* it found; one that reports retained residue, or is killed, has both old
\* halves at the destination or in its recovery directory.
FailureRestores ==
  [][\A r \in Runs : Replacing(r) =>
       /\ run'[r].pc = "failed" => bin' = run[r].oldBin /\ pay' = run[r].oldPay
       /\ run'[r].pc \in {"residue", "crashed"} => (OldBinaryKept(r) /\ OldPayloadKept(r))']_vars

\* The bytes of a pair are the ones its manifest names.
TrueToManifest(b, p) ==
  /\ staged[p].manifest["runtime"] = staged[b].copied["runtime"]
  /\ staged[p].manifest["bound"] = staged[p].copied["bound"]

\* Nobody at work, nobody killed and nothing reported as retained: the
\* destination holds no pair or one whole pair, made by one run, whose manifest
\* is true of its bytes although the inputs may change while they are copied.
RestIsWhole ==
  (/\ ActiveCount = 0 /\ crashes = 0
   /\ \A r \in Runs : run[r].pc # "residue")
    => bin = pay /\ (bin # None => TrueToManifest(bin, pay))
=============================================================================
