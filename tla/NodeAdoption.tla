--------------------------- MODULE NodeAdoption ----------------------------
(***************************************************************************)
(* The download of the Node runtime (tools/node-runtime-authority.mjs):    *)
(* the signed checksums, the archive and the executable are authenticated  *)
(* in a staging directory and then linked one by one to final names that   *)
(* are never replaced; across file systems they are copied instead, into a *)
(* file made under the final name and filled there.  Several builds may do *)
(* so at the same time.                                                    *)
(***************************************************************************)
EXTENDS Naturals, Sequences

CONSTANTS Builds,    \* processes that download
          Entries,   \* the final names, in the order of adoption
          NoFile,      \* no file
          Others,    \* the owner of a file nobody here has made
          MaxOthers  \* bound on files placed by others

Names == {Entries[i] : i \in DOMAIN Entries}

VARIABLES final,  \* what each final name holds: who made it, and is it the authentic one
          build,  \* the state of each process
          others  \* how many files others have placed

adoptionVars == <<final, build, others>>

File(who, good) == [who |-> who, good |-> good]
Genuine(f) == f # NoFile /\ f.good

NodeInit ==
  /\ final \in [Names -> {NoFile, File(Others, TRUE), File(Others, FALSE)}]
  /\ build = [b \in Builds |-> [pc |-> "idle", next |-> 1, created |-> <<>>, how |-> NoFile]]
  /\ others = 0

-----------------------------------------------------------------------------
Set(b, new) == build' = [build EXCEPT ![b] = new]
Into(b, pc) == [build[b] EXCEPT !.pc = pc]

Cached == {Entries[1], Entries[2]}

\* readOptionalRegular of the cached checksums and archive: a pair is authenticated as it
\* is; if one of the two is missing both are fetched.
ReadCache(b) ==
  /\ build[b].pc = "idle"
  /\ Set(b, Into(b, IF NoFile \notin {final[n] : n \in Cached} /\ \E n \in Cached : ~final[n].good
                      THEN "failed" ELSE "verify"))
  /\ UNCHANGED <<final, others>>

\* verify: signature, checksums, archive, executable.  It may fail for reasons of its own.
Verify(b) ==
  /\ build[b].pc = "verify"
  /\ \E pc \in {"place", "failed"} : Set(b, Into(b, pc))
  /\ UNCHANGED <<final, others>>

Entry(b) == Entries[build[b].next]

\* The entry stands at its final name: it is among those to undo, and to be checked.
Adopted(b, how) ==
  /\ final' = [final EXCEPT ![Entry(b)] = File(b, TRUE)]
  /\ Set(b, [Into(b, "check") EXCEPT !.created = Append(@, Entry(b)), !.how = how])

\* placeNoClobber: a link, or EEXIST.
WrongPlace(b) == Adopted(b, "link")
Place(b) ==
  IF final[Entry(b)] = NoFile
    THEN Adopted(b, "link")
    ELSE /\ Set(b, [Into(b, "check") EXCEPT !.how = NoFile])
         /\ UNCHANGED final

\* EXDEV: writeNewFile makes the file, still empty, under the final name.  The staging
\* directory is in the directory of the cache, so only the executable may be elsewhere.
CreateCopy(b) ==
  /\ Entry(b) \notin Cached
  /\ final[Entry(b)] = NoFile
  /\ final' = [final EXCEPT ![Entry(b)] = File(b, FALSE)]
  /\ Set(b, Into(b, "copy"))

\* Any other error is thrown.
PlaceEntry(b) ==
  /\ build[b].pc = "place"
  /\ \/ Place(b)
     \/ CreateCopy(b)
     \/ Set(b, Into(b, "undo")) /\ UNCHANGED final
  /\ UNCHANGED others

\* writeNewFile writes it in as many pieces as it takes.  If that fails the name is not yet
\* among those to undo.
WriteCopy(b) ==
  /\ build[b].pc = "copy"
  /\ \/ Adopted(b, "copy")
     \/ Set(b, Into(b, "undo")) /\ UNCHANGED final
  /\ UNCHANGED others

\* requireAdopted: the final name holds the authentic bytes and, if this process made
\* it, still the file it made.
RequireAdopted(b) ==
  /\ build[b].pc = "check"
  /\ LET f == final[Entry(b)]
         ok == Genuine(f) /\ (build[b].how = "link" => f.who = b)
     IN Set(b, IF ~ok THEN Into(b, "undo")
               ELSE IF build[b].next = Len(Entries) THEN Into(b, "done")
               ELSE [Into(b, "place") EXCEPT !.next = @ + 1])
  /\ UNCHANGED <<final, others>>

\* The catch of adoptNoClobber: every name this call created is unlinked, newest first.
Undone(b) == build[b].created # <<>>
UndoAdoption(b) ==
  /\ build[b].pc = "undo"
  /\ IF Undone(b)
       THEN LET names == build[b].created
            IN /\ final' = [final EXCEPT ![names[Len(names)]] = NoFile]
               /\ Set(b, [build[b] EXCEPT !.created = SubSeq(names, 1, Len(names) - 1)])
       ELSE Set(b, Into(b, "failed")) /\ UNCHANGED final
  /\ UNCHANGED others

\* Somebody else puts a file where there is none.
OtherPlaces(n) ==
  /\ others < MaxOthers /\ final[n] = NoFile
  /\ others' = others + 1
  /\ \E good \in BOOLEAN : final' = [final EXCEPT ![n] = File(Others, good)]
  /\ UNCHANGED build

NodeNext ==
  \/ \E b \in Builds : \/ ReadCache(b) \/ Verify(b)
                       \/ PlaceEntry(b) \/ WriteCopy(b)
                       \/ RequireAdopted(b) \/ UndoAdoption(b)
  \/ \E n \in Names : OtherPlaces(n)

NodeSpec == NodeInit /\ [][NodeNext]_adoptionVars

-----------------------------------------------------------------------------
\* A build that failed has left no file of its own behind, but one that it could not fill:
\* less than "every final name created by this call is removed again"
\* (tools/node-runtime-authority.mjs:402), which a failing copy breaks.  And as long as no
\* other build fails a build that succeeded finds all files in place (adoptNoClobber).
Unfilled(b, n) == n = Entry(b) /\ ~final[n].good

WholeOrNothing ==
  /\ \A b \in Builds : build[b].pc = "failed" =>
       \A n \in Names : final[n] # NoFile /\ final[n].who = b => Unfilled(b, n)
  /\ (\E b \in Builds : build[b].pc = "done") /\ (\A b \in Builds : build[b].pc \notin {"undo", "failed"})
       => \A n \in Names : Genuine(final[n])

\* A file at a final name is only ever touched by the build that made it: to fill it, or
\* to take it away when it undoes its adoption (placeNoClobber, adoptNoClobber).
NeverReplaced ==
  [][\A n \in Names : final'[n] # final[n] /\ final[n] # NoFile =>
       \E b \in Builds :
         /\ final[n].who = b
         /\ \/ build[b].pc = "undo" /\ final'[n] = NoFile
            \/ build[b].pc = "copy" /\ ~final[n].good /\ final'[n] = File(b, TRUE)]_adoptionVars

\* "All or nothing, without ever replacing an existing file" for the three files of the
\* Node runtime (adoptNoClobber, placeNoClobber), up to a copy that cannot be filled.
AllOrNothing == []WholeOrNothing /\ NeverReplaced
=============================================================================
