-------------------------- MODULE WorkbenchProofs --------------------------
(***************************************************************************)
(* Proofs about the workbenches composed by MCWorkbenches.                 *)
(***************************************************************************)
EXTENDS MCWorkbenches, FiniteSets, FiniteSetTheorems, TLAPS

(***************************************************************************)
(* The theme workbench.                                                    *)
(*                                                                         *)
(* Every number the host, the loop or a call knows was given out by the    *)
(* page.  While the loop runs, the number it sends last is not older than  *)
(* the last edit.  While the user has asked for nothing but edits, every   *)
(* call that could replace the document is older than the latest number.   *)
(***************************************************************************)

\* Themes are numbers and the absence of one is none.
ThemesAreNumbers == None \notin Nat /\ Files \subseteq Nat /\ IsFiniteSet(Files)

Texts == {None} \cup Nat
NoneOrFile == {None} \cup Files

PageState ==
  [op : Nat, applied : Nat, spec : Texts, rev : Nat, preview : Nat, css : Texts, good : Texts,
   dirty : BOOLEAN, error : BOOLEAN, name : NoneOrFile, saveAs : BOOLEAN, valid : BOOLEAN,
   timer : {None} \cup [text : Texts, rev : Nat], pending : Texts, cand : BOOLEAN,
   verified : BOOLEAN, ask : Texts]

CallState ==
  [n : Nat,
   kind : {"example", "compile", "open", "save", "adopt", "preview", "packet"},
   rev : Nat, text : Texts,
   stage : {"sent", "waits", "picked", "running", "written", "answered"},
   file : NoneOrFile, mark : Nat, flag : BOOLEAN,
   answer : {"none", "good", "invalid", "failed", "cancelled", "confirm", "neutral"}]

HostState == [latest : Nat, dirty : BOOLEAN, file : NoneOrFile, mark : Nat]
DidState == [edits : Nat, acts : Nat, text : Nat, mine : Texts, told : Nat]
SyncState == [state : {"ok", "failed", "running"}, sent : Texts, want : Texts,
              answer : {"none", "ok", "refused"}]
DiskState == [Files -> [text : Texts, mtime : Nat]]

\* The file that is read or written.
FileKnown(c) ==
  c.kind \in {"open", "save"} /\ c.stage \in {"picked", "running", "written"} => c.file \in Files

ThemeTypeOK ==
  /\ page \in PageState /\ host \in HostState /\ did \in DidState
  /\ sync \in SyncState /\ disk \in DiskState
  /\ \A c \in calls : c \in CallState /\ FileKnown(c)

\* The page has given out every number.
NumbersAreOfPage ==
  /\ host.latest <= page.op /\ did.told <= page.op
  /\ sync.sent # None => sync.sent <= page.op
  /\ sync.want # None => sync.want <= page.op
  /\ \A c \in calls : c.rev <= page.op

\* What the loop sends last is not older than the last edit.
LoopInv ==
  /\ sync.state = "ok" => did.told <= host.latest
  /\ sync.state = "running" =>
       /\ sync.sent # None
       /\ did.told <= IF sync.want = None THEN sync.sent ELSE sync.want
       /\ sync.answer = "ok" => sync.sent <= host.latest

Replacing == {"example", "open", "adopt"}

DraftInv ==
  did.mine # None =>
    /\ page.spec = did.mine
    /\ \A c \in calls : c.kind \in Replacing => c.rev < page.op

ThemeInv == ThemeTypeOK /\ NumbersAreOfPage /\ LoopInv /\ DraftInv

LEMMA ThemeInvInit ==
  ASSUME ThemesAreNumbers, Theme!Init
  PROVE  ThemeInv
<1> USE DEF Theme!Init
<1>1. page \in PageState /\ page.op = 2
  BY DEF PageState, Texts, NoneOrFile
<1>2. host \in HostState /\ host.latest = 0
  BY DEF HostState, NoneOrFile
<1>3. did \in DidState /\ did.told = 0 /\ did.mine = None
  <2>1. Cardinality(Files) \in Nat
    BY FS_CardinalityType DEF ThemesAreNumbers
  <2>2. Theme!Cardinality(Files) = Cardinality(Files)
    BY DEF Theme!Cardinality, Cardinality
  <2> QED BY <2>1, <2>2 DEF DidState, Texts
<1>4. sync \in SyncState /\ sync.sent = None /\ sync.want = None /\ sync.state = "ok"
  BY DEF SyncState, Texts
<1>5. disk \in DiskState
  BY DEF DiskState, Texts, ThemesAreNumbers
<1>6. \A c \in calls : c \in CallState /\ c.rev = 2 /\ FileKnown(c)
  <2> DEFINE first == [n |-> 0, kind |-> "example", rev |-> 2, text |-> 0, stage |-> "sent",
                      file |-> None, mark |-> 0, flag |-> FALSE, answer |-> "none"]
  <2>1. first \in CallState /\ first.rev = 2 /\ FileKnown(first)
    BY DEF CallState, Texts, NoneOrFile, FileKnown
  <2>2. calls = {first}
    OBVIOUS
  <2> HIDE DEF first
  <2> QED BY <2>1, <2>2
<1> QED
  BY <1>1, <1>2, <1>3, <1>4, <1>5, <1>6
  DEF ThemeInv, ThemeTypeOK, NumbersAreOfPage, LoopInv, DraftInv

LEMMA ThemeStays ==
  ASSUME ThemeInv, UNCHANGED themeVars
  PROVE  ThemeInv'
BY DEF themeVars, ThemeInv, ThemeTypeOK, FileKnown, NumbersAreOfPage, LoopInv, DraftInv

(* The helpers of the page. *)

LEMMA BumpMoves ==
  ASSUME NEW p \in PageState
  PROVE  /\ Theme!Bump(p) \in PageState /\ Theme!Bump(p).op = p.op + 1
         /\ Theme!Bump(p).spec = p.spec
BY DEF Theme!Bump, PageState

LEMMA ScheduleMoves ==
  ASSUME NEW p \in PageState, NEW text \in Texts, NEW rev \in Nat
  PROVE  /\ Theme!Schedule(p, text, rev) \in PageState
         /\ Theme!Schedule(p, text, rev).op = p.op /\ Theme!Schedule(p, text, rev).spec = p.spec
BY DEF Theme!Schedule, PageState

LEMMA ResumeMoves ==
  ASSUME NEW p \in PageState
  PROVE  /\ Theme!Resume(p) \in PageState /\ Theme!Resume(p).op \in {p.op, p.op + 1}
         /\ Theme!Resume(p).spec = p.spec
<1>1. CASE p.pending = None
  BY <1>1 DEF Theme!Resume
<1>2. CASE p.pending # None
  <2> DEFINE q == [Theme!Bump(p) EXCEPT !.rev = p.op + 1]
  <2>1. p.op + 1 \in Nat /\ p.pending \in Texts
    BY DEF PageState
  <2>2. q \in PageState /\ q.op = p.op + 1 /\ q.spec = p.spec
    BY <2>1, BumpMoves DEF PageState
  <2>3. Theme!Resume(p) = Theme!Schedule(q, p.pending, p.op + 1)
    BY <1>2 DEF Theme!Resume
  <2> HIDE DEF q
  <2> QED BY <2>1, <2>2, <2>3, ScheduleMoves
<1> QED BY <1>1, <1>2

LEMMA CompileFailsMoves ==
  ASSUME NEW p \in PageState
  PROVE  /\ Theme!CompileFails(p) \in PageState /\ Theme!CompileFails(p).op = p.op
         /\ Theme!CompileFails(p).spec = p.spec
BY DEF Theme!CompileFails, PageState, Texts

LEMMA AdoptedMoves ==
  ASSUME NEW p \in PageState, NEW c \in CallState
  PROVE  Theme!Adopted(p, c) \in PageState /\ Theme!Adopted(p, c).op = p.op
BY DEF Theme!Adopted, PageState, CallState, Texts

LEMMA CallIsCall ==
  ASSUME ThemeTypeOK, NEW rev \in Nat, NEW text \in Texts,
         NEW kind \in {"example", "compile", "open", "save", "adopt", "preview", "packet"}
  PROVE  /\ Theme!Call(kind, rev, text) \in CallState
         /\ Theme!Call(kind, rev, text).kind = kind /\ Theme!Call(kind, rev, text).rev = rev
         /\ Theme!Call(kind, rev, text).stage = "sent"
BY DEF Theme!Call, CallState, ThemeTypeOK, DidState, NoneOrFile

LEMMA WaitingIsCall ==
  ASSUME NEW c \in CallState
  PROVE  /\ Theme!Waiting(c) \in CallState /\ Theme!Waiting(c).stage \in {"waits", "sent"}
         /\ Theme!Waiting(c).kind = c.kind /\ Theme!Waiting(c).rev = c.rev
BY DEF Theme!Waiting, CallState

\* A call of the page's numbers, that does not replace the document unless the user asked.
Fits(c) == /\ c \in CallState /\ FileKnown(c) /\ c.rev <= page'.op
           /\ c.kind \in Replacing => did'.mine = None

\* The page goes on without an edit.
LEMMA PageKeeps ==
  ASSUME ThemeInv, page' \in PageState, page'.op >= page.op,
         did' \in DidState, did'.told = did.told, did'.mine \in {None, did.mine},
         did'.mine # None => page'.spec = page.spec,
         \A c \in calls' : c \in calls \/ Fits(c),
         UNCHANGED <<sync, host, disk>>
  PROVE  ThemeInv'
<1>1. page.op \in Nat /\ page'.op \in Nat /\ \A c \in calls : c.rev \in Nat
  BY DEF ThemeInv, ThemeTypeOK, PageState, CallState
<1>2. host.latest \in Nat /\ did.told \in Nat /\ sync.sent \in Texts /\ sync.want \in Texts
  BY DEF ThemeInv, ThemeTypeOK, HostState, DidState, SyncState
<1>3. ThemeTypeOK'
  BY DEF ThemeInv, ThemeTypeOK, Fits
<1>4. NumbersAreOfPage'
  BY <1>1, <1>2 DEF ThemeInv, NumbersAreOfPage, Fits, Texts
<1>5. LoopInv'
  BY DEF ThemeInv, LoopInv
<1>6. DraftInv'
  <2> SUFFICES ASSUME did'.mine # None
               PROVE  /\ page'.spec = did'.mine
                      /\ \A c \in calls' : c.kind \in Replacing => c.rev < page'.op
    BY DEF DraftInv
  <2>1. /\ page.spec = did.mine /\ did'.mine = did.mine
        /\ \A c \in calls : c.kind \in Replacing => c.rev < page.op
    BY DEF ThemeInv, DraftInv
  <2> QED BY <1>1, <2>1 DEF Fits
<1> QED BY <1>3, <1>4, <1>5, <1>6 DEF ThemeInv

\* An edit: the loop is told its number.
LEMMA EditKeeps ==
  ASSUME ThemesAreNumbers, ThemeInv, page' \in PageState, page'.op = page.op + 1,
         Theme!Invalidate(page.op + 1), did' \in DidState, did'.told = page.op + 1,
         did'.mine # None => page'.spec = did'.mine,
         UNCHANGED <<host, disk, calls>>
  PROVE  ThemeInv'
<1>1. /\ page.op \in Nat /\ page.op + 1 \in Nat /\ page.op + 1 # None
      /\ \A c \in calls : c.rev \in Nat /\ c.rev <= page.op
  BY DEF ThemeInv, ThemeTypeOK, PageState, CallState, NumbersAreOfPage, ThemesAreNumbers
<1>2. /\ host.latest \in Nat /\ sync \in SyncState /\ host.latest <= page.op
      /\ sync.sent # None => sync.sent \in Nat /\ sync.sent <= page.op
      /\ sync.want # None => sync.want \in Nat /\ sync.want <= page.op
  BY DEF ThemeInv, ThemeTypeOK, HostState, SyncState, NumbersAreOfPage, Texts
<1>3. CASE sync.state = "running"
  <2>1. /\ sync' \in SyncState /\ sync'.state = sync.state /\ sync'.sent = sync.sent
        /\ sync'.want = page.op + 1 /\ sync'.answer = sync.answer
    BY <1>1, <1>2, <1>3 DEF Theme!Invalidate, SyncState, Texts
  <2>2. ThemeTypeOK'
    BY <2>1 DEF ThemeInv, ThemeTypeOK
  <2>3. NumbersAreOfPage'
    BY <1>1, <1>2, <2>1 DEF NumbersAreOfPage
  <2>4. LoopInv'
    BY <1>1, <1>3, <2>1 DEF ThemeInv, LoopInv
  <2>5. DraftInv'
    BY <1>1 DEF DraftInv
  <2> QED BY <2>2, <2>3, <2>4, <2>5 DEF ThemeInv
<1>4. CASE sync.state # "running"
  <2>1. /\ sync' \in SyncState /\ sync'.state = "running" /\ sync'.sent = page.op + 1
        /\ sync'.want = None /\ sync'.answer = "none"
    BY <1>1, <1>4 DEF Theme!Invalidate, SyncState, Texts
  <2>2. ThemeTypeOK'
    BY <2>1 DEF ThemeInv, ThemeTypeOK
  <2>3. NumbersAreOfPage'
    BY <1>1, <1>2, <2>1 DEF NumbersAreOfPage
  <2>4. LoopInv'
    BY <1>1, <2>1 DEF LoopInv
  <2>5. DraftInv'
    BY <1>1 DEF DraftInv
  <2> QED BY <2>2, <2>3, <2>4, <2>5 DEF ThemeInv
<1> QED BY <1>3, <1>4

\* The host serves a call; it may learn the number of one.
LEMMA ServeKeeps ==
  ASSUME ThemeInv, UNCHANGED <<page, sync, did>>, host' \in HostState, disk' \in DiskState,
         host'.latest = host.latest \/ (host'.latest > host.latest /\ host'.latest <= page.op),
         NEW c \in calls, NEW d \in CallState, FileKnown(d), d.kind = c.kind,
         d.rev = c.rev, Theme!Becomes(c, d)
  PROVE  ThemeInv'
<1>1. /\ page.op \in Nat /\ host.latest \in Nat /\ host'.latest \in Nat /\ did.told \in Nat
      /\ sync.sent \in Texts
  BY DEF ThemeInv, ThemeTypeOK, PageState, HostState, DidState, SyncState
<1>2. \A e \in calls' : e \in calls \/ e = d
  BY DEF Theme!Becomes
<1>3. ThemeTypeOK'
  BY <1>2 DEF ThemeInv, ThemeTypeOK
<1>4. NumbersAreOfPage'
  BY <1>1, <1>2 DEF ThemeInv, NumbersAreOfPage
<1>5. LoopInv'
  <2>1. sync.state = "running" /\ sync.answer = "ok" => sync.sent \in Nat /\ sync.sent <= host.latest
    BY <1>1 DEF ThemeInv, LoopInv, Texts
  <2> QED BY <1>1, <2>1 DEF ThemeInv, LoopInv
<1>6. DraftInv'
  BY <1>2 DEF ThemeInv, DraftInv
<1> QED BY <1>3, <1>4, <1>5, <1>6 DEF ThemeInv

(* The user. *)

LEMMA CountMoves ==
  ASSUME ThemeInv
  PROVE  /\ [did EXCEPT !.acts = @ + 1] \in DidState
         /\ [did EXCEPT !.acts = @ + 1].told = did.told
         /\ [did EXCEPT !.acts = @ + 1].mine = did.mine
         /\ [did EXCEPT !.acts = @ + 1, !.mine = None] \in DidState
         /\ [did EXCEPT !.acts = @ + 1, !.mine = None].told = did.told
         /\ [did EXCEPT !.acts = @ + 1, !.mine = None].mine = None
<1>1. did \in DidState /\ did.acts \in Nat /\ did.acts + 1 \in Nat /\ None \in Texts
  BY DEF ThemeInv, ThemeTypeOK, DidState, Texts
<1>2. /\ [did EXCEPT !.acts = @ + 1] \in DidState
      /\ [did EXCEPT !.acts = @ + 1].told = did.told
      /\ [did EXCEPT !.acts = @ + 1].mine = did.mine
  BY <1>1 DEF DidState
<1>3. [did EXCEPT !.acts = @ + 1, !.mine = None] \in DidState
  BY <1>1 DEF DidState
<1>4. /\ [did EXCEPT !.acts = @ + 1, !.mine = None].told = did.told
      /\ [did EXCEPT !.acts = @ + 1, !.mine = None].mine = None
  BY <1>1 DEF DidState
<1> QED BY <1>2, <1>3, <1>4

LEMMA EditedMoves ==
  ASSUME NEW p \in PageState, NEW text \in Texts, NEW rev \in Nat, NEW as \in BOOLEAN,
         NEW name \in NoneOrFile, NEW valid \in BOOLEAN
  PROVE  [p EXCEPT !.spec = text, !.dirty = TRUE, !.rev = rev, !.css = None, !.error = FALSE,
                   !.cand = FALSE, !.verified = FALSE, !.ask = None, !.valid = valid,
                   !.saveAs = as, !.name = name] \in PageState
<1> None \in Texts
  BY DEF Texts
<1> QED BY DEF PageState

LEMMA Edits ==
  ASSUME ThemesAreNumbers, ThemeInv, Theme!Edit \/ Theme!FieldInvalid
  PROVE  ThemeInv'
<1>1. page \in PageState /\ page.op \in Nat /\ page.op + 1 \in Nat /\ did \in DidState
  BY DEF ThemeInv, ThemeTypeOK, PageState
<1>2. Theme!Bump(page) \in PageState /\ Theme!Bump(page).op = page.op + 1
      /\ Theme!Bump(page).spec = page.spec
  BY <1>1, BumpMoves
<1>3. CASE Theme!Edit
  <2> DEFINE text == did.text + 1
             rev == page.op + 1
             kept(new, mended) ==
                          [Theme!Bump(page) EXCEPT !.spec = text, !.dirty = TRUE, !.rev = rev,
                             !.css = None, !.error = FALSE, !.cand = FALSE, !.verified = FALSE,
                             !.ask = None, !.valid = @ \/ new \/ mended, !.saveAs = @ \/ new,
                             !.name = IF new THEN None ELSE @]
  <2>1. PICK new \in BOOLEAN, mended \in BOOLEAN :
           page' = Theme!Schedule(kept(new, mended), text, rev)
    BY <1>3 DEF Theme!Edit
  <2>2. /\ Theme!Invalidate(rev) /\ UNCHANGED <<host, disk, calls>>
        /\ did' = [did EXCEPT !.edits = @ + 1, !.text = text, !.mine = text, !.told = rev]
    BY <1>3 DEF Theme!Edit
  <2>3. text \in Nat /\ text \in Texts
    BY <1>1 DEF DidState, Texts
  <2>4. did' \in DidState /\ did'.told = rev /\ did'.mine = text
    <3>1. did.edits + 1 \in Nat
      BY <1>1 DEF DidState
    <3>2. did' \in DidState
      BY <1>1, <2>2, <2>3, <3>1 DEF DidState
    <3> QED BY <1>1, <2>2, <3>2 DEF DidState
  <2>5. LET p == kept(new, mended) IN p \in PageState /\ p.op = rev /\ p.spec = text
    <3> DEFINE as == Theme!Bump(page).saveAs \/ new
               name == IF new THEN None ELSE Theme!Bump(page).name
               valid == Theme!Bump(page).valid \/ new \/ mended
    <3>1. as \in BOOLEAN /\ valid \in BOOLEAN /\ name \in NoneOrFile /\ None \in Texts
      BY <1>2 DEF PageState, NoneOrFile, Texts
    <3>2. kept(new, mended) = [Theme!Bump(page) EXCEPT !.spec = text, !.dirty = TRUE, !.rev = rev,
                         !.css = None, !.error = FALSE, !.cand = FALSE, !.verified = FALSE,
                         !.ask = None, !.valid = valid, !.saveAs = as, !.name = name]
      OBVIOUS
    <3>3. rev \in Nat /\ Theme!Bump(page).op = rev
      BY <1>1, <1>2
    <3> HIDE DEF as, name, valid, kept, text, rev
    <3>4. [Theme!Bump(page) EXCEPT !.spec = text, !.dirty = TRUE, !.rev = rev, !.css = None,
             !.error = FALSE, !.cand = FALSE, !.verified = FALSE, !.ask = None, !.valid = valid,
             !.saveAs = as, !.name = name] \in PageState
      BY <1>2, <2>3, <3>1, <3>3, EditedMoves
    <3>5. kept(new, mended).op = rev /\ kept(new, mended).spec = text
      BY <1>2, <3>2, <3>3 DEF PageState
    <3> QED BY <3>2, <3>4, <3>5
  <2> HIDE DEF text, kept
  <2>6. page' \in PageState /\ page'.op = page.op + 1 /\ page'.spec = text
    BY <1>1, <2>1, <2>3, <2>5, ScheduleMoves
  <2> QED BY <2>2, <2>4, <2>6, EditKeeps
<1>4. CASE Theme!FieldInvalid
  <2>1. /\ page' = [Theme!Bump(page) EXCEPT !.valid = FALSE, !.timer = None, !.pending = None,
                      !.dirty = TRUE, !.rev = page.op + 1, !.css = None, !.cand = FALSE,
                      !.verified = FALSE]
        /\ Theme!Invalidate(page.op + 1) /\ UNCHANGED <<host, disk, calls>>
        /\ did' = [did EXCEPT !.edits = @ + 1, !.told = page.op + 1]
    BY <1>4 DEF Theme!FieldInvalid
  <2>2. did' \in DidState /\ did'.told = page.op + 1 /\ did'.mine = did.mine
    <3>1. did.edits + 1 \in Nat
      BY <1>1 DEF DidState
    <3> QED BY <1>1, <2>1, <3>1 DEF DidState
  <2>3. page' \in PageState /\ page'.op = page.op + 1 /\ page'.spec = page.spec
    BY <1>1, <1>2, <2>1 DEF PageState, Texts
  <2>4. did'.mine # None => page'.spec = did'.mine
    BY <2>2, <2>3 DEF ThemeInv, DraftInv
  <2> QED BY <2>1, <2>2, <2>3, <2>4, EditKeeps
<1> QED BY <1>3, <1>4

\* executeCompile asks for at most one compile.
LEMMA CompileMoves ==
  ASSUME ThemeInv, NEW p \in PageState, NEW text \in Texts, NEW rev \in Nat,
         Theme!ExecuteCompile(p, text, rev), p.op >= page.op
  PROVE  /\ page' \in PageState /\ page'.op = p.op /\ page'.spec = p.spec
         /\ \A c \in calls' : c \in calls \/ Fits(c)
<1>1. page' \in PageState /\ page'.op = p.op /\ page'.spec = p.spec
  BY CompileFailsMoves DEF Theme!ExecuteCompile
<1>2. CASE UNCHANGED calls
  BY <1>1, <1>2
<1>3. CASE ~UNCHANGED calls
  <2> DEFINE c == Theme!Waiting(Theme!Call("compile", rev, text))
  <2>1. rev = p.op /\ calls' = calls \cup {c}
    BY <1>3 DEF Theme!ExecuteCompile
  <2>2. c \in CallState /\ c.kind = "compile" /\ c.rev = rev /\ FileKnown(c)
    BY CallIsCall, WaitingIsCall DEF ThemeInv, FileKnown
  <2> HIDE DEF c
  <2>3. rev <= page'.op
    BY <1>1, <2>1
  <2>4. Fits(c)
    BY <2>2, <2>3 DEF Fits, Replacing
  <2> QED BY <1>1, <2>1, <2>4
<1> QED BY <1>2, <1>3

LEMMA Compiles ==
  ASSUME ThemeInv, Theme!TimerFires \/ Theme!ManualCompile
  PROVE  ThemeInv'
<1>1. page \in PageState /\ page.op \in Nat /\ page.op + 1 \in Nat /\ did \in DidState
  BY DEF ThemeInv, ThemeTypeOK, PageState
<1>2. CASE Theme!TimerFires
  <2> DEFINE p == [page EXCEPT !.timer = None]
  <2>1. /\ Theme!ExecuteCompile(p, page.timer.text, page.timer.rev)
        /\ page.timer # None /\ UNCHANGED <<sync, host, disk, did>>
    BY <1>2 DEF Theme!TimerFires
  <2>2. p \in PageState /\ p.op = page.op /\ p.spec = page.spec
    BY <1>1 DEF PageState
  <2>3. page.timer.text \in Texts /\ page.timer.rev \in Nat
    BY <1>1, <2>1 DEF PageState
  <2> HIDE DEF p
  <2>4. /\ page' \in PageState /\ page'.op = page.op /\ page'.spec = page.spec
        /\ \A c \in calls' : c \in calls \/ Fits(c)
    BY <1>1, <2>1, <2>2, <2>3, CompileMoves
  <2> QED BY <1>1, <2>1, <2>4, PageKeeps
<1>3. CASE Theme!ManualCompile
  <2> DEFINE rev == page.op + 1
             p == [Theme!Bump(page) EXCEPT !.timer = None, !.rev = rev, !.pending = page.spec]
  <2>1. /\ Theme!ExecuteCompile(p, page.spec, rev) /\ UNCHANGED <<sync, host, disk>>
        /\ did' = [did EXCEPT !.acts = @ + 1]
    BY <1>3 DEF Theme!ManualCompile
  <2>2. Theme!Bump(page) \in PageState /\ Theme!Bump(page).op = rev
        /\ Theme!Bump(page).spec = page.spec /\ page.spec \in Texts
    BY <1>1, BumpMoves DEF PageState
  <2>3. p \in PageState /\ p.op = rev /\ p.spec = page.spec
    BY <1>1, <2>2 DEF PageState
  <2> HIDE DEF p
  <2>4. /\ page' \in PageState /\ page'.op = page.op + 1 /\ page'.spec = page.spec
        /\ \A c \in calls' : c \in calls \/ Fits(c)
    BY <1>1, <2>1, <2>2, <2>3, CompileMoves
  <2> QED BY <1>1, <2>1, <2>4, CountMoves, PageKeeps
<1> QED BY <1>2, <1>3

\* The user asks for another document.
LEMMA Replaces ==
  ASSUME ThemeInv, Theme!LoadExample \/ Theme!Open
  PROVE  ThemeInv'
<1> DEFINE asked == [Theme!Bump(page) EXCEPT !.timer = None]
<1>1. page \in PageState /\ page.op \in Nat /\ page.op + 1 \in Nat
      /\ 0 \in Texts /\ None \in Texts
  BY DEF ThemeInv, ThemeTypeOK, PageState, Texts
<1>2. /\ asked \in PageState /\ asked.op = page.op + 1
      /\ [asked EXCEPT !.error = TRUE] \in PageState /\ [asked EXCEPT !.error = TRUE].op = page.op + 1
  <2>1. Theme!Bump(page) \in PageState /\ Theme!Bump(page).op = page.op + 1
    BY <1>1, BumpMoves
  <2> HIDE DEF asked
  <2>2. asked \in PageState /\ asked.op = page.op + 1
    BY <2>1 DEF PageState, asked
  <2> QED BY <2>2 DEF PageState
<1>3. did' \in DidState /\ did'.told = did.told /\ did'.mine = None /\ UNCHANGED <<sync, host, disk>>
  BY CountMoves DEF Theme!LoadExample, Theme!Open, Theme!Replace
<1>4. \/ page' = asked \/ page' = [asked EXCEPT !.error = TRUE]
  BY DEF Theme!LoadExample, Theme!Open
<1> HIDE DEF asked
<1>5. page' \in PageState /\ page'.op = page.op + 1
  BY <1>2, <1>4
<1> DEFINE example == Theme!Call("example", page.op + 1, 0)
           open == Theme!Waiting(Theme!Call("open", page.op + 1, None))
<1>6. /\ example \in CallState /\ example.rev = page.op + 1 /\ FileKnown(example)
      /\ open \in CallState /\ open.rev = page.op + 1 /\ FileKnown(open)
  BY <1>1, CallIsCall, WaitingIsCall DEF ThemeInv, FileKnown
<1>7. \A c \in calls' : c \in calls \/ c = example \/ c = open
  BY DEF Theme!LoadExample, Theme!Open
<1> HIDE DEF example, open
<1>8. \A c \in calls' : c \in calls \/ Fits(c)
  BY <1>1, <1>3, <1>5, <1>6, <1>7 DEF Fits
<1> QED BY <1>1, <1>3, <1>5, <1>8, PageKeeps

LEMMA Saves ==
  ASSUME ThemeInv, Theme!Save
  PROVE  ThemeInv'
<1>1. page \in PageState /\ page.op \in Nat /\ page.spec \in Texts /\ page.saveAs \in BOOLEAN
  BY DEF ThemeInv, ThemeTypeOK, PageState
<1>2. page' = page \/ page' = [page EXCEPT !.error = TRUE]
  BY DEF Theme!Save
<1>3. page' \in PageState /\ page'.op = page.op /\ page'.spec = page.spec
  BY <1>1, <1>2 DEF PageState
<1>4. did' \in DidState /\ did'.told = did.told /\ did'.mine = did.mine
      /\ UNCHANGED <<sync, host, disk>>
  BY CountMoves DEF Theme!Save
<1> DEFINE w == Theme!Waiting(Theme!Call("save", page.op, page.spec))
<1>5. w \in CallState /\ w.kind = "save" /\ w.rev = page.op /\ w.stage \in {"waits", "sent"}
  BY <1>1, CallIsCall, WaitingIsCall DEF ThemeInv
<1>6. \E as \in BOOLEAN : \A c \in calls' : c \in calls \/ c = [w EXCEPT !.flag = as \/ page.saveAs]
  BY DEF Theme!Save
<1> HIDE DEF w
<1>7. PICK as \in BOOLEAN : \A c \in calls' : c \in calls \/ c = [w EXCEPT !.flag = as \/ page.saveAs]
  BY <1>6
<1> DEFINE v == [w EXCEPT !.flag = as \/ page.saveAs]
<1>8. (as \/ page.saveAs) \in BOOLEAN
  BY <1>1
<1>9. v \in CallState /\ v.kind = "save" /\ v.rev = page.op /\ FileKnown(v)
  BY <1>5, <1>8 DEF CallState, FileKnown
<1> HIDE DEF v
<1>10. Fits(v)
  BY <1>1, <1>3, <1>9 DEF Fits, Replacing
<1>11. \A c \in calls' : c \in calls \/ Fits(c)
  BY <1>7, <1>10 DEF v
<1> QED BY <1>1, <1>3, <1>4, <1>11, PageKeeps

LEMMA Adopts ==
  ASSUME ThemeInv, Theme!Adopt \/ Theme!ConfirmAdopt
  PROVE  ThemeInv'
<1>1. page \in PageState /\ page.op \in Nat /\ page.op + 1 \in Nat /\ did \in DidState
  BY DEF ThemeInv, ThemeTypeOK, PageState
<1>2. UNCHANGED <<sync, host, disk>>
  BY DEF Theme!Adopt, Theme!ConfirmAdopt
<1>3. \/ \E force \in BOOLEAN : Theme!SendAdopt(force)
      \/ /\ page' = [page EXCEPT !.ask = page.op] /\ UNCHANGED calls
         /\ did' = [did EXCEPT !.acts = @ + 1]
      \/ page' = [page EXCEPT !.ask = None, !.error = TRUE] /\ UNCHANGED <<calls, did>>
  BY DEF Theme!Adopt, Theme!ConfirmAdopt
<1>4. ASSUME NEW force \in BOOLEAN, Theme!SendAdopt(force) PROVE ThemeInv'
  <2> DEFINE c == Theme!Call("adopt", page.op + 1, did.text + 1)
             d == [c EXCEPT !.flag = force]
  <2>1. /\ page' = [Theme!Bump(page) EXCEPT !.timer = None, !.ask = None]
        /\ calls' = calls \cup {d}
        /\ did' = [did EXCEPT !.acts = @ + 1, !.mine = None, !.text = @ + 1]
    BY <1>4 DEF Theme!SendAdopt
  <2>2. c \in CallState /\ c.rev = page.op + 1 /\ c.stage = "sent"
    <3>1. did.text + 1 \in Texts
      BY <1>1 DEF DidState, Texts
    <3> QED BY <1>1, <3>1, CallIsCall DEF ThemeInv
  <2> HIDE DEF c
  <2>3. d \in CallState /\ d.rev = page.op + 1 /\ FileKnown(d)
    BY <1>4, <2>2 DEF CallState, FileKnown
  <2> HIDE DEF d
  <2>4. Theme!Bump(page) \in PageState /\ Theme!Bump(page).op = page.op + 1
    BY <1>1, BumpMoves
  <2>5. page' \in PageState /\ page'.op = page.op + 1
    BY <2>1, <2>4 DEF PageState, Texts
  <2>6. did' \in DidState /\ did'.told = did.told /\ did'.mine = None
    <3>1. did.acts + 1 \in Nat /\ did.text + 1 \in Nat /\ None \in Texts
      BY <1>1 DEF DidState, Texts
    <3>2. did' \in DidState
      BY <1>1, <2>1, <3>1 DEF DidState
    <3> QED BY <1>1, <2>1, <3>2 DEF DidState
  <2>7. \A e \in calls' : e \in calls \/ Fits(e)
    BY <1>1, <2>1, <2>3, <2>5, <2>6 DEF Fits
  <2> QED BY <1>1, <1>2, <2>5, <2>6, <2>7, PageKeeps
<1>5. CASE /\ page' = [page EXCEPT !.ask = page.op] /\ UNCHANGED calls
           /\ did' = [did EXCEPT !.acts = @ + 1]
  <2>1. page' \in PageState /\ page'.op = page.op /\ page'.spec = page.spec
    BY <1>1, <1>5 DEF PageState, Texts
  <2> QED BY <1>1, <1>2, <1>5, <2>1, CountMoves, PageKeeps
<1>6. CASE page' = [page EXCEPT !.ask = None, !.error = TRUE] /\ UNCHANGED <<calls, did>>
  <2>1. page' \in PageState /\ page'.op = page.op /\ page'.spec = page.spec
    BY <1>1, <1>6 DEF PageState, Texts
  <2> QED BY <1>1, <1>2, <1>6, <2>1, PageKeeps
<1> QED BY <1>3, <1>4, <1>5, <1>6

LEMMA Candidates ==
  ASSUME ThemeInv,
         Theme!LeaveCandidate \/ \E kind \in {"preview", "packet"} : Theme!Exchange(kind)
  PROVE  ThemeInv'
<1>1. page \in PageState /\ page.op \in Nat /\ page.op + 1 \in Nat /\ None \in Texts
  BY DEF ThemeInv, ThemeTypeOK, PageState, Texts
<1>2. Theme!Bump(page) \in PageState /\ Theme!Bump(page).op = page.op + 1
      /\ Theme!Bump(page).spec = page.spec
  BY <1>1, BumpMoves
<1>3. did' \in DidState /\ did'.told = did.told /\ did'.mine = did.mine
      /\ UNCHANGED <<sync, host, disk>>
  BY CountMoves DEF Theme!LeaveCandidate, Theme!Exchange
<1>4. CASE Theme!LeaveCandidate
  <2> DEFINE p(select) == [Theme!Bump(page) EXCEPT !.cand = FALSE, !.preview = page.op + 1,
                                                   !.verified = @ /\ ~select]
  <2>1. PICK select \in BOOLEAN : page' = Theme!Resume(p(select)) /\ UNCHANGED calls
    BY <1>4 DEF Theme!LeaveCandidate
  <2>2. p(select) \in PageState /\ p(select).op = page.op + 1 /\ p(select).spec = page.spec
    <3>1. (Theme!Bump(page).verified /\ ~select) \in BOOLEAN
      OBVIOUS
    <3> QED BY <1>1, <1>2, <3>1 DEF PageState
  <2> HIDE DEF p
  <2>3. page' \in PageState /\ page'.op >= page.op /\ page'.spec = page.spec
    BY <1>1, <2>1, <2>2, ResumeMoves
  <2> QED BY <1>3, <2>1, <2>3, PageKeeps
<1>5. ASSUME NEW kind \in {"preview", "packet"}, Theme!Exchange(kind) PROVE ThemeInv'
  <2> DEFINE c == Theme!Call(kind, page.op + 1, None)
  <2>1. page' = Theme!Bump(page) /\ calls' = calls \cup {c}
    BY <1>5 DEF Theme!Exchange
  <2>2. c \in CallState /\ c.kind = kind /\ c.rev = page.op + 1 /\ FileKnown(c)
    BY <1>1, CallIsCall DEF ThemeInv, FileKnown
  <2> HIDE DEF c
  <2>3. \A e \in calls' : e \in calls \/ Fits(e)
    BY <1>1, <1>2, <2>1, <2>2 DEF Fits, Replacing
  <2> QED BY <1>1, <1>2, <1>3, <2>1, <2>3, PageKeeps
<1> QED BY <1>4, <1>5

(* The host. *)

LEMMA ToMoves ==
  ASSUME NEW c \in CallState
  PROVE  /\ \A stage \in {"sent", "picked", "running", "written"} :
              /\ Theme!To(c, stage) \in CallState
              /\ Theme!To(c, stage).kind = c.kind /\ Theme!To(c, stage).rev = c.rev
              /\ Theme!To(c, stage).stage = stage /\ Theme!To(c, stage).file = c.file
         /\ \A answer \in {"good", "invalid", "failed", "cancelled", "confirm", "neutral"} :
              /\ Theme!Answered(c, answer) \in CallState
              /\ Theme!Answered(c, answer).kind = c.kind /\ Theme!Answered(c, answer).rev = c.rev
              /\ Theme!Answered(c, answer).stage = "answered"
BY DEF Theme!To, Theme!Answered, CallState

\* A successor of a call: the same kind and number.
Goes(c) == \E d \in CallState : FileKnown(d) /\ d.kind = c.kind /\ d.rev = c.rev /\ Theme!Becomes(c, d)

LEMMA AnsweredGoes ==
  ASSUME ThemeInv, NEW c \in calls,
         NEW answer \in {"good", "invalid", "failed", "cancelled", "confirm", "neutral"},
         Theme!Becomes(c, Theme!Answered(c, answer))
  PROVE  Goes(c)
BY ToMoves DEF ThemeInv, ThemeTypeOK, Goes, FileKnown

LEMMA ToGoes ==
  ASSUME ThemeInv, NEW c \in calls, NEW stage \in {"picked", "running"},
         c.kind \in {"open", "save"} => c.file \in Files,
         Theme!Becomes(c, Theme!To(c, stage))
  PROVE  Goes(c)
BY ToMoves DEF ThemeInv, ThemeTypeOK, Goes, FileKnown

LEMMA PickedGoes ==
  ASSUME ThemeInv, NEW c \in calls, NEW f \in Files,
         Theme!Becomes(c, [Theme!To(c, "picked") EXCEPT !.file = f])
  PROVE  Goes(c)
<1> DEFINE t == Theme!To(c, "picked")
           d == [t EXCEPT !.file = f]
<1>1. t \in CallState /\ t.kind = c.kind /\ t.rev = c.rev /\ f \in NoneOrFile
  BY ToMoves DEF ThemeInv, ThemeTypeOK, NoneOrFile
<1> HIDE DEF t
<1>2. d \in CallState /\ d.kind = c.kind /\ d.rev = c.rev /\ FileKnown(d)
  BY <1>1 DEF CallState, FileKnown
<1> QED BY <1>2 DEF Goes, t

LEMMA ServeGoes ==
  ASSUME ThemeInv, NEW c \in calls, Goes(c), UNCHANGED <<page, sync, did>>,
         host' \in HostState, disk' \in DiskState,
         host'.latest = host.latest \/ (host'.latest > host.latest /\ host'.latest <= page.op)
  PROVE  ThemeInv'
BY ServeKeeps DEF Goes

LEMMA ServeCompileKeeps ==
  ASSUME ThemeInv, NEW c \in calls, Theme!ServeCompile(c)
  PROVE  ThemeInv'
<1>1. /\ c \in CallState /\ c.rev \in Nat /\ c.rev <= page.op /\ host \in HostState
      /\ host.latest \in Nat /\ disk \in DiskState
  BY DEF ThemeInv, ThemeTypeOK, NumbersAreOfPage, CallState, HostState
<1>2. UNCHANGED <<page, sync, did>> /\ disk' = disk /\ c.kind \in {"compile", "example"}
  BY DEF Theme!ServeCompile
<1>3. CASE c.stage = "sent"
  <2>1. /\ host' = [host EXCEPT !.latest = IF Theme!Behind(c) THEN @ ELSE c.rev]
        /\ Theme!Becomes(c, IF Theme!Behind(c) THEN Theme!Answered(c, "invalid")
                            ELSE Theme!To(c, "running"))
    BY <1>3 DEF Theme!ServeCompile
  <2>2. /\ host' \in HostState
        /\ host'.latest = host.latest \/ (host'.latest > host.latest /\ host'.latest <= page.op)
    BY <1>1, <2>1 DEF HostState, Theme!Behind
  <2>3. Goes(c)
    BY <1>2, <2>1, AnsweredGoes, ToGoes
  <2> QED BY <1>1, <1>2, <2>2, <2>3, ServeGoes
<1>4. CASE c.stage # "sent"
  <2>1. \/ host' = host \/ host' = [host EXCEPT !.dirty = TRUE]
        \/ host' = [host EXCEPT !.file = None, !.dirty = FALSE]
    BY <1>4 DEF Theme!ServeCompile
  <2>2. host' \in HostState /\ host'.latest = host.latest
    BY <1>1, <2>1 DEF HostState, NoneOrFile
  <2>3. Goes(c)
    BY <1>4, AnsweredGoes DEF Theme!ServeCompile
  <2> QED BY <1>1, <1>2, <2>2, <2>3, ServeGoes
<1> QED BY <1>3, <1>4

LEMMA ServeOpenKeeps ==
  ASSUME ThemeInv, NEW c \in calls, Theme!ServeOpen(c)
  PROVE  ThemeInv'
<1>1. /\ c \in CallState /\ c.file \in NoneOrFile /\ c.mark \in Nat /\ host \in HostState
      /\ host.latest \in Nat /\ disk \in DiskState /\ FileKnown(c)
  BY DEF ThemeInv, ThemeTypeOK, CallState, HostState
<1>2. UNCHANGED <<page, sync, did>> /\ disk' = disk /\ c.kind = "open"
  BY DEF Theme!ServeOpen
<1>3. host' = host \/ host' = [host EXCEPT !.file = c.file, !.mark = c.mark, !.dirty = FALSE]
  BY DEF Theme!ServeOpen
<1>4. host' \in HostState /\ host'.latest = host.latest
  BY <1>1, <1>3 DEF HostState
<1>5. CASE c.stage = "picked" /\ ~Theme!Behind(c)
  <2> DEFINE t == Theme!To(c, "running")
             d == [t EXCEPT !.text = disk[c.file].text, !.mark = disk[c.file].mtime]
  <2>1. Theme!Becomes(c, d)
    BY <1>5 DEF Theme!ServeOpen
  <2>2. c.file \in Files
    BY <1>1, <1>2, <1>5 DEF FileKnown
  <2>3. disk[c.file].text \in Texts /\ disk[c.file].mtime \in Nat
    BY <1>1, <2>2 DEF DiskState
  <2>4. t \in CallState /\ t.kind = c.kind /\ t.rev = c.rev /\ t.file = c.file
    BY <1>1, ToMoves
  <2> HIDE DEF t
  <2>5. d \in CallState /\ d.kind = c.kind /\ d.rev = c.rev /\ FileKnown(d)
    BY <2>2, <2>3, <2>4 DEF CallState, FileKnown
  <2> QED BY <1>1, <1>2, <1>4, <2>1, <2>5, ServeKeeps
<1>6. CASE ~(c.stage = "picked" /\ ~Theme!Behind(c))
  <2>1. Goes(c)
    BY <1>6, AnsweredGoes, PickedGoes DEF Theme!ServeOpen
  <2> QED BY <1>1, <1>2, <1>4, <2>1, ServeGoes
<1> QED BY <1>5, <1>6

LEMMA ServeSaveKeeps ==
  ASSUME ThemeInv, NEW c \in calls, Theme!ServeSave(c)
  PROVE  ThemeInv'
<1>1. /\ c \in CallState /\ c.file \in NoneOrFile /\ c.mark \in Nat /\ c.text \in Texts
      /\ host \in HostState /\ host.latest \in Nat /\ host.file \in NoneOrFile
      /\ disk \in DiskState /\ FileKnown(c)
  BY DEF ThemeInv, ThemeTypeOK, CallState, HostState
<1>2. UNCHANGED <<page, sync, did>> /\ c.kind = "save"
  BY DEF Theme!ServeSave
<1>3. host' = host \/ host' = [host EXCEPT !.file = c.file, !.mark = c.mark, !.dirty = FALSE]
  BY DEF Theme!ServeSave
<1>4. host' \in HostState /\ host'.latest = host.latest
  BY <1>1, <1>3 DEF HostState
<1>5. CASE disk' = [disk EXCEPT ![c.file] = [text |-> c.text, mtime |-> @.mtime + 1]]
           /\ Theme!Becomes(c, [Theme!To(c, "written") EXCEPT !.mark = disk[c.file].mtime + 1])
           /\ c.stage = "running"
  <2> DEFINE t == Theme!To(c, "written")
             d == [t EXCEPT !.mark = disk[c.file].mtime + 1]
  <2>1. c.file \in Files
    BY <1>1, <1>2, <1>5 DEF FileKnown
  <2>2. disk[c.file].mtime + 1 \in Nat
    BY <1>1, <2>1 DEF DiskState
  <2>3. disk' \in DiskState
    BY <1>1, <1>5, <2>1, <2>2 DEF DiskState
  <2>4. t \in CallState /\ t.kind = c.kind /\ t.rev = c.rev /\ t.file = c.file
    BY <1>1, ToMoves
  <2> HIDE DEF t
  <2>5. d \in CallState /\ d.kind = c.kind /\ d.rev = c.rev /\ FileKnown(d)
    BY <2>1, <2>2, <2>4 DEF CallState, FileKnown
  <2>6. Theme!Becomes(c, d)
    BY <1>5 DEF t
  <2> QED BY <1>1, <1>2, <1>4, <2>3, <2>5, <2>6, ServeKeeps
<1>6. CASE disk' = disk
           /\ \/ \E answer \in {"good", "failed", "cancelled"} : Theme!Becomes(c, Theme!Answered(c, answer))
              \/ \E f \in Files : Theme!Becomes(c, [Theme!To(c, "picked") EXCEPT !.file = f])
              \/ host.file # None /\ Theme!Becomes(c, [Theme!To(c, "picked") EXCEPT !.file = host.file])
              \/ c.stage = "picked" /\ Theme!Becomes(c, Theme!To(c, "running"))
  <2>1. host.file # None => host.file \in Files
    BY <1>1 DEF NoneOrFile
  <2>2. c.stage = "picked" => c.file \in Files
    BY <1>1, <1>2 DEF FileKnown
  <2>3. Goes(c)
    BY <1>6, <2>1, <2>2, AnsweredGoes, PickedGoes, ToGoes
  <2> QED BY <1>1, <1>2, <1>4, <1>6, <2>3, ServeGoes
<1> QED BY <1>5, <1>6 DEF Theme!ServeSave

LEMMA ServeAdoptKeeps ==
  ASSUME ThemeInv, NEW c \in calls, Theme!ServeAdopt(c) \/ Theme!ServeExchange(c)
  PROVE  ThemeInv'
<1>1. /\ c \in CallState /\ c.rev \in Nat /\ c.rev <= page.op /\ host \in HostState
      /\ host.latest \in Nat /\ disk \in DiskState
  BY DEF ThemeInv, ThemeTypeOK, NumbersAreOfPage, CallState, HostState
<1>2. UNCHANGED <<page, sync, did, disk>> /\ c.kind \in {"adopt", "preview", "packet"}
  BY DEF Theme!ServeAdopt, Theme!ServeExchange
<1>3. \/ host' = host \/ host' = [host EXCEPT !.file = None, !.dirty = TRUE]
      \/ c.rev > host.latest /\ host' = [host EXCEPT !.latest = c.rev]
  BY <1>1 DEF Theme!ServeAdopt, Theme!ServeExchange
<1>4. /\ host' \in HostState
      /\ host'.latest = host.latest \/ (host'.latest > host.latest /\ host'.latest <= page.op)
  BY <1>1, <1>3 DEF HostState, NoneOrFile
<1>5. Goes(c)
  BY <1>2, AnsweredGoes, ToGoes DEF Theme!ServeAdopt, Theme!ServeExchange
<1> QED BY <1>1, <1>2, <1>4, <1>5, ServeGoes

LEMMA ServeUpdateKeeps ==
  ASSUME ThemesAreNumbers, ThemeInv, Theme!ServeUpdate
  PROVE  ThemeInv'
<1>1. /\ host \in HostState /\ host.latest \in Nat /\ did.told \in Nat /\ page.op \in Nat
      /\ sync \in SyncState /\ sync.sent \in Nat /\ sync.sent <= page.op
      /\ UNCHANGED <<page, disk, calls, did>> /\ sync.state = "running"
  BY DEF ThemeInv, ThemeTypeOK, NumbersAreOfPage, LoopInv, HostState, DidState, PageState,
         SyncState, Texts, Theme!ServeUpdate
<1>2. PICK answer \in {"refused", "ok"} : sync' = [sync EXCEPT !.answer = answer]
  BY DEF Theme!ServeUpdate
<1>3. /\ sync' \in SyncState /\ sync'.state = sync.state /\ sync'.sent = sync.sent
      /\ sync'.want = sync.want /\ sync'.answer = answer
  BY <1>1, <1>2 DEF SyncState
<1>4. \/ host' = host /\ answer = "refused"
      \/ host' = [host EXCEPT !.latest = sync.sent, !.dirty = TRUE]
  BY <1>1, <1>3 DEF Theme!ServeUpdate, SyncState
<1>5. /\ host' \in HostState /\ host'.latest <= page.op
      /\ answer = "ok" => sync.sent <= host'.latest
  <2>1. host.latest <= page.op /\ "refused" # "ok"
    BY DEF ThemeInv, NumbersAreOfPage
  <2>2. CASE host' = host /\ answer = "refused"
    BY <1>1, <2>1, <2>2
  <2>3. CASE host' = [host EXCEPT !.latest = sync.sent, !.dirty = TRUE]
    <3>1. host' \in HostState /\ host'.latest = sync.sent
      BY <1>1, <2>3 DEF HostState
    <3> QED BY <1>1, <3>1
  <2> QED BY <1>4, <2>2, <2>3
<1>6. ThemeTypeOK'
  BY <1>1, <1>3, <1>5 DEF ThemeInv, ThemeTypeOK
<1>7. NumbersAreOfPage'
  BY <1>1, <1>3, <1>5 DEF ThemeInv, NumbersAreOfPage
<1>8. LoopInv'
  BY <1>1, <1>3, <1>5 DEF ThemeInv, LoopInv
<1>9. DraftInv'
  BY <1>1 DEF ThemeInv, DraftInv
<1> QED BY <1>6, <1>7, <1>8, <1>9 DEF ThemeInv

(* The answers. *)

\* The answer of a call moves the page at most to the next number.
LEMMA AnswerKeeps ==
  ASSUME ThemeInv, NEW c \in calls, NEW p \in PageState, p.op \in {page.op, page.op + 1},
         did.mine # None => p.spec = page.spec,
         Theme!Done(c, p), UNCHANGED <<sync, host, disk, did>>
  PROVE  ThemeInv'
<1>1. page' = p /\ p.op >= page.op /\ \A e \in calls' : e \in calls
  BY DEF Theme!Done, ThemeInv, ThemeTypeOK, PageState
<1> QED BY <1>1, PageKeeps DEF ThemeInv, ThemeTypeOK

LEMMA AnswerCompileKeeps ==
  ASSUME ThemeInv, NEW c \in calls, Theme!AnswerCompile(c) \/ Theme!AnswerSave(c)
  PROVE  ThemeInv'
<1>1. /\ page \in PageState /\ c \in CallState /\ c.rev \in Nat /\ c.text \in Texts
      /\ c.file \in NoneOrFile /\ None \in Texts
  BY DEF ThemeInv, ThemeTypeOK, CallState, Texts
<1>2. UNCHANGED <<sync, host, disk, did>>
  BY DEF Theme!AnswerCompile, Theme!AnswerSave
<1> DEFINE applied == [page EXCEPT !.applied = c.rev, !.pending = None]
<1>3. applied \in PageState /\ applied.op = page.op /\ applied.spec = page.spec
  BY <1>1 DEF PageState
<1> HIDE DEF applied
<1> DEFINE good == [applied EXCEPT !.css = c.text, !.good = c.text, !.preview = c.rev, !.error = FALSE]
           bad == [applied EXCEPT !.css = None, !.error = TRUE]
           saved == [page EXCEPT !.saveAs = FALSE, !.dirty = FALSE, !.name = c.file]
           failed == [page EXCEPT !.error = TRUE]
<1>4. /\ good \in PageState /\ good.op = page.op /\ good.spec = page.spec
      /\ bad \in PageState /\ bad.op = page.op /\ bad.spec = page.spec
  BY <1>1, <1>3 DEF PageState
<1>5. /\ saved \in PageState /\ saved.op = page.op /\ saved.spec = page.spec
      /\ failed \in PageState /\ failed.op = page.op /\ failed.spec = page.spec
  BY <1>1 DEF PageState
<1>6. PICK p \in {page, Theme!CompileFails(page), good, bad, saved, failed} : Theme!Done(c, p)
  BY DEF Theme!AnswerCompile, Theme!AnswerSave, applied
<1> HIDE DEF good, bad, saved, failed
<1>7. p \in PageState /\ p.op = page.op /\ p.spec = page.spec
  BY <1>1, <1>4, <1>5, <1>6, CompileFailsMoves
<1> QED BY <1>2, <1>6, <1>7, AnswerKeeps

\* A document may be replaced by an answer: only when the user asked for nothing else since.
LEMMA ReplacedWhenCurrent ==
  ASSUME ThemeInv, NEW c \in calls, c.kind \in Replacing, c.rev >= page.op
  PROVE  did.mine = None
<1>1. c.rev \in Nat /\ page.op \in Nat
  BY DEF ThemeInv, ThemeTypeOK, CallState, PageState
<1> QED BY <1>1 DEF ThemeInv, DraftInv

LEMMA AnswerReplacementKeeps ==
  ASSUME ThemeInv, NEW c \in calls, Theme!AnswerReplacement(c)
  PROVE  ThemeInv'
<1>1. /\ page \in PageState /\ c \in CallState /\ c.rev \in Nat /\ c.file \in NoneOrFile
      /\ page.op \in Nat /\ page.op + 1 \in Nat /\ page.spec \in Texts /\ page.applied \in Nat
  BY DEF ThemeInv, ThemeTypeOK, CallState, PageState
<1>2. UNCHANGED <<sync, host, disk, did>> /\ c.kind \in Replacing
  BY DEF Theme!AnswerReplacement, Replacing
<1> DEFINE base == Theme!Adopted(page, c)
           loaded == [base EXCEPT !.valid = TRUE, !.saveAs = FALSE, !.dirty = FALSE, !.name = c.file]
           bumped == [Theme!Bump(page) EXCEPT !.rev = page.op + 1]
           again == Theme!Schedule(bumped, page.spec, page.op + 1)
           applied(a) == [page EXCEPT !.error = TRUE, !.applied = a]
<1>3. loaded \in PageState /\ loaded.op = page.op
  <2>1. base \in PageState /\ base.op = page.op
    BY <1>1, AdoptedMoves
  <2> HIDE DEF base
  <2> QED BY <1>1, <2>1 DEF PageState
<1>4. again \in PageState /\ again.op = page.op + 1 /\ again.spec = page.spec
  <2>1. bumped \in PageState /\ bumped.op = page.op + 1 /\ bumped.spec = page.spec
    BY <1>1, BumpMoves DEF PageState
  <2> HIDE DEF bumped
  <2> QED BY <1>1, <2>1, ScheduleMoves
<1>5. \A a \in Nat : applied(a) \in PageState /\ applied(a).op = page.op
                     /\ applied(a).spec = page.spec
  BY <1>1 DEF PageState
<1>6. \/ Theme!Done(c, page) \/ (Theme!Current(c) /\ Theme!Done(c, loaded))
      \/ Theme!Done(c, again) \/ \E a \in {c.rev, page.applied} : Theme!Done(c, applied(a))
  <2>1. [page EXCEPT !.error = TRUE].applied = page.applied
    BY <1>1 DEF PageState
  <2>2. CASE ~Theme!Current(c)
    BY <2>2 DEF Theme!AnswerReplacement
  <2>3. CASE Theme!Current(c) /\ c.answer = "good"
    BY <2>3 DEF Theme!AnswerReplacement
  <2>4. CASE Theme!Current(c) /\ c.answer = "cancelled"
    BY <2>4 DEF Theme!AnswerReplacement
  <2>5. CASE Theme!Current(c) /\ c.answer \notin {"good", "cancelled"}
    <3>1. CASE c.answer = "invalid"
      BY <2>5, <3>1 DEF Theme!AnswerReplacement
    <3>2. CASE c.answer # "invalid"
      BY <2>1, <2>5, <3>2 DEF Theme!AnswerReplacement
    <3> QED BY <3>1, <3>2
  <2> QED BY <2>2, <2>3, <2>4, <2>5
<1> HIDE DEF loaded, again, applied
<1>7. CASE Theme!Current(c) /\ Theme!Done(c, loaded)
  <2>1. did.mine = None
    BY <1>2, <1>7, ReplacedWhenCurrent DEF Theme!Current
  <2> QED BY <1>1, <1>2, <1>3, <1>7, <2>1, AnswerKeeps
<1>8. CASE \E a \in {c.rev, page.applied} : Theme!Done(c, applied(a))
  <2>1. PICK a \in {c.rev, page.applied} : Theme!Done(c, applied(a))
    BY <1>8
  <2> QED BY <1>1, <1>2, <1>5, <2>1, AnswerKeeps
<1> QED BY <1>1, <1>2, <1>4, <1>6, <1>7, <1>8, AnswerKeeps

LEMMA AnswerAdoptKeeps ==
  ASSUME ThemeInv, NEW c \in calls, Theme!AnswerAdopt(c)
  PROVE  ThemeInv'
<1>1. /\ page \in PageState /\ c \in CallState /\ page.op \in Nat /\ page.op \in Texts
      /\ None \in NoneOrFile
  BY DEF ThemeInv, ThemeTypeOK, PageState, Texts, NoneOrFile
<1>2. UNCHANGED <<sync, host, disk, did>> /\ c.kind \in Replacing
  BY DEF Theme!AnswerAdopt, Replacing
<1>3. CASE c.rev # page.op
  BY <1>1, <1>2, <1>3, AnswerKeeps DEF Theme!AnswerAdopt
<1>4. CASE c.rev = page.op
  <2> DEFINE base == Theme!Adopted(page, c)
             asked == [page EXCEPT !.ask = page.op]
             adopted == [base EXCEPT !.dirty = TRUE, !.name = None, !.verified = FALSE]
             failed == [page EXCEPT !.error = TRUE]
  <2>1. PICK q \in {asked, adopted, failed} : Theme!Done(c, Theme!Resume(q))
    BY <1>4 DEF Theme!AnswerAdopt
  <2>2. asked \in PageState /\ asked.op = page.op /\ failed \in PageState /\ failed.op = page.op
    BY <1>1 DEF PageState
  <2>3. adopted \in PageState /\ adopted.op = page.op
    <3>1. base \in PageState /\ base.op = page.op
      BY <1>1, AdoptedMoves
    <3> HIDE DEF base
    <3> QED BY <1>1, <3>1 DEF PageState
  <2> HIDE DEF asked, adopted, failed
  <2>4. Theme!Resume(q) \in PageState /\ Theme!Resume(q).op \in {page.op, page.op + 1}
    BY <2>1, <2>2, <2>3, ResumeMoves
  <2>5. did.mine = None
    BY <1>1, <1>2, <1>4, ReplacedWhenCurrent
  <2> QED BY <1>2, <2>1, <2>4, <2>5, AnswerKeeps
<1> QED BY <1>3, <1>4

LEMMA AnswerExchangeKeeps ==
  ASSUME ThemeInv, NEW c \in calls, Theme!AnswerExchange(c)
  PROVE  ThemeInv'
<1>1. /\ page \in PageState /\ c \in CallState /\ c.rev \in Nat /\ page.op \in Nat
      /\ page.applied \in Nat
  BY DEF ThemeInv, ThemeTypeOK, CallState, PageState
<1>2. UNCHANGED <<sync, host, disk, did>>
  BY DEF Theme!AnswerExchange
<1>3. CASE c.rev # page.op
  BY <1>1, <1>2, <1>3, AnswerKeeps DEF Theme!AnswerExchange
<1>4. CASE c.rev = page.op
  <2> DEFINE left == [page EXCEPT !.cand = FALSE, !.preview = page.op]
             shown == [page EXCEPT !.applied = c.rev, !.cand = TRUE, !.verified = TRUE,
                                   !.error = FALSE]
             given(a, v) == [left EXCEPT !.error = TRUE, !.applied = a, !.verified = v]
             packed == [left EXCEPT !.verified = FALSE]
             failed == [page EXCEPT !.error = TRUE]
  <2>1. left \in PageState /\ left.op = page.op /\ left.spec = page.spec
        /\ left.applied = page.applied /\ left.verified \in BOOLEAN
    BY <1>1 DEF PageState
  <2>2. /\ shown \in PageState /\ shown.op = page.op /\ shown.spec = page.spec
        /\ failed \in PageState /\ failed.op = page.op /\ failed.spec = page.spec
    BY <1>1 DEF PageState
  <2>3. \/ Theme!Done(c, Theme!Resume(shown)) \/ Theme!Done(c, Theme!Resume(packed))
        \/ Theme!Done(c, Theme!Resume(failed)) \/ Theme!Done(c, Theme!Resume(page))
        \/ Theme!Done(c, Theme!Resume(given(IF c.answer = "neutral" THEN c.rev ELSE left.applied,
                                            left.verified /\ c.answer = "failed")))
    BY <1>4 DEF Theme!AnswerExchange
  <2> HIDE DEF left
  <2>4. packed \in PageState /\ packed.op = page.op /\ packed.spec = page.spec
    BY <2>1 DEF PageState
  <2>5. \A a \in Nat, v \in BOOLEAN :
          given(a, v) \in PageState /\ given(a, v).op = page.op /\ given(a, v).spec = page.spec
    BY <2>1 DEF PageState
  <2> HIDE DEF shown, packed, failed, given
  <2>6. PICK q : /\ q \in PageState /\ q.op = page.op /\ q.spec = page.spec
                 /\ Theme!Done(c, Theme!Resume(q))
    <3>1. (left.verified /\ c.answer = "failed") \in BOOLEAN
      OBVIOUS
    <3>2. (IF c.answer = "neutral" THEN c.rev ELSE left.applied) \in Nat
      BY <1>1, <2>1
    <3> QED BY <1>1, <2>2, <2>3, <2>4, <2>5, <3>1, <3>2
  <2>7. /\ Theme!Resume(q) \in PageState /\ Theme!Resume(q).op \in {page.op, page.op + 1}
        /\ Theme!Resume(q).spec = page.spec
    BY <2>6, ResumeMoves
  <2> QED BY <1>2, <2>6, <2>7, AnswerKeeps
<1> QED BY <1>3, <1>4

\* The loop rests, or goes on with the newest number; the calls that waited go on.
LEMMA AnswerUpdateKeeps ==
  ASSUME ThemesAreNumbers, ThemeInv, Theme!AnswerUpdate
  PROVE  ThemeInv'
<1>1. /\ page \in PageState /\ sync \in SyncState /\ sync.state = "running"
      /\ UNCHANGED <<host, disk, did>> /\ None \in Texts
  BY DEF ThemeInv, ThemeTypeOK, Theme!AnswerUpdate, Texts
<1>2. CASE sync.answer # "refused" /\ sync.want # None
  <2>1. /\ sync' = [sync EXCEPT !.sent = sync.want, !.want = None, !.answer = "none"]
        /\ UNCHANGED <<page, calls>>
    BY <1>2 DEF Theme!AnswerUpdate
  <2>2. /\ sync' \in SyncState /\ sync'.state = "running" /\ sync'.sent = sync.want
        /\ sync'.want = None /\ sync'.answer = "none"
    BY <1>1, <2>1 DEF SyncState
  <2>3. ThemeTypeOK'
    BY <1>1, <2>1, <2>2 DEF ThemeInv, ThemeTypeOK
  <2>4. NumbersAreOfPage'
    BY <1>1, <2>1, <2>2 DEF ThemeInv, NumbersAreOfPage
  <2>5. LoopInv'
    BY <1>1, <1>2, <2>2 DEF ThemeInv, LoopInv
  <2>6. DraftInv'
    BY <1>1, <2>1 DEF ThemeInv, DraftInv
  <2> QED BY <2>3, <2>4, <2>5, <2>6 DEF ThemeInv
<1>3. CASE ~(sync.answer # "refused" /\ sync.want # None)
  <2> DEFINE failed == sync.answer = "refused"
             waiting == {c \in calls : c.stage = "waits"}
             told == [page EXCEPT !.error = TRUE]
  <2>1. /\ sync' = [sync EXCEPT !.state = IF failed THEN "failed" ELSE "ok",
                                !.sent = None, !.answer = "none"]
        /\ calls' = (calls \ waiting) \cup UNION {Theme!Resumed(c, failed) : c \in waiting}
        /\ page' \in {page, Theme!CompileFails(told), told}
    BY <1>3 DEF Theme!AnswerUpdate
  <2>2. sync' \in SyncState /\ sync'.sent = None /\ sync'.want = sync.want
        /\ sync'.state = (IF failed THEN "failed" ELSE "ok")
    BY <1>1, <2>1 DEF SyncState
  <2>3. page' \in PageState /\ page'.op = page.op /\ page'.spec = page.spec
    <3>1. told \in PageState /\ told.op = page.op /\ told.spec = page.spec
      BY <1>1 DEF PageState
    <3> HIDE DEF told
    <3> QED BY <1>1, <2>1, <3>1, CompileFailsMoves
  <2>4. \A d \in calls' : \/ d \in calls
                          \/ \E c \in calls : /\ d \in CallState /\ FileKnown(d)
                                              /\ d.rev = c.rev /\ d.kind = c.kind
    <3> SUFFICES ASSUME NEW d \in calls', d \notin calls
                 PROVE  \E c \in calls : /\ d \in CallState /\ FileKnown(d)
                                         /\ d.rev = c.rev /\ d.kind = c.kind
      OBVIOUS
    <3>1. PICK c \in calls : d \in Theme!Resumed(c, failed)
      BY <2>1
    <3>2. d = Theme!To(c, "sent")
      BY <3>1 DEF Theme!Resumed
    <3>3. c \in CallState
      BY DEF ThemeInv, ThemeTypeOK
    <3> QED BY <3>2, <3>3, ToMoves DEF FileKnown
  <2>5. ThemeTypeOK'
    BY <1>1, <2>2, <2>3, <2>4 DEF ThemeInv, ThemeTypeOK
  <2>6. NumbersAreOfPage'
    BY <1>1, <2>2, <2>3, <2>4 DEF ThemeInv, NumbersAreOfPage
  <2>7. LoopInv'
    <3>1. sync'.state = "ok" => sync.answer = "ok" /\ sync.want = None
      BY <1>1, <1>3, <2>2 DEF Theme!AnswerUpdate, SyncState
    <3>2. /\ sync.answer = "ok" => sync.sent <= host.latest
          /\ sync.want = None => did.told <= sync.sent
          /\ sync.sent # None
      BY <1>1 DEF ThemeInv, LoopInv
    <3>3. sync.sent \in Nat /\ host.latest \in Nat /\ did.told \in Nat
      BY <1>1, <3>2 DEF ThemeInv, ThemeTypeOK, SyncState, HostState, DidState, Texts
    <3>4. sync'.state = "ok" => did'.told <= host'.latest
      BY <1>1, <3>1, <3>2, <3>3
    <3> QED BY <2>2, <3>4 DEF LoopInv
  <2>8. DraftInv'
    BY <1>1, <2>3, <2>4 DEF ThemeInv, DraftInv
  <2> QED BY <2>5, <2>6, <2>7, <2>8 DEF ThemeInv
<1> QED BY <1>2, <1>3

LEMMA ThemeInvNext ==
  ASSUME ThemesAreNumbers, ThemeInv, Theme!Next
  PROVE  ThemeInv'
<1>1. CASE Theme!User
  BY <1>1, Edits, Compiles, Replaces, Saves, Adopts, Candidates DEF Theme!User
<1>2. CASE Theme!Serve
  BY <1>2, ServeUpdateKeeps, ServeCompileKeeps, ServeOpenKeeps, ServeSaveKeeps, ServeAdoptKeeps
  DEF Theme!Serve
<1>3. CASE Theme!Continue
  BY <1>3, AnswerUpdateKeeps, Compiles, AnswerCompileKeeps, AnswerReplacementKeeps,
     AnswerAdoptKeeps, AnswerExchangeKeeps
  DEF Theme!Continue
<1> QED BY <1>1, <1>2, <1>3 DEF Theme!Next

LEMMA ThemeInvStep ==
  ASSUME ThemesAreNumbers, ThemeInv, [Next]_vars
  PROVE  ThemeInv'
<1>1. CASE InTheme(Theme!Next)
  BY <1>1, ThemeInvNext DEF InTheme
<1>2. CASE ~InTheme(Theme!Next)
  <2>1. UNCHANGED themeVars
    BY <1>2 DEF Next, InVector, InExchange, InBrand, vars
  <2> QED BY <2>1, ThemeStays
<1> QED BY <1>1, <1>2

\* latest_observed_operation_revision of the host never runs ahead of latestIntendedOpRef,
\* and when the loop of invalidateNativeDraft rests the host knows of the last edit.
THEOREM HostKeepsInStep ==
  ASSUME ThemesAreNumbers
  PROVE  Spec => []HostInStep
<1>1. Init => ThemeInv
  BY ThemeInvInit DEF Init
<1>2. ThemeInv => HostInStep
  <2> SUFFICES ASSUME ThemeInv PROVE HostInStep
    OBVIOUS
  <2>1. host.latest \in Nat /\ did.told \in Nat
    BY DEF ThemeInv, ThemeTypeOK, HostState, DidState
  <2> QED
    BY <2>1
    DEF ThemeInv, NumbersAreOfPage, LoopInv, HostInStep, Theme!PageAheadOfHost, Theme!HostLearnsEdits
<1> QED BY <1>1, <1>2, ThemeInvStep, PTL DEF Spec

\* Late and overtaken answers do not replace the draft the user has edited: loading, opening
\* and adopting are dropped unless they are the last thing asked for (latestIntendedOpRef).
THEOREM EditsStay ==
  ASSUME ThemesAreNumbers
  PROVE  Spec => []EditsAreNotOverwritten
<1>1. Init => ThemeInv
  BY ThemeInvInit DEF Init
<1>2. ThemeInv => EditsAreNotOverwritten
  BY DEF ThemeInv, DraftInv, EditsAreNotOverwritten, Theme!EditsAreNotOverwritten
<1> QED BY <1>1, <1>2, ThemeInvStep, PTL DEF Spec
-----------------------------------------------------------------------------
(***************************************************************************)
(* The vector graphics workbench.                                          *)
(*                                                                         *)
(* The page and the session part only when an answer is refused that says  *)
(* so.  Until then either the queue expects the session's draft, or        *)
(* exactly one answer is about to move it there: of the edit in flight, of *)
(* a replacement, a bind or an adoption, or of a save.  No two of them     *)
(* land together, since the second request would name an earlier draft.    *)
(***************************************************************************)

Identities == Nat \X Nat
Drafts == [rev : Nat, src : Nat, dirty : BOOLEAN]
Prints == [published : Nat, src : Nat]
Words == [said : {"refused", "unread", "cancelled", "planned", "verified"}]
Answers == Drafts \cup Prints \cup Words

SessionState ==
  [rev : Nat, src : Nat, dirty : BOOLEAN, intent : Nat \cup {None}, compiled : BOOLEAN,
   ok : BOOLEAN, plans : [Vector!Publishing -> [id : Nat, rev : Nat] \cup {None}],
   ver : Nat \cup {None}]
Flights ==
  [edit : Nat, exp : Identities, answer : Drafts \cup {Vector!Refused, Vector!Unread, None},
   raced : BOOLEAN]
Queue == [tasks : Seq(Nat), flight : Flights \cup {None}, exp : Identities]
ActStages == {"flush", "sent", "reserved", "answered", "compiling"}
Actions ==
  [kind : Vector!AllKinds, id : Nat, need : Nat, asked : BOOLEAN, stage : ActStages,
   exp : Identities \cup {None}, plan : Nat \cup {None}, answer : Answers \cup {None},
   compile : Nat]
Interface ==
  [revision : Nat, latest : Nat, dirty : BOOLEAN, preview : Nat, shown : Nat, receipt : BOOLEAN,
   compiling : BOOLEAN, error : BOOLEAN, pending : [Vector!Publishing -> Nat \cup {None}],
   ver : Nat \cup {None}]
CompileStages == {"sent", "running", "answered", "refused", "decoding", "done"}
Compile == [exp : Identities, stage : CompileStages, ok : BOOLEAN]

\* The kinds of the run are those there are, and none is nothing else.
NoneIsNothing ==
  /\ Kinds \subseteq Vector!AllKinds
  /\ None \notin Nat \cup Identities \cup Answers \cup [id : Nat, rev : Nat] \cup Flights \cup Actions

VectorTypeOK ==
  /\ session \in SessionState
  /\ queues \in Seq(Queue) /\ Len(queues) >= 1
  /\ ui \in Interface
  /\ act \in Actions \cup {None}
  /\ compiles \in Seq(Compile)
  /\ urls \in [live : SUBSET Nat, lastGood : Nat]
  /\ made \in [edits : Nat, actions : Nat, refreshes : Nat, files : Nat]
  /\ lost \in BOOLEAN

Cur == queues[Len(queues)]
Now == <<session.rev, session.src>>
Answered == act # None /\ act.stage = "answered"

\* The three answers that move the queue to the draft of the session.
EditLands == Cur.flight # None /\ Cur.flight.answer \in Drafts
ActLands == Answered /\ act.answer \in Drafts
SaveLands == Answered /\ act.kind = "saveApply" /\ act.answer \in Prints

IsOf(answer) == <<answer.rev, answer.src>> = Now
Landing ==
  /\ ~lost /\ ~EditLands /\ ~ActLands /\ ~SaveLands => Cur.exp = Now
  /\ EditLands => ~lost /\ ~ActLands /\ ~SaveLands /\ IsOf(Cur.flight.answer)
  /\ ActLands => ~lost /\ ~EditLands /\ ~SaveLands /\ IsOf(act.answer)
  /\ lost \/ EditLands \/ ActLands => Cur.exp[1] < session.rev
  /\ SaveLands =>
       /\ ~lost /\ ~EditLands /\ ~ActLands
       /\ Cur.exp[1] = session.rev /\ Cur.exp[2] < session.src /\ act.answer.src = session.src
       /\ Cur.flight # None => Cur.flight.exp # Now

\* Nothing expects a draft of the future, and queues of the past expect the past.
QueuesInOrder ==
  /\ Cur.exp[1] <= session.rev /\ session.src <= made.files
  /\ \A i \in 1..Len(queues) :
       /\ queues[i].exp[2] <= made.files
       /\ queues[i].flight # None =>
            queues[i].flight.exp[1] <= queues[i].exp[1] /\ queues[i].flight.exp[2] <= made.files
       /\ i < Len(queues) =>
            /\ queues[i].exp[1] < Cur.exp[1]
            /\ queues[i].flight # None => queues[i].flight.answer \notin Drafts

\* What an action expects, and the answers there are to it.
Answerable(a) ==
  \/ a.kind \in Vector!Replacing /\ a.answer \in Drafts \cup {Vector!Refused, Vector!Cancelled}
  \/ a.kind \in {"bind", "adopt"} /\ a.answer \in Drafts \cup {Vector!Refused}
  \/ a.kind = "verify" /\ a.answer \in {Vector!Said("verified"), Vector!Refused}
  \/ a.kind \in Vector!Planning
     /\ a.answer \in {Vector!Said("planned"), Vector!Refused, Vector!Cancelled}
  \/ a.kind \in Vector!Applying /\ a.answer \in Prints \cup {Vector!Refused}

ActInOrder ==
  act # None =>
    /\ act.need <= made.edits
    /\ act.stage \in {"sent", "reserved"} => act.exp \in Identities /\ act.exp[1] <= Cur.exp[1]
    /\ act.stage = "answered" => Answerable(act)

\* An edit that left before the request of the action is settled before that leaves.
UnracedInOrder ==
  Cur.flight # None /\ ~Cur.flight.raced => ~Vector!Outstanding /\ Cur.flight.exp = Cur.exp

RevisionsInOrder ==
  ui.preview <= ui.latest /\ ui.latest <= ui.revision /\ ui.revision <= Cur.exp[1]

UrlsInOrder ==
  /\ urls.lastGood # 0 =>
       urls.lastGood \in 1..Len(compiles) /\ compiles[urls.lastGood].stage = "done"
  /\ Vector!ShownUrlIsLive

VectorInv ==
  /\ VectorTypeOK /\ Landing /\ QueuesInOrder /\ ActInOrder /\ UnracedInOrder
  /\ RevisionsInOrder /\ UrlsInOrder /\ Vector!ActionsSeeEdits

(* Values. *)

LEMMA AnswersDiffer ==
  /\ \A a \in Words : a \notin Drafts /\ a \notin Prints
  /\ \A a \in Drafts : a \notin Prints
  /\ Vector!Refused \in Words /\ Vector!Unread \in Words /\ Vector!Cancelled \in Words
  /\ Vector!Said("planned") \in Words /\ Vector!Said("verified") \in Words
<1>1. \A a \in Words : DOMAIN a = {"said"}
  BY DEF Words
<1>2. \A a \in Drafts : DOMAIN a = {"rev", "src", "dirty"}
  BY DEF Drafts
<1>3. \A a \in Prints : DOMAIN a = {"published", "src"}
  BY DEF Prints
<1>4. {"said"} # {"rev", "src", "dirty"} /\ {"said"} # {"published", "src"}
      /\ {"rev", "src", "dirty"} # {"published", "src"}
  OBVIOUS
<1>5. /\ Vector!Refused \in Words /\ Vector!Unread \in Words /\ Vector!Cancelled \in Words
      /\ Vector!Said("planned") \in Words /\ Vector!Said("verified") \in Words
  BY DEF Words, Vector!Refused, Vector!Unread, Vector!Cancelled, Vector!Said
<1> QED BY <1>1, <1>2, <1>3, <1>4, <1>5

LEMMA SessionAdvances ==
  ASSUME NoneIsNothing, NEW s \in SessionState
  PROVE  /\ Vector!Advance(s) \in SessionState
         /\ Vector!Advance(s).rev = s.rev + 1 /\ Vector!Advance(s).src = s.src
<1>1. Vector!NoPlans \in [Vector!Publishing -> [id : Nat, rev : Nat] \cup {None}]
  BY DEF Vector!NoPlans
<1>2. s.rev + 1 \in Nat
  BY DEF SessionState
<1> QED BY <1>1, <1>2 DEF Vector!Advance, SessionState

LEMMA PumpMoves ==
  ASSUME NoneIsNothing, NEW q \in Queue
  PROVE  /\ Vector!Pump(q) \in Queue /\ Vector!Pump(q).exp = q.exp
         /\ q.flight # None \/ q.tasks = <<>> => Vector!Pump(q) = q
         /\ q.flight = None /\ q.tasks # <<>> =>
              /\ Vector!Pump(q).tasks = Tail(q.tasks)
              /\ Vector!Pump(q).flight \in Flights
              /\ Vector!Pump(q).flight.edit = Head(q.tasks) /\ Vector!Pump(q).flight.exp = q.exp
              /\ Vector!Pump(q).flight.answer = None
              /\ Vector!Pump(q).flight.raced = Vector!Outstanding
<1>1. CASE q.flight # None \/ q.tasks = <<>>
  BY <1>1 DEF Vector!Pump
<1>2. CASE q.flight = None /\ q.tasks # <<>>
  <2> DEFINE f == [edit |-> Head(q.tasks), exp |-> q.exp, answer |-> None,
                   raced |-> Vector!Outstanding]
  <2>1. q.tasks \in Seq(Nat) /\ q.exp \in Identities
    BY DEF Queue
  <2>2. Head(q.tasks) \in Nat /\ Tail(q.tasks) \in Seq(Nat)
    BY <1>2, <2>1
  <2>3. Vector!Outstanding \in BOOLEAN
    BY DEF Vector!Outstanding
  <2>4. /\ f \in Flights /\ f.edit = Head(q.tasks) /\ f.exp = q.exp /\ f.answer = None
        /\ f.raced = Vector!Outstanding
    BY <2>1, <2>2, <2>3 DEF Flights
  <2>5. Vector!Pump(q) = [q EXCEPT !.tasks = Tail(@), !.flight = f]
    BY <1>2 DEF Vector!Pump
  <2> HIDE DEF f
  <2>6. Vector!Pump(q) \in Queue /\ Vector!Pump(q).exp = q.exp /\ Vector!Pump(q).flight = f
        /\ Vector!Pump(q).tasks = Tail(q.tasks)
    BY <2>2, <2>4, <2>5 DEF Queue
  <2> QED BY <1>2, <2>4, <2>6
<1> QED BY <1>1, <1>2

LEMMA QueueTyped ==
  ASSUME NEW q \in Queue, NEW e \in Identities, NEW n \in Nat,
         NEW f \in Flights \cup {None}
  PROVE  /\ [q EXCEPT !.tasks = Append(@, n)] \in Queue
         /\ [q EXCEPT !.exp = e] \in Queue
         /\ [q EXCEPT !.flight = f] \in Queue
<1>1. q.tasks \in Seq(Nat)
  BY DEF Queue
<1>2. Append(q.tasks, n) \in Seq(Nat)
  BY <1>1
<1>3. [q EXCEPT !.tasks = Append(@, n)] \in Queue
  BY <1>2 DEF Queue
<1>4. [q EXCEPT !.exp = e] \in Queue
  BY DEF Queue
<1>5. [q EXCEPT !.flight = f] \in Queue
  BY DEF Queue
<1> QED BY <1>3, <1>4, <1>5

LEMMA QueueReplaced ==
  ASSUME queues \in Seq(Queue), NEW i \in 1..Len(queues), NEW q \in Queue,
         queues' = [queues EXCEPT ![i] = q]
  PROVE  /\ queues' \in Seq(Queue) /\ Len(queues') = Len(queues)
         /\ queues'[i] = q
         /\ \A j \in 1..Len(queues) : j # i => queues'[j] = queues[j]
OBVIOUS

LEMMA CompileReplaced ==
  ASSUME compiles \in Seq(Compile), NEW c \in 1..Len(compiles), NEW x \in Compile,
         compiles' = [compiles EXCEPT ![c] = x]
  PROVE  /\ compiles' \in Seq(Compile) /\ Len(compiles') = Len(compiles)
         /\ compiles'[c] = x
         /\ \A j \in 1..Len(compiles) : j # c => compiles'[j] = compiles[j]
OBVIOUS

LEMMA CurIsQueue ==
  ASSUME VectorTypeOK
  PROVE  /\ Len(queues) \in 1..Len(queues) /\ Cur \in Queue /\ Vector!Cur = Cur
         /\ Cur = queues[Len(queues)] /\ DOMAIN queues = 1..Len(queues)
         /\ \A i \in 1..Len(queues) : queues[i] \in Queue
         /\ DOMAIN compiles = 1..Len(compiles)
         /\ \A c \in 1..Len(compiles) : compiles[c] \in Compile
BY DEF VectorTypeOK, Cur, Vector!Cur

(* What the steps do, and that they keep the types. *)

LEMMA EditMoves ==
  ASSUME NoneIsNothing, VectorTypeOK, Vector!Edit
  PROVE  /\ VectorTypeOK' /\ Len(queues') = Len(queues) /\ made'.edits = made.edits + 1
         /\ made'.files = made.files
         /\ \A i \in 1..Len(queues) : i # Len(queues) => queues'[i] = queues[i]
         /\ Cur'.exp = Cur.exp
         /\ Cur.flight # None =>
              Cur'.flight = Cur.flight /\ Cur'.tasks = Append(Cur.tasks, made.edits + 1)
         /\ Cur.flight = None =>
              /\ Cur'.flight # None
              /\ Cur'.flight.edit = Head(Append(Cur.tasks, made.edits + 1))
              /\ Cur'.flight.exp = Cur.exp /\ Cur'.flight.answer = None
              /\ Cur'.flight.raced = Vector!Outstanding
              /\ Cur'.tasks = Tail(Append(Cur.tasks, made.edits + 1))
         /\ ui'.revision = ui.revision /\ ui'.latest = ui.latest /\ ui'.preview = ui.preview
         /\ ui'.shown = ui.shown
<1> DEFINE n == made.edits + 1
           q == [Cur EXCEPT !.tasks = Append(@, n)]
<1>1. Cur \in Queue /\ Len(queues) \in 1..Len(queues) /\ Cur = queues[Len(queues)]
  BY CurIsQueue
<1>2. n \in Nat
  BY DEF VectorTypeOK
<1>3. q \in Queue /\ q.exp = Cur.exp /\ q.flight = Cur.flight /\ q.tasks = Append(Cur.tasks, n)
  BY <1>1, <1>2, QueueTyped DEF Queue, Flights
<1>4. q.tasks # <<>>
  <2>1. Cur.tasks \in Seq(Nat)
    BY <1>1 DEF Queue
  <2> QED BY <1>2, <1>3, <2>1
<1>5. queues' = [queues EXCEPT ![Len(queues)] = Vector!Pump(q)]
  <2>1. queues' = [queues EXCEPT ![Len(queues)] =
                     Vector!Pump([Vector!Cur EXCEPT !.tasks = Append(@, made.edits + 1)])]
    BY DEF Vector!Edit
  <2>2. Vector!Cur = Cur
    BY CurIsQueue
  <2> QED BY <2>1, <2>2
<1>6. /\ made' \in [edits : Nat, actions : Nat, refreshes : Nat, files : Nat]
      /\ made'.edits = n /\ made'.files = made.files
  BY <1>2 DEF Vector!Edit, VectorTypeOK
<1>7. /\ ui' \in Interface /\ ui'.revision = ui.revision /\ ui'.latest = ui.latest
      /\ ui'.preview = ui.preview /\ ui'.shown = ui.shown
  BY DEF Vector!Edit, VectorTypeOK, Interface, Vector!NoPlans
<1>8. UNCHANGED <<session, act, compiles, urls, lost>>
  BY DEF Vector!Edit
<1> HIDE DEF q, n
<1>9. Vector!Pump(q) \in Queue /\ Vector!Pump(q).exp = Cur.exp
  BY <1>3, PumpMoves
<1>10. queues \in Seq(Queue)
  BY DEF VectorTypeOK
<1>11. /\ queues' \in Seq(Queue) /\ Len(queues') = Len(queues)
       /\ queues'[Len(queues)] = Vector!Pump(q)
       /\ \A i \in 1..Len(queues) : i # Len(queues) => queues'[i] = queues[i]
  BY <1>1, <1>5, <1>9, <1>10, QueueReplaced
<1>12. Cur' = Vector!Pump(q)
  BY <1>11 DEF Cur
<1>13. VectorTypeOK'
  BY <1>6, <1>7, <1>8, <1>11 DEF VectorTypeOK
<1>14. Cur.flight # None => Cur'.flight = Cur.flight /\ Cur'.tasks = Append(Cur.tasks, n)
  BY <1>3, <1>12, PumpMoves
<1>15. Cur.flight = None =>
         /\ Cur'.flight \in Flights
         /\ Cur'.flight.edit = Head(Append(Cur.tasks, n))
         /\ Cur'.flight.exp = Cur.exp /\ Cur'.flight.answer = None
         /\ Cur'.flight.raced = Vector!Outstanding
         /\ Cur'.tasks = Tail(Append(Cur.tasks, n))
  BY <1>3, <1>4, <1>12, PumpMoves
<1>16. \A f \in Flights : f # None
  BY DEF NoneIsNothing
<1> QED BY <1>6, <1>7, <1>9, <1>11, <1>12, <1>13, <1>14, <1>15, <1>16 DEF n

\* The session and the flight i after an edit was served.
LEMMA ServeEditMoves ==
  ASSUME NoneIsNothing, VectorTypeOK, NEW i \in 1..Len(queues), Vector!ServeEdit(i)
  PROVE  /\ VectorTypeOK' /\ Len(queues') = Len(queues)
         /\ UNCHANGED <<ui, act, compiles, urls, made>>
         /\ queues[i].flight # None /\ queues[i].flight.answer = None
         /\ \A j \in 1..Len(queues) :
              /\ queues'[j].exp = queues[j].exp /\ queues'[j].tasks = queues[j].tasks
              /\ j # i => queues'[j] = queues[j]
         /\ queues'[i].flight # None
         /\ queues'[i].flight.exp = queues[i].flight.exp
         /\ queues'[i].flight.edit = queues[i].flight.edit
         /\ queues'[i].flight.raced = queues[i].flight.raced
         /\ \/ /\ session' = session /\ lost' = lost
               /\ queues'[i].flight.answer \in {Vector!Refused, Vector!Unread}
            \/ /\ queues[i].flight.exp = Now
               /\ session'.rev = session.rev + 1 /\ session'.src = session.src
               /\ \/ queues'[i].flight.answer \in {Vector!Refused, Vector!Unread} /\ lost'
                  \/ /\ lost' = lost
                     /\ queues'[i].flight.answer \in Drafts
                     /\ queues'[i].flight.answer.rev = session'.rev
                     /\ queues'[i].flight.answer.src = session'.src
<1> DEFINE f == queues[i].flight
<1>1. queues[i] \in Queue /\ f \in Flights /\ f.answer = None /\ f # None
  BY CurIsQueue DEF Vector!ServeEdit, Queue
<1>2. PICK outcome \in {"made", "unread", "refused"} :
        /\ ~Vector!CheckExpected(f.exp) => outcome = "refused"
        /\ IF outcome = "refused"
             THEN UNCHANGED session
             ELSE \E ok \in BOOLEAN :
                    session' = [Vector!Advance(session) EXCEPT !.dirty = TRUE, !.ok = ok]
        /\ queues' = [queues EXCEPT ![i].flight.answer =
                        IF outcome = "made" THEN Vector!Draft(session') ELSE Vector!Said(outcome)]
        /\ lost' = (lost \/ outcome = "unread")
  BY DEF Vector!ServeEdit
<1> DEFINE a == IF outcome = "made" THEN Vector!Draft(session') ELSE Vector!Said(outcome)
<1>3. /\ session' \in SessionState
      /\ outcome = "refused" => session' = session
      /\ outcome # "refused" => session'.rev = session.rev + 1 /\ session'.src = session.src
  <2>1. session \in SessionState
    BY DEF VectorTypeOK
  <2>2. CASE outcome = "refused"
    BY <1>2, <2>1, <2>2
  <2>3. CASE outcome # "refused"
    <3>1. PICK ok \in BOOLEAN : session' = [Vector!Advance(session) EXCEPT !.dirty = TRUE, !.ok = ok]
      BY <1>2, <2>3
    <3> DEFINE s == Vector!Advance(session)
    <3>2. s \in SessionState /\ s.rev = session.rev + 1 /\ s.src = session.src
      BY <2>1, SessionAdvances
    <3> HIDE DEF s
    <3>3. session' = [s EXCEPT !.dirty = TRUE, !.ok = ok]
      BY <3>1 DEF s
    <3> QED BY <2>3, <3>2, <3>3 DEF SessionState
  <2> QED BY <2>2, <2>3
<1>4. /\ a \in Drafts \cup {Vector!Refused, Vector!Unread}
      /\ outcome # "made" => a \in {Vector!Refused, Vector!Unread}
      /\ outcome = "made" => a \in Drafts /\ a.rev = session'.rev /\ a.src = session'.src
  BY <1>3 DEF Vector!Draft, Vector!Said, Vector!Refused, Vector!Unread, Drafts, SessionState
<1> HIDE DEF a
<1> DEFINE g == [f EXCEPT !.answer = a]
           q == [queues[i] EXCEPT !.flight = g]
<1>5. g \in Flights /\ g.exp = f.exp /\ g.edit = f.edit /\ g.raced = f.raced /\ g.answer = a
  BY <1>1, <1>4 DEF Flights
<1>6. queues' = [queues EXCEPT ![i] = q]
  BY <1>2, <1>1 DEF a
<1>7. \A h \in Flights : h # None
  BY DEF NoneIsNothing
<1> HIDE DEF g
<1>8. q \in Queue /\ q.flight = g /\ q.exp = queues[i].exp /\ q.tasks = queues[i].tasks
  BY <1>1, <1>5 DEF Queue
<1> HIDE DEF q, f
<1>9. queues \in Seq(Queue)
  BY DEF VectorTypeOK
<1>10. /\ queues' \in Seq(Queue) /\ Len(queues') = Len(queues)
       /\ queues'[i] = q
       /\ \A j \in 1..Len(queues) : j # i => queues'[j] = queues[j]
  BY <1>6, <1>8, <1>9, QueueReplaced
<1>11. UNCHANGED <<ui, act, compiles, urls, made>> /\ lost' \in BOOLEAN
  BY <1>2 DEF Vector!ServeEdit, VectorTypeOK
<1>12. VectorTypeOK'
  BY <1>3, <1>10, <1>11 DEF VectorTypeOK
<1>13. outcome # "refused" => f.exp = Now
  BY <1>2 DEF Vector!CheckExpected, Vector!Identity, Now, f
<1>14. \A j \in 1..Len(queues) :
         /\ queues'[j].exp = queues[j].exp /\ queues'[j].tasks = queues[j].tasks
         /\ j # i => queues'[j] = queues[j]
  BY <1>8, <1>10
<1>15. \/ /\ session' = session /\ lost' = lost /\ a \in {Vector!Refused, Vector!Unread}
       \/ /\ f.exp = Now
          /\ session'.rev = session.rev + 1 /\ session'.src = session.src
          /\ \/ a \in {Vector!Refused, Vector!Unread} /\ lost'
             \/ /\ lost' = lost
                /\ a \in Drafts
                /\ a.rev = session'.rev
                /\ a.src = session'.src
  <2>1. CASE outcome = "refused"
    <3>1. lost' = lost
      BY <1>2, <2>1 DEF VectorTypeOK
    <3> QED BY <1>3, <1>4, <2>1, <3>1
  <2>2. CASE outcome = "unread"
    BY <1>2, <1>3, <1>4, <1>13, <2>2
  <2>3. CASE outcome = "made"
    <3>1. lost' = lost
      BY <1>2, <2>3 DEF VectorTypeOK
    <3> QED BY <1>3, <1>4, <1>13, <2>3, <3>1
  <2> QED BY <2>1, <2>2, <2>3
<1> QED
  BY <1>1, <1>5, <1>7, <1>8, <1>10, <1>11, <1>12, <1>14, <1>15 DEF f

LEMMA AnswerEditMoves ==
  ASSUME NoneIsNothing, VectorTypeOK, NEW i \in 1..Len(queues), Vector!AnswerEdit(i)
  PROVE  /\ VectorTypeOK' /\ Len(queues') = Len(queues)
         /\ UNCHANGED <<session, compiles, urls, made, lost>>
         /\ queues[i].flight # None
         /\ \A j \in 1..Len(queues) : j # i => queues'[j] = queues[j]
         /\ queues[i].flight.answer \in Drafts =>
              /\ queues'[i].exp = <<queues[i].flight.answer.rev, queues[i].flight.answer.src>>
              /\ ui'.revision = queues[i].flight.answer.rev
              /\ ui'.latest = queues[i].flight.answer.rev
         /\ queues[i].flight.answer \notin Drafts =>
              /\ queues'[i].exp = queues[i].exp
              /\ ui'.revision = ui.revision /\ ui'.latest = ui.latest
         /\ ui'.preview = ui.preview /\ ui'.shown = ui.shown
         /\ queues'[i].flight = None => queues'[i].tasks = <<>>
         /\ queues'[i].flight # None =>
              /\ queues[i].tasks # <<>>
              /\ queues'[i].flight.edit = Head(queues[i].tasks)
              /\ queues'[i].tasks = Tail(queues[i].tasks)
              /\ queues'[i].flight.exp = queues'[i].exp
              /\ queues'[i].flight.answer = None
              /\ queues'[i].flight.raced = Vector!Outstanding
         /\ \/ act' = act
            \/ /\ act # None /\ act.stage = "flush"
               /\ Cur'.flight = None /\ Cur'.tasks = <<>>
               /\ act' = [act EXCEPT !.stage = "sent", !.exp = Cur'.exp]
<1> DEFINE answer == queues[i].flight.answer
           good == answer \notin {Vector!Unread, Vector!Refused}
           bound == IF good THEN [queues[i] EXCEPT !.exp = <<answer.rev, answer.src>>]
                    ELSE queues[i]
           q == [bound EXCEPT !.flight = None]
<1>1. queues[i] \in Queue /\ queues[i].flight \in Flights /\ answer # None /\ queues[i].flight # None
  BY CurIsQueue DEF Vector!AnswerEdit, Queue
<1>2. answer \in Drafts \cup {Vector!Refused, Vector!Unread}
  BY <1>1 DEF Flights
<1>3. good <=> answer \in Drafts
  BY <1>2, AnswersDiffer
<1>4. good => answer.rev \in Nat /\ answer.src \in Nat /\ answer.dirty \in BOOLEAN
              /\ <<answer.rev, answer.src>> \in Identities
  BY <1>3 DEF Drafts, Identities
<1>5. queues' = [queues EXCEPT ![i] = Vector!Pump(q)]
  BY DEF Vector!AnswerEdit
<1>6. ui' = IF good THEN [ui EXCEPT !.revision = answer.rev, !.latest = answer.rev,
                                   !.dirty = answer.dirty]
            ELSE [ui EXCEPT !.error = TRUE]
  BY DEF Vector!AnswerEdit
<1>7. act' = Vector!Wake(queues') /\ UNCHANGED <<session, compiles, urls, made, lost>>
  BY DEF Vector!AnswerEdit
<1>8. bound \in Queue /\ bound.tasks = queues[i].tasks
      /\ bound.exp = IF good THEN <<answer.rev, answer.src>> ELSE queues[i].exp
  <2>1. CASE good
    BY <1>1, <1>4, <2>1 DEF Queue
  <2>2. CASE ~good
    BY <1>1, <2>2
  <2> QED BY <2>1, <2>2
<1> HIDE DEF bound
<1>9. q \in Queue /\ q.tasks = queues[i].tasks /\ q.exp = bound.exp /\ q.flight = None
  BY <1>8 DEF Queue
<1> HIDE DEF q
<1>10. Vector!Pump(q) \in Queue /\ Vector!Pump(q).exp = q.exp
  BY <1>9, PumpMoves
<1>11. queues \in Seq(Queue)
  BY DEF VectorTypeOK
<1>12. /\ queues' \in Seq(Queue) /\ Len(queues') = Len(queues)
       /\ queues'[i] = Vector!Pump(q)
       /\ \A j \in 1..Len(queues) : j # i => queues'[j] = queues[j]
  BY <1>5, <1>10, <1>11, QueueReplaced
<1>13. /\ q.tasks = <<>> => queues'[i].flight = None /\ queues'[i].tasks = <<>>
       /\ q.tasks # <<>> =>
            /\ queues'[i].flight \in Flights
            /\ queues'[i].flight.edit = Head(queues[i].tasks)
            /\ queues'[i].tasks = Tail(queues[i].tasks)
            /\ queues'[i].flight.exp = queues'[i].exp
            /\ queues'[i].flight.answer = None
            /\ queues'[i].flight.raced = Vector!Outstanding
  BY <1>9, <1>12, PumpMoves
<1>14. \A f \in Flights : f # None
  BY DEF NoneIsNothing
<1> HIDE DEF good, answer
<1>15. /\ ui' \in Interface /\ ui'.preview = ui.preview /\ ui'.shown = ui.shown
       /\ good => ui'.revision = answer.rev /\ ui'.latest = answer.rev
       /\ ~good => ui'.revision = ui.revision /\ ui'.latest = ui.latest
  <2>1. ui \in Interface
    BY DEF VectorTypeOK
  <2>2. CASE good
    BY <1>4, <1>6, <2>1, <2>2 DEF Interface
  <2>3. CASE ~good
    BY <1>6, <2>1, <2>3 DEF Interface
  <2> QED BY <2>2, <2>3
<1>16. Len(queues) \in 1..Len(queues) /\ Cur' = queues'[Len(queues)] /\ Cur' \in Queue
  <2>1. Len(queues) \in 1..Len(queues)
    BY CurIsQueue
  <2> QED BY <2>1, <1>12 DEF Cur
<1>17. /\ act' \in Actions \cup {None}
       /\ \/ act' = act
          \/ /\ act # None /\ act.stage = "flush"
             /\ Cur'.flight = None /\ Cur'.tasks = <<>>
             /\ act' = [act EXCEPT !.stage = "sent", !.exp = Cur'.exp]
  <2>1. act \in Actions \cup {None}
    BY DEF VectorTypeOK
  <2>2. \/ act' = act
        \/ /\ act # None /\ act.stage = "flush"
           /\ Cur'.flight = None /\ Cur'.tasks = <<>>
           /\ act' = [act EXCEPT !.stage = "sent", !.exp = Cur'.exp]
    BY <1>7, <1>12, <1>16 DEF Vector!Wake, Vector!Flushed, Vector!Idle
  <2>3. Cur'.exp \in Identities
    BY <1>16 DEF Queue
  <2>4. act \in Actions => [act EXCEPT !.stage = "sent", !.exp = Cur'.exp] \in Actions
    BY <2>3 DEF Actions, ActStages
  <2> QED BY <2>1, <2>2, <2>4
<1>18. VectorTypeOK'
  BY <1>7, <1>12, <1>15, <1>17 DEF VectorTypeOK
<1>19. queues'[i].exp = bound.exp
  BY <1>9, <1>10, <1>12
<1>20. /\ answer \in Drafts =>
            /\ queues'[i].exp = <<answer.rev, answer.src>>
            /\ ui'.revision = answer.rev /\ ui'.latest = answer.rev
       /\ answer \notin Drafts =>
            /\ queues'[i].exp = queues[i].exp
            /\ ui'.revision = ui.revision /\ ui'.latest = ui.latest
  BY <1>3, <1>8, <1>15, <1>19
<1>21. /\ queues'[i].flight = None => queues'[i].tasks = <<>>
       /\ queues'[i].flight # None =>
            /\ queues[i].tasks # <<>>
            /\ queues'[i].flight.edit = Head(queues[i].tasks)
            /\ queues'[i].tasks = Tail(queues[i].tasks)
            /\ queues'[i].flight.exp = queues'[i].exp
            /\ queues'[i].flight.answer = None
            /\ queues'[i].flight.raced = Vector!Outstanding
  BY <1>9, <1>13, <1>14
<1> QED
  BY <1>1, <1>7, <1>12, <1>15, <1>17, <1>18, <1>20, <1>21 DEF answer

LEMMA RefreshMoves ==
  ASSUME VectorTypeOK, Vector!Refresh
  PROVE  /\ VectorTypeOK' /\ UNCHANGED <<session, queues, act, urls, lost>>
         /\ made'.edits = made.edits /\ made'.files = made.files
         /\ ui'.revision = ui.revision /\ ui'.latest = ui.latest /\ ui'.preview = ui.preview
         /\ ui'.shown = ui.shown
         /\ \E x \in Compile : x.stage = "sent" /\ compiles' = Append(compiles, x)
<1>1. UNCHANGED <<session, queues, act, urls, lost>>
  BY DEF Vector!Refresh
<1>2. /\ made' \in [edits : Nat, actions : Nat, refreshes : Nat, files : Nat]
      /\ made'.edits = made.edits /\ made'.files = made.files
  <2>1. made \in [edits : Nat, actions : Nat, refreshes : Nat, files : Nat]
    BY DEF VectorTypeOK
  <2>2. made' = [made EXCEPT !.refreshes = @ + 1]
    BY DEF Vector!Refresh
  <2> QED BY <2>1, <2>2
<1>3. /\ ui' \in Interface
      /\ ui'.revision = ui.revision /\ ui'.latest = ui.latest /\ ui'.preview = ui.preview
      /\ ui'.shown = ui.shown
  BY DEF Vector!Refresh, VectorTypeOK, Interface
<1> DEFINE x == [exp |-> Cur.exp, stage |-> "sent", ok |-> FALSE]
<1>4. x \in Compile /\ x.stage = "sent"
  <2>1. Cur.exp \in Identities
    BY CurIsQueue DEF Queue
  <2> QED BY <2>1 DEF Compile, CompileStages
<1>5. compiles' = Append(compiles, x)
  BY CurIsQueue DEF Vector!Refresh, Vector!Request
<1> HIDE DEF x
<1>6. compiles' \in Seq(Compile)
  BY <1>4, <1>5 DEF VectorTypeOK
<1>7. VectorTypeOK'
  BY <1>1, <1>2, <1>3, <1>6 DEF VectorTypeOK
<1> QED BY <1>1, <1>2, <1>3, <1>4, <1>5, <1>7

\* A compile goes on; what awaits it may end.
ActEnds == act' = act \/ (act # None /\ act.stage = "compiling" /\ act' = None)

LEMMA EndAwaitEnds ==
  ASSUME NEW c, act' = Vector!EndAwait(c)
  PROVE  ActEnds
BY DEF Vector!EndAwait, ActEnds

LEMMA ServeCompileMoves ==
  ASSUME VectorTypeOK, NEW c \in 1..Len(compiles), Vector!ServeCompile(c)
  PROVE  /\ VectorTypeOK' /\ UNCHANGED <<queues, ui, act, urls, made, lost>>
         /\ session'.rev = session.rev /\ session'.src = session.src
         /\ Len(compiles') = Len(compiles)
         /\ \A j \in 1..Len(compiles) : j # c => compiles'[j] = compiles[j]
         /\ compiles[c].stage \in {"sent", "running"}
         /\ compiles'[c].stage \in {"running", "answered", "refused"}
<1>1. compiles[c] \in Compile /\ session \in SessionState /\ compiles \in Seq(Compile)
  BY CurIsQueue DEF VectorTypeOK
<1>2. compiles[c].stage \in {"sent", "running"} /\ UNCHANGED <<queues, ui, act, urls, made, lost>>
  BY DEF Vector!ServeCompile
<1>3. /\ session' \in SessionState
      /\ session'.rev = session.rev /\ session'.src = session.src
  BY <1>1 DEF Vector!ServeCompile, SessionState
<1>4. PICK x \in Compile :
        x.stage \in {"running", "answered", "refused"} /\ compiles' = [compiles EXCEPT ![c] = x]
  <2>1. CASE compiles[c].stage = "sent"
    <3> DEFINE s == IF Vector!CheckExpected(compiles[c].exp) THEN "running" ELSE "refused"
               x == [compiles[c] EXCEPT !.stage = s]
    <3>1. compiles' = [compiles EXCEPT ![c] = x]
      BY <2>1 DEF Vector!ServeCompile
    <3>2. x \in Compile /\ x.stage \in {"running", "refused"}
      BY <1>1 DEF Compile, CompileStages
    <3> HIDE DEF x
    <3> QED BY <3>1, <3>2
  <2>2. CASE compiles[c].stage = "running"
    <3> DEFINE x == [compiles[c] EXCEPT !.stage = "answered", !.ok = session.ok]
               y == [compiles[c] EXCEPT !.stage = "refused"]
    <3>1. compiles' = [compiles EXCEPT ![c] = x] \/ compiles' = [compiles EXCEPT ![c] = y]
      BY <2>2 DEF Vector!ServeCompile
    <3>2. x \in Compile /\ x.stage = "answered"
      BY <1>1 DEF Compile, CompileStages, SessionState
    <3>3. y \in Compile /\ y.stage = "refused"
      BY <1>1 DEF Compile, CompileStages
    <3> HIDE DEF x, y
    <3> QED BY <3>1, <3>2, <3>3
  <2> QED BY <1>2, <2>1, <2>2
<1>5. /\ compiles' \in Seq(Compile) /\ Len(compiles') = Len(compiles)
      /\ compiles'[c] = x
      /\ \A j \in 1..Len(compiles) : j # c => compiles'[j] = compiles[j]
  BY <1>1, <1>4, CompileReplaced
<1>6. VectorTypeOK'
  BY <1>2, <1>3, <1>5 DEF VectorTypeOK
<1> QED BY <1>2, <1>3, <1>4, <1>5, <1>6

LEMMA AnswerCompileMoves ==
  ASSUME VectorTypeOK, NEW c \in 1..Len(compiles), Vector!AnswerCompile(c)
  PROVE  /\ VectorTypeOK' /\ UNCHANGED <<session, queues, made, lost>> /\ ActEnds
         /\ Len(compiles') = Len(compiles)
         /\ \A j \in 1..Len(compiles) : j # c => compiles'[j] = compiles[j]
         /\ compiles[c].stage \in {"answered", "refused"}
         /\ \/ compiles'[c].stage = "decoding" /\ urls' = [urls EXCEPT !.live = @ \cup {c}]
            \/ compiles'[c].stage = "done" /\ urls' = urls
         /\ ui'.revision = ui.revision /\ ui'.latest = ui.latest /\ ui'.preview = ui.preview
         /\ ui'.shown = ui.shown
<1> DEFINE drawn == Vector!StillCurrent(c) /\ compiles[c].stage = "answered" /\ compiles[c].ok
           x == [compiles[c] EXCEPT !.stage = IF drawn THEN "decoding" ELSE "done"]
<1>1. compiles[c] \in Compile /\ compiles \in Seq(Compile) /\ ui \in Interface
      /\ urls \in [live : SUBSET Nat, lastGood : Nat] /\ act \in Actions \cup {None} /\ c \in Nat
  BY CurIsQueue DEF VectorTypeOK
<1>2. /\ compiles[c].stage \in {"answered", "refused"} /\ UNCHANGED <<session, queues, made, lost>>
      /\ compiles' = [compiles EXCEPT ![c] = x]
      /\ urls' = IF drawn THEN [urls EXCEPT !.live = @ \cup {c}] ELSE urls
      /\ act' = IF drawn THEN act ELSE Vector!EndAwait(c)
  BY DEF Vector!AnswerCompile
<1>3. /\ ui' \in Interface
      /\ ui'.revision = ui.revision /\ ui'.latest = ui.latest /\ ui'.preview = ui.preview
      /\ ui'.shown = ui.shown
  <2> DEFINE current == Vector!StillCurrent(c)
             e == ui.error \/ current
             r == ui.receipt /\ ~(current /\ compiles[c].stage = "answered")
  <2>1. ui' = IF drawn THEN [ui EXCEPT !.receipt = TRUE]
              ELSE [ui EXCEPT !.compiling = FALSE, !.error = e, !.receipt = r]
    BY DEF Vector!AnswerCompile
  <2>2. e \in BOOLEAN /\ r \in BOOLEAN
    OBVIOUS
  <2> HIDE DEF e, r, drawn
  <2> QED BY <1>1, <2>1, <2>2 DEF Interface
<1>4. x \in Compile /\ x.stage = IF drawn THEN "decoding" ELSE "done"
  BY <1>1 DEF Compile, CompileStages
<1>5. ActEnds /\ act' \in Actions \cup {None}
  BY <1>1, <1>2, EndAwaitEnds DEF ActEnds
<1>6. /\ urls' \in [live : SUBSET Nat, lastGood : Nat]
      /\ ~drawn => urls' = urls
      /\ drawn => urls' = [urls EXCEPT !.live = @ \cup {c}]
  BY <1>1, <1>2
<1> HIDE DEF x, drawn
<1>7. /\ compiles' \in Seq(Compile) /\ Len(compiles') = Len(compiles)
      /\ compiles'[c] = x
      /\ \A j \in 1..Len(compiles) : j # c => compiles'[j] = compiles[j]
  BY <1>1, <1>2, <1>4, CompileReplaced
<1>8. VectorTypeOK'
  BY <1>2, <1>3, <1>5, <1>6, <1>7 DEF VectorTypeOK
<1> QED BY <1>2, <1>3, <1>4, <1>5, <1>6, <1>7, <1>8

LEMMA DecodeMoves ==
  ASSUME VectorTypeOK, NEW c \in 1..Len(compiles), Vector!Decode(c)
  PROVE  /\ VectorTypeOK' /\ UNCHANGED <<session, queues, made, lost>> /\ ActEnds
         /\ Len(compiles') = Len(compiles)
         /\ \A j \in 1..Len(compiles) : j # c => compiles'[j] = compiles[j]
         /\ compiles[c].stage = "decoding" /\ compiles'[c].stage = "done"
         /\ ui'.revision = ui.revision /\ ui'.latest = ui.latest
         /\ \/ /\ urls' = [live |-> urls.live \ {urls.lastGood}, lastGood |-> c]
               /\ ui'.shown = c /\ ui'.preview = ui.latest
            \/ /\ urls' = [urls EXCEPT !.live = @ \ {c}]
               /\ ui'.shown = ui.shown /\ ui'.preview = ui.preview
<1> DEFINE x == [compiles[c] EXCEPT !.stage = "done"]
<1>1. compiles[c] \in Compile /\ compiles \in Seq(Compile) /\ ui \in Interface
      /\ urls \in [live : SUBSET Nat, lastGood : Nat] /\ act \in Actions \cup {None} /\ c \in Nat
  BY CurIsQueue DEF VectorTypeOK
<1>2. /\ compiles[c].stage = "decoding" /\ UNCHANGED <<session, queues, made, lost>>
      /\ compiles' = [compiles EXCEPT ![c] = x]
      /\ act' = Vector!EndAwait(c)
  BY DEF Vector!Decode
<1>3. PICK decoded \in BOOLEAN :
        LET accepted == decoded /\ Vector!StillCurrent(c)
        IN /\ urls' = Vector!ReplaceLastGood(c, accepted)
           /\ ui' = IF accepted
                    THEN [ui EXCEPT !.preview = compiles[c].exp[1], !.shown = c, !.compiling = FALSE]
                    ELSE [ui EXCEPT !.compiling = FALSE,
                                    !.error = @ \/ (~decoded /\ Vector!StillCurrent(c))]
  BY DEF Vector!Decode
<1> DEFINE accepted == decoded /\ Vector!StillCurrent(c)
           e == ui.error \/ (~decoded /\ Vector!StillCurrent(c))
<1>4. x \in Compile /\ x.stage = "done"
  BY <1>1 DEF Compile, CompileStages
<1>5. ActEnds /\ act' \in Actions \cup {None}
  BY <1>1, <1>2, EndAwaitEnds DEF ActEnds
<1>6. e \in BOOLEAN
  OBVIOUS
<1>7. accepted => compiles[c].exp[1] = ui.latest
  BY DEF Vector!StillCurrent
<1>8. /\ urls' = IF accepted THEN [live |-> urls.live \ {urls.lastGood}, lastGood |-> c]
                 ELSE [urls EXCEPT !.live = @ \ {c}]
      /\ ui' = IF accepted
               THEN [ui EXCEPT !.preview = ui.latest, !.shown = c, !.compiling = FALSE]
               ELSE [ui EXCEPT !.compiling = FALSE, !.error = e]
  BY <1>3, <1>7 DEF Vector!ReplaceLastGood
<1> HIDE DEF e, accepted, x
<1>9. /\ urls' \in [live : SUBSET Nat, lastGood : Nat] /\ ui' \in Interface
      /\ ui'.revision = ui.revision /\ ui'.latest = ui.latest
      /\ \/ /\ urls' = [live |-> urls.live \ {urls.lastGood}, lastGood |-> c]
            /\ ui'.shown = c /\ ui'.preview = ui.latest
         \/ /\ urls' = [urls EXCEPT !.live = @ \ {c}]
            /\ ui'.shown = ui.shown /\ ui'.preview = ui.preview
  <2>1. CASE accepted
    BY <1>1, <1>8, <2>1 DEF Interface
  <2>2. CASE ~accepted
    BY <1>1, <1>6, <1>8, <2>2 DEF Interface
  <2> QED BY <2>1, <2>2
<1>10. /\ compiles' \in Seq(Compile) /\ Len(compiles') = Len(compiles)
       /\ compiles'[c] = x
       /\ \A j \in 1..Len(compiles) : j # c => compiles'[j] = compiles[j]
  BY <1>1, <1>2, <1>4, CompileReplaced
<1>11. VectorTypeOK'
  BY <1>2, <1>5, <1>9, <1>10 DEF VectorTypeOK
<1> QED BY <1>2, <1>4, <1>5, <1>9, <1>10, <1>11

LEMMA RenderMoves ==
  ASSUME VectorTypeOK, Vector!Render
  PROVE  /\ VectorTypeOK' /\ UNCHANGED <<session, queues, act, compiles, urls, made, lost>>
         /\ ui'.revision = ui.revision /\ ui'.latest = ui.revision /\ ui'.preview = ui.preview
         /\ ui'.shown = ui.shown
BY DEF Vector!Render, VectorTypeOK, Interface

LEMMA StartMoves ==
  ASSUME NoneIsNothing, VectorTypeOK, NEW kind \in Kinds, Vector!Start(kind)
  PROVE  /\ VectorTypeOK' /\ UNCHANGED <<session, queues, ui, compiles, urls, lost>>
         /\ made'.edits = made.edits /\ made'.files = made.files
         /\ act = None /\ act' # None /\ act'.need = made.edits
         /\ \/ act'.stage = "flush"
            \/ /\ act'.stage = "sent" /\ act'.exp = Cur.exp
               /\ Cur.flight = None /\ Cur.tasks = <<>>
<1>1. session \in SessionState /\ ui \in Interface /\ Cur \in Queue /\ Vector!Cur = Cur
      /\ made \in [edits : Nat, actions : Nat, refreshes : Nat, files : Nat]
  BY CurIsQueue DEF VectorTypeOK
<1> DEFINE idle == Vector!Flushed(Cur)
           p == IF kind \in Vector!Applying THEN ui.pending[Vector!About(kind)]
                ELSE IF kind = "adopt" THEN ui.ver ELSE None
           asked == kind \in Vector!Replacing /\ ui.dirty
           a == [kind |-> kind, id |-> made.actions + 1, need |-> made.edits, asked |-> asked,
                 stage |-> IF idle THEN "sent" ELSE "flush", exp |-> IF idle THEN Cur.exp ELSE None,
                 plan |-> p, answer |-> None, compile |-> 0]
<1>2. act' = a /\ act = None /\ UNCHANGED <<session, queues, ui, compiles, urls, lost>>
  BY <1>1 DEF Vector!Start, Vector!Offered
<1>3. /\ made' \in [edits : Nat, actions : Nat, refreshes : Nat, files : Nat]
      /\ made'.edits = made.edits /\ made'.files = made.files
  BY <1>1 DEF Vector!Start
<1>4. p \in Nat \cup {None}
  BY <1>1 DEF Interface, Vector!About, Vector!Publishing
<1>5. kind \in Vector!AllKinds /\ made.actions + 1 \in Nat /\ made.edits \in Nat
      /\ Cur.exp \in Identities /\ asked \in BOOLEAN
  BY <1>1 DEF NoneIsNothing, Queue
<1>6. idle <=> Cur.flight = None /\ Cur.tasks = <<>>
  BY DEF Vector!Flushed, Vector!Idle
<1> HIDE DEF p, idle, asked
<1>7. a \in Actions /\ a.need = made.edits
      /\ a.stage = (IF idle THEN "sent" ELSE "flush") /\ a.exp = IF idle THEN Cur.exp ELSE None
  BY <1>4, <1>5 DEF Actions, ActStages
<1> HIDE DEF a
<1>8. a # None
  BY <1>7 DEF NoneIsNothing
<1>9. VectorTypeOK'
  BY <1>2, <1>3, <1>7 DEF VectorTypeOK
<1> QED BY <1>2, <1>3, <1>6, <1>7, <1>8, <1>9

(* The session serves the request of an action. *)

SameAction == act' # None /\ act'.kind = act.kind /\ act'.need = act.need /\ act'.exp = act.exp
SameDraft == session'.rev = session.rev /\ session'.src = session.src

\* Without a draft or a publication to tell of.
ServedQuietly ==
  /\ SameDraft /\ made' = made
  /\ \/ act'.stage = "reserved"
     \/ act'.stage = "answered" /\ act'.answer \in Words
\* A new draft.
ServedDraft ==
  /\ act.exp[1] = session.rev /\ session'.rev = session.rev + 1
  /\ made'.files \in {made.files, made.files + 1}
  /\ session'.src \in {session.src, 0, made'.files}
  /\ act'.stage = "answered" /\ act'.answer \in Drafts
  /\ act'.answer.rev = session'.rev /\ act'.answer.src = session'.src
\* The draft was written to a new file, or exported.
ServedPrint ==
  /\ act.exp[1] = session.rev /\ session'.rev = session.rev
  /\ act'.stage = "answered" /\ act'.answer \in Prints
  /\ \/ act.kind = "saveApply" /\ session'.src = made.files + 1 /\ made'.files = made.files + 1
        /\ act'.answer.src = session'.src
     \/ act.kind = "exportApply" /\ session'.src = session.src /\ made' = made

ActIsServed ==
  /\ UNCHANGED <<queues, ui, compiles, urls, lost>> /\ made'.edits = made.edits
  /\ act # None /\ act.stage \in {"sent", "reserved"} /\ SameAction
  /\ act'.stage = "answered" => Answerable(act')
  /\ ServedQuietly \/ ServedDraft \/ ServedPrint

LEMMA AnswerGiven ==
  ASSUME NoneIsNothing, act \in Actions, NEW a \in Answers, Vector!Answer(a)
  PROVE  act' \in Actions /\ SameAction /\ act'.stage = "answered" /\ act'.answer = a
<1>1. act' = [act EXCEPT !.stage = "answered", !.answer = a]
  BY DEF Vector!Answer
<1>2. act' \in Actions
  BY <1>1 DEF Actions, ActStages
<1>3. act' # None
  BY <1>2 DEF NoneIsNothing
<1> QED BY <1>1, <1>2, <1>3 DEF SameAction, Actions

LEMMA ActReserved ==
  ASSUME NoneIsNothing, act \in Actions, act' = [act EXCEPT !.stage = "reserved"]
  PROVE  act' \in Actions /\ SameAction /\ act'.stage = "reserved"
<1>1. act' \in Actions
  BY DEF Actions, ActStages
<1>2. act' # None
  BY <1>1 DEF NoneIsNothing
<1> QED BY <1>1, <1>2 DEF SameAction, Actions

LEMMA ActionServed ==
  ASSUME VectorTypeOK, NEW kinds, NEW stage, Vector!Served(kinds, stage)
  PROVE  act \in Actions /\ act # None /\ act.kind \in kinds /\ act.stage = stage
BY DEF VectorTypeOK, Vector!Served

LEMMA RefusalMoves ==
  ASSUME NoneIsNothing, VectorTypeOK, act # None, act.stage \in {"sent", "reserved"},
         UNCHANGED <<queues, ui, compiles, urls, made, lost>>, Vector!Refuse
  PROVE  VectorTypeOK' /\ ActIsServed
<1>1. Vector!Refused \in Words /\ Vector!Refused \in Answers
  BY AnswersDiffer DEF Answers
<1>2. act \in Actions /\ Vector!Answer(Vector!Refused) /\ session' = session
  BY DEF VectorTypeOK, Vector!Refuse
<1>3. act' \in Actions /\ SameAction /\ act'.stage = "answered" /\ act'.answer = Vector!Refused
  BY <1>1, <1>2, AnswerGiven
<1>4. VectorTypeOK'
  BY <1>2, <1>3 DEF VectorTypeOK
<1>5. Answerable(act')
  BY <1>2, <1>3 DEF Answerable, SameAction, Actions, Vector!AllKinds
<1> QED BY <1>1, <1>2, <1>3, <1>4, <1>5 DEF ActIsServed, ServedQuietly, SameDraft

LEMMA ReplacementsMove ==
  ASSUME NoneIsNothing, VectorTypeOK,
         Vector!BeginReplacement \/ Vector!CancelReplacement \/ Vector!FailReplacement
  PROVE  VectorTypeOK' /\ ActIsServed
<1>1. CASE Vector!BeginReplacement
  <2>1. /\ act \in Actions /\ act # None /\ act.stage = "sent" /\ act.kind \in Vector!Replacing
        /\ UNCHANGED <<queues, ui, compiles, urls, made, lost>>
    BY <1>1, ActionServed DEF Vector!BeginReplacement
  <2>2. CASE Vector!Refuse
    BY <2>1, <2>2, RefusalMoves
  <2>3. CASE /\ session' = [session EXCEPT !.intent = act.id]
             /\ act' = [act EXCEPT !.stage = "reserved"]
    <3>1. session' \in SessionState /\ SameDraft
      BY <2>1, <2>3 DEF VectorTypeOK, SessionState, Actions, SameDraft
    <3>2. act' \in Actions /\ SameAction /\ act'.stage = "reserved"
      BY <2>1, <2>3, ActReserved
    <3>3. VectorTypeOK'
      BY <2>1, <3>1, <3>2 DEF VectorTypeOK
    <3> QED BY <2>1, <3>1, <3>2, <3>3 DEF ActIsServed, ServedQuietly
  <2> QED BY <1>1, <2>2, <2>3 DEF Vector!BeginReplacement
<1>2. CASE Vector!CancelReplacement
  <2>1. /\ act \in Actions /\ act # None /\ act.stage = "reserved"
        /\ act.kind \in {"open", "import"}
        /\ UNCHANGED <<queues, ui, compiles, urls, made, lost>>
    BY <1>2, ActionServed DEF Vector!CancelReplacement
  <2>2. session' \in SessionState /\ SameDraft
    BY <1>2 DEF Vector!CancelReplacement, VectorTypeOK, SessionState, SameDraft
  <2>3. PICK a \in {Vector!Cancelled, Vector!Refused} : Vector!Answer(a)
    BY <1>2 DEF Vector!CancelReplacement
  <2>4. a \in Words /\ a \in Answers
    BY AnswersDiffer DEF Answers
  <2>5. act' \in Actions /\ SameAction /\ act'.stage = "answered" /\ act'.answer = a
    BY <2>1, <2>3, <2>4, AnswerGiven
  <2>6. VectorTypeOK'
    BY <2>1, <2>2, <2>5 DEF VectorTypeOK
  <2>7. Answerable(act')
    BY <2>1, <2>5 DEF Answerable, SameAction, Vector!Replacing
  <2> QED BY <2>1, <2>2, <2>4, <2>5, <2>6, <2>7 DEF ActIsServed, ServedQuietly
<1>3. CASE Vector!FailReplacement
  <2>1. /\ act # None /\ act.stage = "reserved"
        /\ UNCHANGED <<queues, ui, compiles, urls, made, lost>> /\ Vector!Refuse
    BY <1>3, ActionServed DEF Vector!FailReplacement
  <2> QED BY <2>1, RefusalMoves
<1> QED BY <1>1, <1>2, <1>3

LEMMA DraftsDiffer ==
  ASSUME NEW s \in SessionState
  PROVE  /\ Vector!Draft(s) \in Drafts /\ Vector!Draft(s) \in Answers
         /\ Vector!Draft(s).rev = s.rev /\ Vector!Draft(s).src = s.src
BY DEF Vector!Draft, Drafts, Answers, SessionState

LEMMA CommitMoves ==
  ASSUME NoneIsNothing, VectorTypeOK, Vector!CommitReplacement
  PROVE  VectorTypeOK' /\ ActIsServed
<1>1. /\ act \in Actions /\ act # None /\ act.stage = "reserved" /\ act.kind \in Vector!Replacing
      /\ UNCHANGED <<queues, ui, compiles, urls, lost>> /\ session.rev = act.exp[1]
  BY ActionServed DEF Vector!CommitReplacement, Vector!ValidateReservation
<1>2. session \in SessionState /\ made.files \in Nat
  BY DEF VectorTypeOK
<1> DEFINE src == IF act.kind = "new" THEN 0 ELSE made.files + 1
           files == IF act.kind = "new" THEN made.files ELSE made.files + 1
           s == Vector!Advance(session)
<1>3. /\ made' \in [edits : Nat, actions : Nat, refreshes : Nat, files : Nat]
      /\ made'.edits = made.edits /\ made'.files = files
  <2>1. made' = [made EXCEPT !.files = files]
    BY DEF Vector!CommitReplacement
  <2>2. files \in Nat
    BY <1>2
  <2> HIDE DEF files
  <2> QED BY <2>1, <2>2 DEF VectorTypeOK
<1>4. s \in SessionState /\ s.rev = session.rev + 1
  BY <1>2, SessionAdvances
<1>5. session' = [s EXCEPT !.src = src, !.dirty = act.kind # "open", !.intent = None,
                           !.compiled = TRUE, !.ok = TRUE]
  BY DEF Vector!CommitReplacement
<1>6. src \in Nat /\ (act.kind # "open") \in BOOLEAN
  BY <1>2
<1> HIDE DEF s
<1>7. session' \in SessionState /\ session'.rev = session.rev + 1 /\ session'.src = src
  BY <1>4, <1>5, <1>6 DEF SessionState
<1>8. Vector!Answer(Vector!Draft(session'))
  BY DEF Vector!CommitReplacement
<1>9. /\ act' \in Actions /\ SameAction /\ act'.stage = "answered" /\ act'.answer \in Drafts
      /\ act'.answer.rev = session'.rev /\ act'.answer.src = session'.src
  BY <1>1, <1>7, <1>8, AnswerGiven, DraftsDiffer
<1>10. VectorTypeOK'
  BY <1>1, <1>3, <1>7, <1>9 DEF VectorTypeOK
<1>11. Answerable(act')
  BY <1>1, <1>9 DEF Answerable, SameAction
<1> QED BY <1>1, <1>3, <1>7, <1>9, <1>10, <1>11 DEF ActIsServed, ServedDraft

LEMMA PlansMove ==
  ASSUME NoneIsNothing, VectorTypeOK, Vector!BeginPlan \/ Vector!RetainPlan
  PROVE  VectorTypeOK' /\ ActIsServed
<1>1. CASE Vector!BeginPlan
  <2>1. /\ act \in Actions /\ act # None /\ act.stage = "sent" /\ act.kind \in Vector!Planning
        /\ UNCHANGED <<queues, ui, compiles, urls, made, lost>>
    BY <1>1, ActionServed DEF Vector!BeginPlan
  <2>2. CASE Vector!Refuse
    BY <2>1, <2>2, RefusalMoves
  <2>3. CASE act' = [act EXCEPT !.stage = "reserved"] /\ UNCHANGED session
    <3>1. act' \in Actions /\ SameAction /\ act'.stage = "reserved"
      BY <2>1, <2>3, ActReserved
    <3>2. VectorTypeOK'
      BY <2>1, <2>3, <3>1 DEF VectorTypeOK
    <3> QED BY <2>1, <2>3, <3>1, <3>2 DEF ActIsServed, ServedQuietly, SameDraft
  <2> QED BY <1>1, <2>2, <2>3 DEF Vector!BeginPlan
<1>2. CASE Vector!RetainPlan
  <2>1. /\ act \in Actions /\ act # None /\ act.stage = "reserved" /\ act.kind \in Vector!Planning
        /\ UNCHANGED <<queues, ui, compiles, urls, made, lost>>
    BY <1>2, ActionServed DEF Vector!RetainPlan
  <2>2. CASE Vector!Refuse
    BY <2>1, <2>2, RefusalMoves
  <2>3. ASSUME NEW a \in {Vector!Said("planned"), Vector!Cancelled}, Vector!Answer(a),
               session' \in SessionState, SameDraft
        PROVE  VectorTypeOK' /\ ActIsServed
    <3>1. a \in Words /\ a \in Answers
      BY AnswersDiffer DEF Answers
    <3>2. act' \in Actions /\ SameAction /\ act'.stage = "answered" /\ act'.answer = a
      BY <2>1, <2>3, <3>1, AnswerGiven
    <3>3. VectorTypeOK'
      BY <2>1, <2>3, <3>2 DEF VectorTypeOK
    <3>4. Answerable(act')
      BY <2>1, <3>2 DEF Answerable, SameAction
    <3> QED BY <2>1, <2>3, <3>1, <3>2, <3>3, <3>4 DEF ActIsServed, ServedQuietly
  <2>4. session \in SessionState
    BY DEF VectorTypeOK
  <2>5. CASE /\ session' = [session EXCEPT !.plans[Vector!About(act.kind)] =
                              [id |-> act.id, rev |-> session.rev]]
             /\ Vector!Answer(Vector!Said("planned"))
    <3>1. session' \in SessionState /\ SameDraft
      BY <2>1, <2>4, <2>5 DEF SessionState, SameDraft, Actions
    <3> QED BY <2>3, <2>5, <3>1
  <2>6. CASE Vector!Answer(Vector!Cancelled) /\ UNCHANGED session
    BY <2>3, <2>4, <2>6 DEF SameDraft
  <2> QED BY <1>2, <2>2, <2>5, <2>6 DEF Vector!RetainPlan
<1> QED BY <1>1, <1>2

LEMMA ApplyMoves ==
  ASSUME NoneIsNothing, VectorTypeOK, ActInOrder, Vector!Apply
  PROVE  VectorTypeOK' /\ ActIsServed
<1> DEFINE p == Vector!About(act.kind)
           plan == session.plans[p]
           taken == [session EXCEPT !.plans[p] = None]
<1>1. /\ act \in Actions /\ act # None /\ act.stage = "sent" /\ act.kind \in Vector!Applying
      /\ UNCHANGED <<queues, ui, compiles, urls, lost>>
  BY ActionServed DEF Vector!Apply
<1>2. session \in SessionState /\ made.files \in Nat /\ made.edits \in Nat
  BY DEF VectorTypeOK
<1>3. taken \in SessionState /\ taken.rev = session.rev /\ taken.src = session.src
  BY <1>2 DEF SessionState, Vector!About, Vector!Publishing
<1>4. \/ Vector!Refuse /\ UNCHANGED made
      \/ /\ Vector!CheckExpected(act.exp) /\ plan # None /\ plan.rev = session.rev
         /\ session' = IF p = "export" THEN taken
                       ELSE [taken EXCEPT !.src = made.files + 1, !.dirty = FALSE,
                                          !.plans = Vector!NoPlans, !.ver = None]
         /\ made' = [made EXCEPT !.files = IF p = "save" THEN @ + 1 ELSE @]
         /\ Vector!Answer([published |-> plan.rev, src |-> session'.src])
      \/ /\ session' = taken
         /\ Vector!Answer(Vector!Refused)
         /\ UNCHANGED made
  BY DEF Vector!Apply
<1>5. CASE Vector!Refuse /\ UNCHANGED made
  BY <1>1, <1>5, RefusalMoves
<1>6. CASE session' = taken /\ Vector!Answer(Vector!Refused) /\ UNCHANGED made
  <2>1. Vector!Refused \in Words /\ Vector!Refused \in Answers
    BY AnswersDiffer DEF Answers
  <2>2. act' \in Actions /\ SameAction /\ act'.stage = "answered" /\ act'.answer = Vector!Refused
    BY <1>1, <1>6, <2>1, AnswerGiven
  <2>3. VectorTypeOK'
    BY <1>1, <1>3, <1>6, <2>2 DEF VectorTypeOK
  <2>4. Answerable(act')
    BY <1>1, <2>2 DEF Answerable, SameAction
  <2> QED BY <1>1, <1>3, <1>6, <2>1, <2>2, <2>3, <2>4 DEF ActIsServed, ServedQuietly, SameDraft
<1>7. CASE /\ Vector!CheckExpected(act.exp) /\ plan # None /\ plan.rev = session.rev
           /\ session' = IF p = "export" THEN taken
                         ELSE [taken EXCEPT !.src = made.files + 1, !.dirty = FALSE,
                                            !.plans = Vector!NoPlans, !.ver = None]
           /\ made' = [made EXCEPT !.files = IF p = "save" THEN @ + 1 ELSE @]
           /\ Vector!Answer([published |-> plan.rev, src |-> session'.src])
  <2>1. p = IF act.kind = "saveApply" THEN "save" ELSE "export"
    BY <1>1 DEF Vector!About, Vector!Applying
  <2>2. Vector!NoPlans \in [Vector!Publishing -> [id : Nat, rev : Nat] \cup {None}]
    BY DEF Vector!NoPlans
  <2> DEFINE files == IF p = "save" THEN made.files + 1 ELSE made.files
  <2>3. /\ made' \in [edits : Nat, actions : Nat, refreshes : Nat, files : Nat]
        /\ made'.edits = made.edits /\ made'.files = files
    <3>1. made' = [made EXCEPT !.files = files]
      BY <1>7
    <3>2. files \in Nat
      BY <1>2
    <3> HIDE DEF files
    <3> QED BY <3>1, <3>2 DEF VectorTypeOK
  <2>4. p = "export" => made' = made
    <3>1. p = "export" => made' = [made EXCEPT !.files = made.files]
      BY <1>7
    <3> QED BY <3>1 DEF VectorTypeOK
  <2> HIDE DEF taken, plan, p
  <2>5. /\ session' \in SessionState /\ session'.rev = session.rev
        /\ session'.src = IF p = "export" THEN session.src ELSE made.files + 1
    <3>1. CASE p = "export"
      BY <1>3, <1>7, <3>1
    <3>2. CASE p # "export"
      <4>1. made.files + 1 \in Nat
        BY <1>2
      <4> QED BY <1>3, <1>7, <2>2, <3>2, <4>1 DEF SessionState
    <3> QED BY <3>1, <3>2
  <2> DEFINE a == [published |-> plan.rev, src |-> session'.src]
  <2>6. a \in Prints /\ a \in Answers /\ a.src = session'.src
    BY <1>2, <1>7, <2>5 DEF Prints, Answers, SessionState
  <2>7. Vector!Answer(a)
    BY <1>7
  <2> HIDE DEF a
  <2>8. act' \in Actions /\ SameAction /\ act'.stage = "answered" /\ act'.answer = a
    BY <1>1, <2>6, <2>7, AnswerGiven
  <2>9. VectorTypeOK'
    BY <1>1, <2>3, <2>5, <2>8 DEF VectorTypeOK
  <2>10. Answerable(act')
    BY <1>1, <2>6, <2>8 DEF Answerable, SameAction
  <2>11. act.exp[1] = session.rev
    BY <1>7 DEF Vector!CheckExpected, Vector!Identity
  <2>12. act.kind \in {"saveApply", "exportApply"}
    BY <1>1 DEF Vector!Applying
  <2>13. ServedPrint
    <3>1. CASE act.kind = "saveApply"
      BY <2>1, <2>3, <2>5, <2>6, <2>8, <2>11, <3>1 DEF ServedPrint
    <3>2. CASE act.kind = "exportApply"
      BY <2>1, <2>4, <2>5, <2>6, <2>8, <2>11, <3>2 DEF ServedPrint
    <3> QED BY <2>12, <3>1, <3>2
  <2> QED BY <1>1, <2>3, <2>8, <2>9, <2>10, <2>13 DEF ActIsServed
<1> HIDE DEF p, plan, taken
<1> QED BY <1>4, <1>5, <1>6, <1>7

LEMMA BindVerifyAdoptMoves ==
  ASSUME NoneIsNothing, VectorTypeOK, Vector!BindVerifyAdopt
  PROVE  VectorTypeOK' /\ ActIsServed
<1>1. /\ act \in Actions /\ act # None /\ act.stage = "sent"
      /\ act.kind \in {"bind", "verify", "adopt"}
      /\ UNCHANGED <<queues, ui, compiles, urls, made, lost>>
  BY ActionServed DEF Vector!BindVerifyAdopt
<1>2. session \in SessionState
  BY DEF VectorTypeOK
<1> DEFINE s == Vector!Advance(session)
<1>3. s \in SessionState /\ s.rev = session.rev + 1 /\ s.src = session.src
  BY <1>2, SessionAdvances
<1>4. \/ Vector!Refuse
      \/ /\ Vector!CheckExpected(act.exp)
         /\ \/ /\ act.kind = "bind"
               /\ \E ok \in BOOLEAN : session' = [s EXCEPT !.dirty = TRUE, !.ok = ok]
               /\ Vector!Answer(Vector!Draft(session'))
            \/ /\ act.kind = "verify"
               /\ session' = [session EXCEPT !.ver = act.id]
               /\ Vector!Answer(Vector!Said("verified"))
            \/ /\ act.kind = "adopt"
               /\ session' = [s EXCEPT !.dirty = TRUE, !.src = 0, !.ok = TRUE]
               /\ Vector!Answer(Vector!Draft(session'))
  BY <1>1 DEF Vector!BindVerifyAdopt
<1> HIDE DEF s
<1>5. CASE Vector!Refuse
  BY <1>1, <1>5, RefusalMoves
<1>6. CASE /\ act.kind = "verify"
           /\ session' = [session EXCEPT !.ver = act.id]
           /\ Vector!Answer(Vector!Said("verified"))
  <2>1. session' \in SessionState /\ SameDraft
    BY <1>1, <1>2, <1>6 DEF SessionState, SameDraft, Actions
  <2>2. Vector!Said("verified") \in Words /\ Vector!Said("verified") \in Answers
    BY AnswersDiffer DEF Answers
  <2>3. act' \in Actions /\ SameAction /\ act'.stage = "answered"
        /\ act'.answer = Vector!Said("verified")
    BY <1>1, <1>6, <2>2, AnswerGiven
  <2>4. VectorTypeOK'
    BY <1>1, <2>1, <2>3 DEF VectorTypeOK
  <2>5. Answerable(act')
    BY <1>6, <2>3 DEF Answerable, SameAction
  <2> QED BY <1>1, <2>1, <2>2, <2>3, <2>4, <2>5 DEF ActIsServed, ServedQuietly
<1>7. ASSUME act.kind \in {"bind", "adopt"}, Vector!CheckExpected(act.exp),
             session' \in SessionState, session'.rev = session.rev + 1,
             session'.src \in {session.src, 0}, Vector!Answer(Vector!Draft(session'))
      PROVE  VectorTypeOK' /\ ActIsServed
  <2>1. /\ act' \in Actions /\ SameAction /\ act'.stage = "answered" /\ act'.answer \in Drafts
        /\ act'.answer.rev = session'.rev /\ act'.answer.src = session'.src
    BY <1>1, <1>7, AnswerGiven, DraftsDiffer
  <2>2. VectorTypeOK'
    BY <1>1, <1>7, <2>1 DEF VectorTypeOK
  <2>3. Answerable(act')
    BY <1>7, <2>1 DEF Answerable, SameAction
  <2>4. act.exp[1] = session.rev
    BY <1>7 DEF Vector!CheckExpected, Vector!Identity
  <2> QED BY <1>1, <1>7, <2>1, <2>2, <2>3, <2>4 DEF ActIsServed, ServedDraft
<1>8. CASE /\ Vector!CheckExpected(act.exp) /\ act.kind = "bind"
           /\ \E ok \in BOOLEAN : session' = [s EXCEPT !.dirty = TRUE, !.ok = ok]
           /\ Vector!Answer(Vector!Draft(session'))
  <2>1. /\ session' \in SessionState /\ session'.rev = session.rev + 1
        /\ session'.src = session.src
    BY <1>3, <1>8 DEF SessionState
  <2> QED BY <1>7, <1>8, <2>1
<1>9. CASE /\ Vector!CheckExpected(act.exp) /\ act.kind = "adopt"
           /\ session' = [s EXCEPT !.dirty = TRUE, !.src = 0, !.ok = TRUE]
           /\ Vector!Answer(Vector!Draft(session'))
  <2>1. session' \in SessionState /\ session'.rev = session.rev + 1 /\ session'.src = 0
    BY <1>3, <1>9 DEF SessionState
  <2> QED BY <1>7, <1>9, <2>1
<1> QED BY <1>4, <1>5, <1>6, <1>8, <1>9

(* The page takes the answer to an action. *)

ActIsOver == act' = None \/ (act' # None /\ act'.stage = "compiling" /\ act'.need = act.need)
\* What is compiled is added; the pictures stay.
MayCompile ==
  compiles' = compiles \/ \E x \in Compile : x.stage = "sent" /\ compiles' = Append(compiles, x)
SamePage ==
  ui'.revision = ui.revision /\ ui'.latest = ui.latest /\ ui'.preview = ui.preview
SameQueues ==
  /\ Len(queues') = Len(queues)
  /\ \A j \in 1..Len(queues) : j # Len(queues) => queues'[j] = queues[j]
  /\ Cur'.flight = Cur.flight /\ Cur'.tasks = Cur.tasks

LEMMA ThenCompiles ==
  ASSUME NoneIsNothing, VectorTypeOK, act \in Actions, act.answer \in Drafts, Vector!ThenCompile
  PROVE  /\ compiles' \in Seq(Compile) /\ MayCompile
         /\ act' \in Actions /\ ActIsOver
<1> DEFINE e == <<act.answer.rev, act.answer.src>>
           x == [Vector!Request EXCEPT !.exp = e]
<1>1. e \in Identities
  BY DEF Drafts, Identities
<1>2. compiles' = Append(compiles, x)
  BY DEF Vector!ThenCompile
<1>3. act' = [act EXCEPT !.stage = "compiling", !.compile = Len(compiles) + 1]
  BY DEF Vector!ThenCompile
<1> HIDE DEF e
<1>4. x \in Compile /\ x.stage = "sent"
  <2>1. Cur.exp \in Identities /\ Vector!Cur = Cur
    BY CurIsQueue DEF Queue
  <2>2. Vector!Request \in Compile /\ Vector!Request.stage = "sent"
    BY <2>1 DEF Vector!Request, Compile, CompileStages
  <2> QED BY <1>1, <2>2 DEF Compile
<1> HIDE DEF x
<1>5. compiles \in Seq(Compile) /\ Len(compiles) + 1 \in Nat
  BY DEF VectorTypeOK
<1>6. compiles' \in Seq(Compile) /\ MayCompile
  BY <1>2, <1>4, <1>5 DEF MayCompile
<1>7. act' \in Actions /\ act'.stage = "compiling" /\ act'.need = act.need
  BY <1>3, <1>5 DEF Actions, ActStages
<1>8. act' # None
  BY <1>7 DEF NoneIsNothing
<1> QED BY <1>6, <1>7, <1>8 DEF ActIsOver

LEMMA AnswerFits ==
  ASSUME VectorTypeOK, ActInOrder, NEW kinds, Vector!Served(kinds, "answered")
  PROVE  /\ act \in Actions /\ act # None /\ act.kind \in kinds /\ act.stage = "answered"
         /\ Answerable(act)
BY ActionServed DEF ActInOrder, Vector!Served

LEMMA AnswerReplacementMoves ==
  ASSUME NoneIsNothing, VectorTypeOK, ActInOrder, Vector!AnswerReplacement
  PROVE  /\ VectorTypeOK' /\ UNCHANGED <<session, urls, made, lost>> /\ ActLands
         /\ ActIsOver /\ MayCompile
         /\ Len(queues') = Len(queues) + 1
         /\ \A j \in 1..Len(queues) : queues'[j] = queues[j]
         /\ Cur'.exp = <<act.answer.rev, act.answer.src>>
         /\ Cur'.flight = None /\ Cur'.tasks = <<>>
         /\ ui'.revision = act.answer.rev /\ ui'.latest = act.answer.rev
         /\ ui'.preview = ui.preview /\ ui'.shown = ui.shown
<1>1. /\ act \in Actions /\ act # None /\ act.kind \in Vector!Replacing
      /\ act.stage = "answered" /\ Answerable(act)
  BY AnswerFits DEF Vector!AnswerReplacement
<1>2. act.answer \notin {Vector!Refused, Vector!Cancelled}
  BY DEF Vector!AnswerReplacement
<1>3. act.answer \in Drafts
  BY <1>1, <1>2 DEF Answerable, Vector!Replacing, Vector!Planning, Vector!Applying
<1> DEFINE e == <<act.answer.rev, act.answer.src>>
           q == [tasks |-> <<>>, flight |-> None, exp |-> e]
<1>4. e \in Identities /\ act.answer.rev \in Nat /\ act.answer.dirty \in BOOLEAN
  BY <1>3 DEF Drafts, Identities
<1>5. queues' = Append(queues, q) /\ UNCHANGED <<session, urls, made, lost>> /\ Vector!ThenCompile
  BY DEF Vector!AnswerReplacement
<1>6. /\ ui' \in Interface /\ ui'.revision = act.answer.rev /\ ui'.latest = act.answer.rev
      /\ ui'.preview = ui.preview /\ ui'.shown = ui.shown
  <2> DEFINE r == act.answer.rev
             d == act.answer.dirty
  <2>1. ui' = [ui EXCEPT !.revision = r, !.latest = r, !.dirty = d, !.compiling = TRUE,
                         !.error = FALSE]
    BY DEF Vector!AnswerReplacement
  <2>2. ui \in Interface
    BY DEF VectorTypeOK
  <2>3. r \in Nat /\ d \in BOOLEAN
    BY <1>4
  <2> HIDE DEF r, d
  <2>4. ui' \in Interface /\ ui'.revision = r /\ ui'.latest = r
        /\ ui'.preview = ui.preview /\ ui'.shown = ui.shown
    BY <2>1, <2>2, <2>3 DEF Interface
  <2> QED BY <2>4 DEF r
<1> HIDE DEF e
<1>7. q \in Queue /\ q.exp = e /\ q.flight = None /\ q.tasks = <<>>
  BY <1>4 DEF Queue
<1> HIDE DEF q
<1>8. queues \in Seq(Queue)
  BY DEF VectorTypeOK
<1>9. /\ queues' \in Seq(Queue) /\ Len(queues') = Len(queues) + 1
      /\ \A j \in 1..Len(queues) : queues'[j] = queues[j]
      /\ queues'[Len(queues) + 1] = q
  BY <1>5, <1>7, <1>8
<1>10. Cur' = q
  BY <1>9 DEF Cur
<1>11. compiles' \in Seq(Compile) /\ MayCompile /\ act' \in Actions /\ ActIsOver
  BY <1>1, <1>3, <1>5, ThenCompiles
<1>12. VectorTypeOK'
  BY <1>5, <1>6, <1>9, <1>11 DEF VectorTypeOK
<1>13. ActLands
  BY <1>1, <1>3 DEF ActLands, Answered
<1> QED BY <1>5, <1>6, <1>7, <1>9, <1>10, <1>11, <1>12, <1>13 DEF e

LEMMA AnswerRebindMoves ==
  ASSUME NoneIsNothing, VectorTypeOK, ActInOrder, Vector!AnswerRebind
  PROVE  /\ VectorTypeOK' /\ UNCHANGED <<session, urls, made, lost>> /\ ActLands
         /\ ActIsOver /\ MayCompile /\ SameQueues
         /\ Cur'.exp = <<act.answer.rev, act.answer.src>>
         /\ ui'.revision = act.answer.rev /\ ui'.latest = ui.latest
         /\ ui'.preview = ui.preview /\ ui'.shown = ui.shown
<1>1. /\ act \in Actions /\ act # None /\ act.kind \in {"bind", "adopt"}
      /\ act.stage = "answered" /\ Answerable(act)
  BY AnswerFits DEF Vector!AnswerRebind
<1>2. act.answer # Vector!Refused
  BY DEF Vector!AnswerRebind
<1>3. act.answer \in Drafts
  BY <1>1, <1>2 DEF Answerable, Vector!Replacing, Vector!Planning, Vector!Applying
<1> DEFINE e == <<act.answer.rev, act.answer.src>>
           r == act.answer.rev
           d == act.answer.dirty
           q == [Cur EXCEPT !.exp = e]
           bound == [ui EXCEPT !.revision = r, !.dirty = d]
<1>4. e \in Identities /\ r \in Nat /\ d \in BOOLEAN
  BY <1>3 DEF Drafts, Identities
<1>5. Cur \in Queue /\ Len(queues) \in 1..Len(queues) /\ Cur = queues[Len(queues)]
      /\ ui \in Interface /\ queues \in Seq(Queue)
  BY CurIsQueue DEF VectorTypeOK
<1>6. queues' = [queues EXCEPT ![Len(queues)] = q]
  <2>1. queues' = [queues EXCEPT ![Len(queues)].exp = e]
    BY DEF Vector!AnswerRebind
  <2> QED BY <1>5, <2>1
<1>7. /\ UNCHANGED <<session, urls, made, lost>>
      /\ \/ ui' = bound /\ act' = None /\ UNCHANGED compiles
         \/ ui' = [bound EXCEPT !.ver = None, !.compiling = TRUE, !.error = FALSE]
            /\ Vector!ThenCompile
  BY DEF Vector!AnswerRebind
<1> HIDE DEF e, r, d
<1>8. q \in Queue /\ q.exp = e /\ q.flight = Cur.flight /\ q.tasks = Cur.tasks
  BY <1>4, <1>5 DEF Queue
<1>9. /\ bound \in Interface /\ bound.revision = r /\ bound.latest = ui.latest
      /\ bound.preview = ui.preview /\ bound.shown = ui.shown
  BY <1>4, <1>5 DEF Interface
<1> HIDE DEF q, bound
<1>10. /\ queues' \in Seq(Queue) /\ Len(queues') = Len(queues)
       /\ queues'[Len(queues)] = q
       /\ \A j \in 1..Len(queues) : j # Len(queues) => queues'[j] = queues[j]
  BY <1>5, <1>6, <1>8, QueueReplaced
<1>11. Cur' = q
  BY <1>10 DEF Cur
<1>12. /\ ui' \in Interface /\ ui'.revision = r /\ ui'.latest = ui.latest
       /\ ui'.preview = ui.preview /\ ui'.shown = ui.shown
  BY <1>7, <1>9 DEF Interface
<1>13. /\ compiles' \in Seq(Compile) /\ MayCompile
       /\ act' \in Actions \cup {None} /\ ActIsOver
  <2>1. CASE act' = None /\ UNCHANGED compiles
    BY <2>1 DEF VectorTypeOK, MayCompile, ActIsOver
  <2>2. CASE Vector!ThenCompile
    BY <1>1, <1>3, <2>2, ThenCompiles
  <2> QED BY <1>7, <2>1, <2>2
<1>14. VectorTypeOK'
  BY <1>7, <1>10, <1>12, <1>13 DEF VectorTypeOK
<1>15. ActLands
  BY <1>1, <1>3 DEF ActLands, Answered
<1>16. SameQueues
  BY <1>8, <1>10, <1>11 DEF SameQueues
<1>17. Cur'.exp = <<act.answer.rev, act.answer.src>> /\ ui'.revision = act.answer.rev
  BY <1>8, <1>11, <1>12 DEF e, r
<1> QED BY <1>7, <1>12, <1>13, <1>14, <1>15, <1>16, <1>17

LEMMA AnswerWordMoves ==
  ASSUME NoneIsNothing, VectorTypeOK, ActInOrder, Vector!AnswerPlan \/ Vector!AnswerRefusal
  PROVE  /\ VectorTypeOK' /\ UNCHANGED <<session, queues, compiles, urls, made, lost>>
         /\ Answered /\ act.answer \in Words /\ ActIsOver
         /\ SamePage /\ ui'.shown = ui.shown
<1>1. act \in Actions /\ act # None /\ act.stage = "answered"
  BY AnswerFits DEF Vector!AnswerPlan, Vector!AnswerRefusal
<1>2. act.answer \in Words
  BY AnswersDiffer DEF Vector!AnswerPlan, Vector!AnswerRefusal
<1>3. act' = None /\ UNCHANGED <<session, queues, compiles, urls, made, lost>>
  BY DEF Vector!AnswerPlan, Vector!AnswerRefusal
<1>4. ui \in Interface /\ act.id \in Nat
  BY <1>1 DEF VectorTypeOK, Actions
<1>5. PICK p \in Vector!Publishing, e \in BOOLEAN :
        ui' \in {[ui EXCEPT !.ver = act.id], [ui EXCEPT !.pending[p] = act.id],
                 [ui EXCEPT !.pending[p] = None], [ui EXCEPT !.error = e]}
  <2>1. Vector!About(act.kind) \in Vector!Publishing
    BY DEF Vector!About, Vector!Publishing
  <2>2. CASE Vector!AnswerPlan
    <3>1. ui' \in {[ui EXCEPT !.ver = act.id], [ui EXCEPT !.pending[Vector!About(act.kind)] = act.id]}
      BY <2>2 DEF Vector!AnswerPlan
    <3> QED BY <2>1, <3>1
  <2>3. CASE Vector!AnswerRefusal
    <3> DEFINE e == ui.error \/ (act.answer = Vector!Refused /\ act.kind \notin Vector!Planning)
    <3>1. ui' \in {[ui EXCEPT !.pending[Vector!About(act.kind)] = None], [ui EXCEPT !.error = e]}
      BY <2>3 DEF Vector!AnswerRefusal
    <3>2. e \in BOOLEAN
      OBVIOUS
    <3> HIDE DEF e
    <3> QED BY <2>1, <3>1, <3>2
  <2> QED BY <2>2, <2>3
<1>6. ui' \in Interface /\ SamePage /\ ui'.shown = ui.shown
  BY <1>4, <1>5 DEF Interface, SamePage
<1>7. VectorTypeOK'
  BY <1>3, <1>6 DEF VectorTypeOK
<1> QED BY <1>1, <1>2, <1>3, <1>6, <1>7 DEF Answered, ActIsOver

LEMMA AnswerApplyMoves ==
  ASSUME NoneIsNothing, VectorTypeOK, ActInOrder, Vector!AnswerApply
  PROVE  /\ VectorTypeOK' /\ UNCHANGED <<session, compiles, urls, made, lost>> /\ ActIsOver
         /\ Answered /\ act.answer \in Prints /\ SamePage /\ ui'.shown = ui.shown
         /\ \/ act.kind = "saveApply" /\ SameQueues
               /\ Cur'.exp = <<Cur.exp[1], act.answer.src>>
            \/ act.kind # "saveApply" /\ queues' = queues
<1>1. /\ act \in Actions /\ act # None /\ act.kind \in Vector!Applying
      /\ act.stage = "answered" /\ Answerable(act)
  BY AnswerFits DEF Vector!AnswerApply
<1>2. act.answer # Vector!Refused /\ UNCHANGED <<session, compiles, urls, made, lost>>
      /\ act' = None
  BY DEF Vector!AnswerApply
<1>3. act.answer \in Prints
  BY <1>1, <1>2 DEF Answerable, Vector!Replacing, Vector!Planning, Vector!Applying
<1>4. Cur \in Queue /\ Len(queues) \in 1..Len(queues) /\ Cur = queues[Len(queues)]
      /\ ui \in Interface /\ queues \in Seq(Queue) /\ Vector!Cur = Cur
  BY CurIsQueue DEF VectorTypeOK
<1>5. CASE act.kind = "saveApply"
  <2> DEFINE e == <<Cur.exp[1], act.answer.src>>
             q == [Cur EXCEPT !.exp = e]
  <2>1. e \in Identities
    BY <1>3, <1>4 DEF Queue, Identities, Prints
  <2>2. queues' = [queues EXCEPT ![Len(queues)] = q]
    <3>1. queues' = [queues EXCEPT ![Len(queues)].exp = e]
      BY <1>4, <1>5 DEF Vector!AnswerApply, Vector!UpdateSource
    <3> QED BY <1>4, <3>1
  <2>3. ui' = [ui EXCEPT !.dirty = FALSE, !.pending = Vector!NoPlans, !.ver = None]
    BY <1>5 DEF Vector!AnswerApply
  <2> HIDE DEF e
  <2>4. q \in Queue /\ q.exp = e /\ q.flight = Cur.flight /\ q.tasks = Cur.tasks
    BY <1>4, <2>1 DEF Queue
  <2> HIDE DEF q
  <2>5. /\ queues' \in Seq(Queue) /\ Len(queues') = Len(queues)
        /\ queues'[Len(queues)] = q
        /\ \A j \in 1..Len(queues) : j # Len(queues) => queues'[j] = queues[j]
    BY <1>4, <2>2, <2>4, QueueReplaced
  <2>6. Cur' = q
    BY <2>5 DEF Cur
  <2>7. ui' \in Interface /\ SamePage /\ ui'.shown = ui.shown
    BY <1>4, <2>3 DEF Interface, SamePage, Vector!NoPlans
  <2>8. VectorTypeOK'
    BY <1>2, <2>5, <2>7 DEF VectorTypeOK
  <2>9. SameQueues /\ Cur'.exp = <<Cur.exp[1], act.answer.src>>
    BY <2>4, <2>5, <2>6 DEF SameQueues, e
  <2> QED BY <1>1, <1>2, <1>3, <1>5, <2>7, <2>8, <2>9 DEF Answered, ActIsOver
<1>6. CASE act.kind # "saveApply"
  <2>1. ui' = [ui EXCEPT !.pending["export"] = None] /\ queues' = queues
    BY <1>6 DEF Vector!AnswerApply
  <2>2. ui' \in Interface /\ SamePage /\ ui'.shown = ui.shown
    BY <1>4, <2>1 DEF Interface, SamePage
  <2>3. VectorTypeOK'
    BY <1>2, <2>1, <2>2 DEF VectorTypeOK
  <2> QED BY <1>1, <1>2, <1>3, <1>6, <2>1, <2>2, <2>3 DEF Answered, ActIsOver
<1> QED BY <1>5, <1>6

(* The parts of the invariant. *)

LEMMA Numbers ==
  ASSUME VectorTypeOK
  PROVE  /\ session.rev \in Nat /\ session.src \in Nat /\ made.files \in Nat /\ made.edits \in Nat
         /\ ui.revision \in Nat /\ ui.latest \in Nat /\ ui.preview \in Nat
         /\ Cur.exp[1] \in Nat /\ Cur.exp[2] \in Nat /\ Cur.exp = <<Cur.exp[1], Cur.exp[2]>>
         /\ Cur = queues[Len(queues)] /\ Len(queues) \in 1..Len(queues)
         /\ \A i \in 1..Len(queues) :
              /\ queues[i].exp[1] \in Nat /\ queues[i].exp[2] \in Nat
              /\ queues[i].flight # None =>
                   /\ queues[i].flight \in Flights
                   /\ queues[i].flight.exp[1] \in Nat /\ queues[i].flight.exp[2] \in Nat
                   /\ queues[i].flight.edit \in Nat
                   /\ queues[i].flight.answer \in Drafts =>
                        queues[i].flight.answer.rev \in Nat /\ queues[i].flight.answer.src \in Nat
<1>1. \A e \in Identities : e[1] \in Nat /\ e[2] \in Nat /\ e = <<e[1], e[2]>>
  BY DEF Identities
<1>2. /\ session.rev \in Nat /\ session.src \in Nat /\ made.files \in Nat /\ made.edits \in Nat
      /\ ui.revision \in Nat /\ ui.latest \in Nat /\ ui.preview \in Nat
  BY DEF VectorTypeOK, SessionState, Interface
<1>3. Cur = queues[Len(queues)] /\ Len(queues) \in 1..Len(queues) /\ Cur.exp \in Identities
  BY CurIsQueue DEF Queue
<1>4. ASSUME NEW i \in 1..Len(queues)
      PROVE  /\ queues[i].exp[1] \in Nat /\ queues[i].exp[2] \in Nat
             /\ queues[i].flight # None =>
                  /\ queues[i].flight \in Flights
                  /\ queues[i].flight.exp[1] \in Nat /\ queues[i].flight.exp[2] \in Nat
                  /\ queues[i].flight.edit \in Nat
                  /\ queues[i].flight.answer \in Drafts =>
                       queues[i].flight.answer.rev \in Nat /\ queues[i].flight.answer.src \in Nat
  <2>1. queues[i] \in Queue
    BY CurIsQueue
  <2>2. queues[i].exp \in Identities /\ queues[i].flight \in Flights \cup {None}
    BY <2>1 DEF Queue
  <2>3. queues[i].flight \in Flights =>
          queues[i].flight.exp \in Identities /\ queues[i].flight.edit \in Nat
    BY DEF Flights
  <2> QED BY <1>1, <2>2, <2>3 DEF Drafts
<1> QED BY <1>1, <1>2, <1>3, <1>4

\* A draft that nothing touches, while an action comes or goes that moves nothing.
LEMMA DraftKept ==
  ASSUME Landing, QueuesInOrder, queues' = queues, SameDraft, lost' = lost,
         made'.files = made.files,
         act' = act \/ (~ActLands /\ ~SaveLands /\ ~ActLands' /\ ~SaveLands')
  PROVE  Landing' /\ QueuesInOrder'
<1>1. Cur' = Cur /\ Now' = Now
  BY DEF Cur, Now, SameDraft
<1>2. EditLands' <=> EditLands
  BY <1>1 DEF EditLands
<1>3. QueuesInOrder'
  BY <1>1 DEF QueuesInOrder, SameDraft
<1>4. Landing'
  <2>1. CASE act' = act
    <3>1. (ActLands' <=> ActLands) /\ (SaveLands' <=> SaveLands)
      BY <2>1 DEF ActLands, SaveLands, Answered
    <3> QED BY <1>1, <1>2, <2>1, <3>1 DEF Landing, IsOf, SameDraft
  <2>2. CASE ~ActLands /\ ~SaveLands /\ ~ActLands' /\ ~SaveLands'
    BY <1>1, <1>2, <2>2 DEF Landing, IsOf, SameDraft
  <2> QED BY <2>1, <2>2
<1> QED BY <1>3, <1>4

LEMMA ActKept ==
  ASSUME ActInOrder, UnracedInOrder, Vector!ActionsSeeEdits, VectorTypeOK, VectorTypeOK',
         Cur'.flight = Cur.flight, Cur'.tasks = Cur.tasks, made'.edits = made.edits,
         \/ act' = act /\ Cur'.exp = Cur.exp
         \/ ActEnds /\ Cur'.exp = Cur.exp
         \/ Vector!Outstanding /\ ActIsOver
  PROVE  ActInOrder' /\ UnracedInOrder' /\ Vector!ActionsSeeEdits'
<1>1. Vector!Cur = Cur /\ Vector!Cur' = Cur'
  BY DEF Vector!Cur, Cur
<1>2. CASE act' = act /\ Cur'.exp = Cur.exp
  BY <1>1, <1>2
  DEF ActInOrder, UnracedInOrder, Vector!ActionsSeeEdits, Vector!Outstanding, Answerable
<1>3. CASE act # None /\ act.stage = "compiling" /\ act' = None
  BY <1>1, <1>3
  DEF ActInOrder, UnracedInOrder, Vector!ActionsSeeEdits, Vector!Outstanding
<1>4. CASE Vector!Outstanding /\ ActIsOver
  <2>1. Cur.flight # None => Cur.flight.raced
    BY <1>4 DEF UnracedInOrder
  <2>2. UnracedInOrder'
    BY <2>1 DEF UnracedInOrder
  <2>3. ActInOrder'
    BY <1>4 DEF ActIsOver, ActInOrder, Vector!Outstanding
  <2>4. Vector!ActionsSeeEdits'
    BY <1>4 DEF ActIsOver, Vector!ActionsSeeEdits
  <2> QED BY <2>2, <2>3, <2>4
<1> QED BY <1>2, <1>3, <1>4 DEF ActEnds

LEMMA RevisionsKept ==
  ASSUME RevisionsInOrder, SamePage, VectorTypeOK, VectorTypeOK', Cur.exp[1] <= Cur'.exp[1]
  PROVE  RevisionsInOrder'
<1>1. /\ ui.revision \in Nat /\ Cur.exp[1] \in Nat
  BY Numbers
<1>2. Cur'.exp[1] \in Nat
  <2>1. \A e \in Identities : e[1] \in Nat
    BY DEF Identities
  <2>2. Cur'.exp \in Identities
    <3>1. queues' \in Seq(Queue) /\ Len(queues') >= 1
      BY DEF VectorTypeOK
    <3>2. Cur' = queues'[Len(queues')]
      BY DEF Cur
    <3>3. Len(queues') \in 1..Len(queues')
      BY <3>1
    <3>4. Cur' \in Queue
      BY <3>1, <3>2, <3>3
    <3> QED BY <3>4 DEF Queue
  <2> QED BY <2>1, <2>2
<1> QED BY <1>1, <1>2 DEF RevisionsInOrder, SamePage

LEMMA UrlsKept ==
  ASSUME VectorTypeOK, UrlsInOrder, MayCompile, urls' = urls, ui'.shown = ui.shown
  PROVE  UrlsInOrder'
<1>1. CASE compiles' = compiles
  BY <1>1 DEF UrlsInOrder, Vector!ShownUrlIsLive
<1>2. ASSUME NEW x \in Compile, x.stage = "sent", compiles' = Append(compiles, x)
      PROVE  UrlsInOrder'
  <2>1. compiles \in Seq(Compile)
    BY DEF VectorTypeOK
  <2>2. /\ DOMAIN compiles = 1..Len(compiles) /\ Len(compiles) \in Nat
        /\ Len(compiles') = Len(compiles) + 1 /\ DOMAIN compiles' = 1..(Len(compiles) + 1)
        /\ \A j \in 1..Len(compiles) : compiles'[j] = compiles[j]
        /\ compiles'[Len(compiles) + 1] = x
    BY <1>2, <2>1
  <2>3. {c \in DOMAIN compiles' : compiles'[c].stage = "decoding"}
          = {c \in DOMAIN compiles : compiles[c].stage = "decoding"}
    BY <1>2, <2>2
  <2> QED BY <2>2, <2>3 DEF UrlsInOrder, Vector!ShownUrlIsLive
<1> QED BY <1>1, <1>2 DEF MayCompile

LEMMA UrlsMove ==
  ASSUME VectorTypeOK, UrlsInOrder, NEW c \in 1..Len(compiles), Len(compiles') = Len(compiles),
         VectorTypeOK',
         \A j \in 1..Len(compiles) : j # c => compiles'[j] = compiles[j],
         \/ /\ compiles[c].stage \in {"sent", "running"}
            /\ compiles'[c].stage \in {"running", "answered", "refused"}
            /\ urls' = urls /\ ui'.shown = ui.shown
         \/ /\ compiles[c].stage \in {"answered", "refused"} /\ ui'.shown = ui.shown
            /\ \/ compiles'[c].stage = "decoding" /\ urls' = [urls EXCEPT !.live = @ \cup {c}]
               \/ compiles'[c].stage = "done" /\ urls' = urls
         \/ /\ compiles[c].stage = "decoding" /\ compiles'[c].stage = "done"
            /\ \/ /\ urls' = [live |-> urls.live \ {urls.lastGood}, lastGood |-> c]
                  /\ ui'.shown = c
               \/ /\ urls' = [urls EXCEPT !.live = @ \ {c}]
                  /\ ui'.shown = ui.shown
  PROVE  UrlsInOrder'
<1> DEFINE D == {d \in 1..Len(compiles) : compiles[d].stage = "decoding"}
           E == {d \in 1..Len(compiles) : compiles'[d].stage = "decoding"}
<1>1. DOMAIN compiles = 1..Len(compiles) /\ DOMAIN compiles' = 1..Len(compiles)
      /\ urls \in [live : SUBSET Nat, lastGood : Nat] /\ Len(compiles) \in Nat
  BY DEF VectorTypeOK
<1>2. /\ ui.shown = urls.lastGood /\ urls.live = D \cup ({urls.lastGood} \ {0})
      /\ urls.lastGood # 0 => urls.lastGood \in 1..Len(compiles)
                              /\ compiles[urls.lastGood].stage = "done"
  BY <1>1 DEF UrlsInOrder, Vector!ShownUrlIsLive
<1>3. /\ urls.lastGood = c => compiles[c].stage = "done"
      /\ c # 0
  BY <1>2
<1>4. SUFFICES /\ ui'.shown = urls'.lastGood /\ urls'.live = E \cup ({urls'.lastGood} \ {0})
               /\ urls'.lastGood # 0 => urls'.lastGood \in 1..Len(compiles)
                                        /\ compiles'[urls'.lastGood].stage = "done"
  BY <1>1 DEF UrlsInOrder, Vector!ShownUrlIsLive
<1>5. CASE /\ compiles[c].stage \in {"sent", "running"}
           /\ compiles'[c].stage \in {"running", "answered", "refused"}
           /\ urls' = urls /\ ui'.shown = ui.shown
  <2>1. E = D
    BY <1>5
  <2> QED BY <1>2, <1>5, <2>1
<1>6. CASE /\ compiles[c].stage \in {"answered", "refused"} /\ ui'.shown = ui.shown
           /\ compiles'[c].stage = "decoding" /\ urls' = [urls EXCEPT !.live = @ \cup {c}]
  <2>1. E = D \cup {c}
    BY <1>6
  <2>2. urls'.lastGood = urls.lastGood /\ urls'.live = urls.live \cup {c}
    BY <1>1, <1>6
  <2> QED BY <1>2, <1>6, <2>1, <2>2
<1>7. CASE /\ compiles[c].stage \in {"answered", "refused"} /\ ui'.shown = ui.shown
           /\ compiles'[c].stage = "done" /\ urls' = urls
  <2>1. E = D
    BY <1>7
  <2> QED BY <1>2, <1>7, <2>1
<1>8. CASE /\ compiles[c].stage = "decoding" /\ compiles'[c].stage = "done"
           /\ urls' = [live |-> urls.live \ {urls.lastGood}, lastGood |-> c]
           /\ ui'.shown = c
  <2>1. E = D \ {c} /\ c \in D
    BY <1>8
  <2>2. urls'.lastGood = c /\ urls'.live = urls.live \ {urls.lastGood}
    BY <1>8
  <2>3. urls.lastGood \notin D
    <3>1. 0 \notin D
      BY <1>1
    <3> QED BY <1>2, <3>1
  <2>4. urls'.live = D
    BY <1>2, <2>2, <2>3
  <2>5. D = E \cup ({c} \ {0})
    BY <1>3, <2>1
  <2> HIDE DEF D, E
  <2> QED BY <1>8, <2>2, <2>4, <2>5
<1>9. CASE /\ compiles[c].stage = "decoding" /\ compiles'[c].stage = "done"
           /\ urls' = [urls EXCEPT !.live = @ \ {c}]
           /\ ui'.shown = ui.shown
  <2>1. E = D \ {c}
    BY <1>9
  <2>2. urls'.lastGood = urls.lastGood /\ urls'.live = urls.live \ {c}
    BY <1>1, <1>9
  <2>3. urls.lastGood # c
    BY <1>2, <1>3, <1>9
  <2> QED BY <1>2, <1>9, <2>1, <2>2, <2>3
<1> QED BY <1>5, <1>6, <1>7, <1>8, <1>9

(* The steps keep the invariant. *)

LEMMA QueuedEditKeeps ==
  ASSUME NoneIsNothing, VectorInv, Vector!Edit
  PROVE  VectorInv'
<1>1. /\ VectorTypeOK /\ Landing /\ QueuesInOrder /\ ActInOrder /\ UnracedInOrder
      /\ RevisionsInOrder /\ UrlsInOrder /\ Vector!ActionsSeeEdits
  BY DEF VectorInv
<1> DEFINE n == made.edits + 1
<1>2. /\ VectorTypeOK' /\ Len(queues') = Len(queues) /\ made'.edits = n
      /\ made'.files = made.files
      /\ \A i \in 1..Len(queues) : i # Len(queues) => queues'[i] = queues[i]
      /\ Cur'.exp = Cur.exp
      /\ Cur.flight # None => Cur'.flight = Cur.flight /\ Cur'.tasks = Append(Cur.tasks, n)
      /\ Cur.flight = None =>
           /\ Cur'.flight # None
           /\ Cur'.flight.edit = Head(Append(Cur.tasks, n))
           /\ Cur'.flight.exp = Cur.exp /\ Cur'.flight.answer = None
           /\ Cur'.flight.raced = Vector!Outstanding
           /\ Cur'.tasks = Tail(Append(Cur.tasks, n))
      /\ SamePage /\ ui'.shown = ui.shown
  BY <1>1, EditMoves DEF SamePage
<1>3. UNCHANGED <<session, act, compiles, urls, lost>>
  BY DEF Vector!Edit
<1>4. /\ Cur.exp[1] \in Nat /\ Cur.exp[2] \in Nat /\ Cur.exp = <<Cur.exp[1], Cur.exp[2]>>
      /\ session.src \in Nat /\ made.edits \in Nat
      /\ Cur = queues[Len(queues)] /\ Len(queues) \in 1..Len(queues)
  BY <1>1, Numbers
<1>5. Cur' = queues'[Len(queues)] /\ Now' = Now
  BY <1>2, <1>3 DEF Cur, Now
<1>6. None \notin Drafts
  BY DEF NoneIsNothing, Answers
<1>7. /\ EditLands' <=> EditLands
      /\ EditLands => Cur'.flight = Cur.flight
      /\ (ActLands' <=> ActLands) /\ (SaveLands' <=> SaveLands)
  BY <1>2, <1>3, <1>6 DEF EditLands, ActLands, SaveLands, Answered
<1>8. Landing'
  <2>1. Cur'.exp = Cur.exp /\ session' = session /\ lost' = lost /\ act' = act
    BY <1>2, <1>3
  <2>2. SaveLands => (Cur'.flight # None => Cur'.flight.exp # Now)
    <3>1. SaveLands => Cur.exp # Now
      BY <1>1, <1>4 DEF Landing, Now
    <3> QED BY <1>1, <1>2, <3>1 DEF Landing
  <2> QED BY <1>1, <1>5, <1>7, <2>1, <2>2 DEF Landing, IsOf
<1>9. QueuesInOrder'
  <2>1. Cur.exp[2] <= made.files /\ Cur.exp[1] <= session.rev
    BY <1>1, <1>4 DEF QueuesInOrder
  <2>2. ASSUME NEW i \in 1..Len(queues)
        PROVE  /\ queues'[i].exp[2] <= made.files
               /\ queues'[i].flight # None =>
                    queues'[i].flight.exp[1] <= queues'[i].exp[1]
                    /\ queues'[i].flight.exp[2] <= made.files
               /\ i < Len(queues) =>
                    /\ queues'[i].exp[1] < Cur.exp[1]
                    /\ queues'[i].flight # None => queues'[i].flight.answer \notin Drafts
    <3>1. CASE i # Len(queues)
      BY <1>1, <1>2, <3>1 DEF QueuesInOrder
    <3>2. CASE i = Len(queues)
      <4>1. Cur.flight # None => Cur.flight.exp[1] <= Cur.exp[1] /\ Cur.flight.exp[2] <= made.files
        BY <1>1, <1>4 DEF QueuesInOrder
      <4> QED BY <1>2, <1>4, <1>5, <2>1, <3>2, <4>1
    <3> QED BY <3>1, <3>2
  <2> QED BY <1>1, <1>2, <1>3, <2>1, <2>2 DEF QueuesInOrder
<1>10. ActInOrder'
  <2>1. Answerable(act)' <=> Answerable(act)
    BY <1>3 DEF Answerable
  <2>2. act # None => act.need \in Nat
    BY <1>1 DEF VectorTypeOK, Actions
  <2>3. act # None /\ act.need <= made.edits => act.need <= made'.edits
    BY <1>2, <1>4, <2>2
  <2> QED BY <1>1, <1>2, <1>3, <2>1, <2>3 DEF ActInOrder
<1>11. UnracedInOrder'
  BY <1>1, <1>2, <1>3 DEF UnracedInOrder, Vector!Outstanding
<1>12. RevisionsInOrder'
  BY <1>1, <1>2 DEF RevisionsInOrder, SamePage
<1>13. UrlsInOrder'
  BY <1>1, <1>2, <1>3, UrlsKept DEF MayCompile
<1>14. Vector!ActionsSeeEdits'
  <2> SUFFICES ASSUME act # None, act.stage \in {"sent", "reserved"}
               PROVE  /\ Cur'.flight # None => Cur'.flight.edit > act.need
                      /\ \A k \in DOMAIN Cur'.tasks : Cur'.tasks[k] > act.need
    BY <1>3 DEF Vector!ActionsSeeEdits, Vector!Cur, Cur
  <2>1. Cur.tasks \in Seq(Nat) /\ act.need \in Nat
    BY <1>1, CurIsQueue DEF Queue, VectorTypeOK, Actions
  <2>2. /\ Cur.flight # None => Cur.flight.edit > act.need
        /\ \A k \in 1..Len(Cur.tasks) : Cur.tasks[k] > act.need
    BY <1>1, <2>1 DEF Vector!ActionsSeeEdits, Vector!Cur, Cur
  <2>3. n > act.need /\ n \in Nat
    BY <1>1, <1>4, <2>1 DEF ActInOrder
  <2> DEFINE t == Append(Cur.tasks, n)
  <2>4. /\ t \in Seq(Nat) /\ Len(t) = Len(Cur.tasks) + 1 /\ t # <<>>
        /\ \A k \in 1..Len(t) : t[k] > act.need
    <3>1. /\ t \in Seq(Nat) /\ Len(t) = Len(Cur.tasks) + 1
          /\ t[Len(t)] = n /\ \A k \in 1..Len(Cur.tasks) : t[k] = Cur.tasks[k]
      BY <2>1, <2>3
    <3>2. Len(Cur.tasks) \in Nat
      BY <2>1
    <3>3. \A k \in 1..Len(t) : k = Len(t) \/ k \in 1..Len(Cur.tasks)
      BY <3>1, <3>2
    <3>4. t # <<>>
      BY <3>1, <3>2
    <3> QED BY <2>2, <2>3, <3>1, <3>3, <3>4
  <2> HIDE DEF t
  <2>5. /\ Head(t) > act.need
        /\ \A k \in DOMAIN Tail(t) : Tail(t)[k] > act.need
        /\ \A k \in DOMAIN t : t[k] > act.need
    BY <2>4
  <2> QED BY <1>2, <2>2, <2>5 DEF t
<1> QED BY <1>2, <1>8, <1>9, <1>10, <1>11, <1>12, <1>13, <1>14 DEF VectorInv

LEMMA ServeEditKeeps ==
  ASSUME NoneIsNothing, VectorInv, NEW i \in 1..Len(queues), Vector!ServeEdit(i)
  PROVE  VectorInv'
<1>1. /\ VectorTypeOK /\ Landing /\ QueuesInOrder /\ ActInOrder /\ UnracedInOrder
      /\ RevisionsInOrder /\ UrlsInOrder /\ Vector!ActionsSeeEdits
  BY DEF VectorInv
<1>2. /\ VectorTypeOK' /\ Len(queues') = Len(queues)
      /\ queues[i].flight # None /\ queues[i].flight.answer = None
      /\ \A j \in 1..Len(queues) :
           /\ queues'[j].exp = queues[j].exp /\ queues'[j].tasks = queues[j].tasks
           /\ j # i => queues'[j] = queues[j]
      /\ queues'[i].flight # None
      /\ queues'[i].flight.exp = queues[i].flight.exp
      /\ queues'[i].flight.edit = queues[i].flight.edit
      /\ queues'[i].flight.raced = queues[i].flight.raced
  BY <1>1, ServeEditMoves
<1>3. \/ /\ session' = session /\ lost' = lost
         /\ queues'[i].flight.answer \in {Vector!Refused, Vector!Unread}
      \/ /\ queues[i].flight.exp = Now
         /\ session'.rev = session.rev + 1 /\ session'.src = session.src
         /\ \/ queues'[i].flight.answer \in {Vector!Refused, Vector!Unread} /\ lost'
            \/ /\ lost' = lost
               /\ queues'[i].flight.answer \in Drafts
               /\ queues'[i].flight.answer.rev = session'.rev
               /\ queues'[i].flight.answer.src = session'.src
  BY <1>1, ServeEditMoves
<1>4. UNCHANGED <<ui, act, compiles, urls, made>>
  BY <1>1, ServeEditMoves
<1>5. /\ Cur.exp[1] \in Nat /\ session.rev \in Nat
      /\ Cur = queues[Len(queues)] /\ Len(queues) \in 1..Len(queues)
      /\ queues[i].flight.exp[1] \in Nat /\ queues[i].exp[1] \in Nat
  BY <1>1, <1>2, Numbers
<1>6. Cur' = queues'[Len(queues)] /\ Cur'.exp = Cur.exp /\ Cur'.tasks = Cur.tasks
  BY <1>2, <1>5 DEF Cur
<1>7. None \notin Drafts /\ Vector!Refused \notin Drafts /\ Vector!Unread \notin Drafts
  BY AnswersDiffer DEF NoneIsNothing, Answers
<1>8. (ActLands' <=> ActLands) /\ (SaveLands' <=> SaveLands)
  BY <1>4 DEF ActLands, SaveLands, Answered
<1>9. i # Len(queues) => Cur' = Cur
  BY <1>2, <1>5, <1>6
<1>10. ASSUME session' = session, lost' = lost,
              queues'[i].flight.answer \in {Vector!Refused, Vector!Unread}
       PROVE  Landing' /\ QueuesInOrder'
  <2>1. Now' = Now
    BY <1>10 DEF Now
  <2>2. EditLands' <=> EditLands
    <3>1. CASE i = Len(queues)
      BY <1>2, <1>5, <1>6, <1>7, <1>10, <3>1 DEF EditLands
    <3>2. CASE i # Len(queues)
      BY <1>9, <3>2 DEF EditLands
    <3> QED BY <3>1, <3>2
  <2>3. EditLands => Cur' = Cur
    BY <1>2, <1>5, <1>7, <1>9 DEF EditLands
  <2>4. /\ Cur'.flight # None <=> Cur.flight # None
        /\ Cur.flight # None => Cur'.flight.exp = Cur.flight.exp
    BY <1>2, <1>5, <1>6, <1>9
  <2>5. Landing'
    BY <1>1, <1>4, <1>6, <1>8, <1>10, <2>1, <2>2, <2>3, <2>4 DEF Landing, IsOf
  <2>6. QueuesInOrder'
    BY <1>1, <1>2, <1>4, <1>6, <1>7, <1>10 DEF QueuesInOrder
  <2> QED BY <2>5, <2>6
<1>11. ASSUME queues[i].flight.exp = Now,
              session'.rev = session.rev + 1, session'.src = session.src,
              \/ queues'[i].flight.answer \in {Vector!Refused, Vector!Unread} /\ lost'
              \/ /\ lost' = lost
                 /\ queues'[i].flight.answer \in Drafts
                 /\ queues'[i].flight.answer.rev = session'.rev
                 /\ queues'[i].flight.answer.src = session'.src
       PROVE  Landing' /\ QueuesInOrder'
  <2>1. queues[i].flight.exp[1] = session.rev
    BY <1>11 DEF Now
  <2>2. queues[i].flight.exp[1] <= queues[i].exp[1] /\ Cur.exp[1] <= session.rev
        /\ (i < Len(queues) => queues[i].exp[1] < Cur.exp[1])
    BY <1>1, <1>2 DEF QueuesInOrder
  <2>3. i = Len(queues) /\ Cur.exp[1] = session.rev
    BY <1>5, <2>1, <2>2
  <2>4. ~lost /\ ~EditLands /\ ~ActLands
    BY <1>1, <1>5, <2>3 DEF Landing
  <2>5. ~SaveLands
    BY <1>1, <1>2, <1>5, <1>11, <2>3 DEF Landing
  <2>6. Cur'.exp[1] < session'.rev
    BY <1>5, <1>6, <1>11, <2>3
  <2>7. Landing'
    <3>1. CASE queues'[i].flight.answer \in {Vector!Refused, Vector!Unread} /\ lost'
      <4>1. ~EditLands'
        BY <1>5, <1>6, <1>7, <2>3, <3>1 DEF EditLands
      <4> QED BY <1>8, <2>4, <2>5, <2>6, <3>1, <4>1 DEF Landing
    <3>2. CASE /\ lost' = lost
               /\ queues'[i].flight.answer \in Drafts
               /\ queues'[i].flight.answer.rev = session'.rev
               /\ queues'[i].flight.answer.src = session'.src
      <4>1. Cur'.flight = queues'[i].flight
        BY <1>6, <2>3
      <4>2. EditLands'
        BY <1>2, <3>2, <4>1 DEF EditLands
      <4>3. <<Cur'.flight.answer.rev, Cur'.flight.answer.src>> = Now'
        BY <3>2, <4>1 DEF Now
      <4> QED BY <1>8, <2>4, <2>5, <2>6, <3>2, <4>2, <4>3 DEF Landing, IsOf
    <3> QED BY <1>11, <3>1, <3>2
  <2>8. Cur'.exp[1] <= session'.rev /\ session'.src <= made.files
    BY <1>1, <1>5, <1>6, <1>11, <2>6 DEF QueuesInOrder
  <2>9. QueuesInOrder'
    BY <1>1, <1>2, <1>4, <1>6, <2>3, <2>8 DEF QueuesInOrder
  <2> QED BY <2>7, <2>9
<1>12. Landing' /\ QueuesInOrder'
  BY <1>3, <1>10, <1>11
<1>13. /\ Cur'.flight # None <=> Cur.flight # None
       /\ Cur.flight # None => Cur'.flight.exp = Cur.flight.exp
                               /\ Cur'.flight.raced = Cur.flight.raced
                               /\ Cur'.flight.edit = Cur.flight.edit
  BY <1>2, <1>5, <1>6, <1>9
<1>14. ActInOrder'
  BY <1>1, <1>4, <1>6 DEF ActInOrder, Answerable
<1>15. UnracedInOrder'
  BY <1>1, <1>4, <1>6, <1>13 DEF UnracedInOrder, Vector!Outstanding
<1>16. RevisionsInOrder'
  BY <1>1, <1>4, <1>6 DEF RevisionsInOrder
<1>17. UrlsInOrder'
  BY <1>1, <1>4, UrlsKept DEF MayCompile
<1>18. Vector!ActionsSeeEdits'
  BY <1>1, <1>4, <1>6, <1>13 DEF Vector!ActionsSeeEdits, Vector!Cur, Cur
<1> QED BY <1>2, <1>12, <1>14, <1>15, <1>16, <1>17, <1>18 DEF VectorInv

LEMMA AnswerEditKeeps ==
  ASSUME NoneIsNothing, VectorInv, NEW i \in 1..Len(queues), Vector!AnswerEdit(i)
  PROVE  VectorInv'
<1>1. /\ VectorTypeOK /\ Landing /\ QueuesInOrder /\ ActInOrder /\ UnracedInOrder
      /\ RevisionsInOrder /\ UrlsInOrder /\ Vector!ActionsSeeEdits
  BY DEF VectorInv
<1> DEFINE n == Len(queues)
           answer == queues[i].flight.answer
<1>2. /\ VectorTypeOK' /\ Len(queues') = n
      /\ UNCHANGED <<session, compiles, urls, made, lost>>
      /\ queues[i].flight # None
      /\ \A j \in 1..n : j # i => queues'[j] = queues[j]
      /\ answer \in Drafts =>
           /\ queues'[i].exp = <<answer.rev, answer.src>>
           /\ ui'.revision = answer.rev /\ ui'.latest = answer.rev
      /\ answer \notin Drafts =>
           /\ queues'[i].exp = queues[i].exp
           /\ ui'.revision = ui.revision /\ ui'.latest = ui.latest
      /\ ui'.preview = ui.preview /\ ui'.shown = ui.shown
      /\ queues'[i].flight = None => queues'[i].tasks = <<>>
      /\ queues'[i].flight # None =>
           /\ queues[i].tasks # <<>>
           /\ queues'[i].flight.edit = Head(queues[i].tasks)
           /\ queues'[i].tasks = Tail(queues[i].tasks)
           /\ queues'[i].flight.exp = queues'[i].exp
           /\ queues'[i].flight.answer = None
           /\ queues'[i].flight.raced = Vector!Outstanding
  BY <1>1, AnswerEditMoves
<1>3. \/ act' = act
      \/ /\ act # None /\ act.stage = "flush"
         /\ Cur'.flight = None /\ Cur'.tasks = <<>>
         /\ act' = [act EXCEPT !.stage = "sent", !.exp = Cur'.exp]
  BY <1>1, AnswerEditMoves
<1>4. /\ session.rev \in Nat /\ session.src \in Nat /\ made.files \in Nat /\ made.edits \in Nat
      /\ ui.revision \in Nat /\ ui.latest \in Nat /\ ui.preview \in Nat
      /\ Cur.exp[1] \in Nat /\ Cur.exp[2] \in Nat /\ Cur.exp = <<Cur.exp[1], Cur.exp[2]>>
      /\ Cur = queues[n] /\ n \in 1..n
      /\ \A j \in 1..n : queues[j].exp[1] \in Nat /\ queues[j].exp[2] \in Nat
  BY <1>1, Numbers
<1>5. Cur' = queues'[n] /\ Now' = Now
  BY <1>2 DEF Cur, Now
<1>6. None \notin Drafts
  BY DEF NoneIsNothing, Answers
<1>7. answer \in Drafts =>
        /\ i = n /\ EditLands /\ ~lost /\ ~ActLands /\ ~SaveLands
        /\ <<answer.rev, answer.src>> = Now /\ Cur.exp[1] < session.rev
  <2> SUFFICES ASSUME answer \in Drafts
               PROVE  /\ i = n /\ EditLands /\ ~lost /\ ~ActLands /\ ~SaveLands
                      /\ <<answer.rev, answer.src>> = Now /\ Cur.exp[1] < session.rev
    OBVIOUS
  <2>1. i = n
    BY <1>1, <1>2, <1>4 DEF QueuesInOrder
  <2>2. EditLands
    BY <1>2, <1>4, <2>1 DEF EditLands
  <2> QED BY <1>1, <1>4, <2>1, <2>2 DEF Landing, IsOf
<1>8. /\ Cur'.exp = Cur.exp \/ (answer \in Drafts /\ Cur'.exp = Now)
      /\ answer \in Drafts => Cur'.exp = Now
      /\ Cur'.exp[1] \in Nat /\ Cur.exp[1] <= Cur'.exp[1]
  <2>1. CASE answer \in Drafts
    BY <1>2, <1>4, <1>5, <1>7, <2>1 DEF Now
  <2>2. CASE answer \notin Drafts
    <3>1. Cur'.exp = Cur.exp
      BY <1>2, <1>4, <1>5, <2>2
    <3>2. Cur'.exp[1] = Cur.exp[1] /\ Cur.exp[1] \in Nat
      BY <1>4, <3>1
    <3>3. Cur'.exp[1] \in Nat /\ Cur.exp[1] <= Cur'.exp[1]
      BY <3>2
    <3> QED BY <2>2, <3>1, <3>3
  <2> QED BY <2>1, <2>2
<1> HIDE DEF answer
<1>9. /\ ActLands' <=> ActLands
      /\ SaveLands' <=> SaveLands
      /\ ActLands \/ SaveLands => act' = act
  <2>1. CASE act' = act
    BY <1>2, <2>1 DEF ActLands, SaveLands, Answered
  <2>2. CASE act # None /\ act.stage = "flush"
             /\ act' = [act EXCEPT !.stage = "sent", !.exp = Cur'.exp]
    <3>1. act \in Actions
      BY <1>1, <2>2 DEF VectorTypeOK
    <3>2. act'.stage = "sent"
      BY <2>2, <3>1 DEF Actions
    <3> QED BY <2>2, <3>2 DEF ActLands, SaveLands, Answered
  <2> QED BY <1>3, <2>1, <2>2
<1>10. /\ i = n => ~EditLands' /\ (EditLands <=> answer \in Drafts)
       /\ i # n => Cur' = Cur /\ (EditLands' <=> EditLands)
  BY <1>2, <1>4, <1>5, <1>6 DEF EditLands, answer
<1>11. Landing'
  <2>1. CASE i # n
    BY <1>1, <1>2, <1>5, <1>9, <1>10, <2>1 DEF Landing, IsOf
  <2>2. CASE i = n /\ answer \in Drafts
    BY <1>2, <1>4, <1>5, <1>7, <1>8, <1>9, <1>10, <2>2 DEF Landing
  <2>3. CASE i = n /\ answer \notin Drafts
    <3>1. Cur'.exp = Cur.exp /\ ~EditLands /\ ~EditLands'
      BY <1>8, <1>10, <2>3
    <3>2. SaveLands => (Cur'.flight # None => Cur'.flight.exp # Now)
      <4>1. SaveLands => Cur.exp # Now
        BY <1>1, <1>4 DEF Landing, Now
      <4>2. Cur'.flight # None => Cur'.flight.exp = Cur'.exp
        BY <1>2, <1>5, <2>3
      <4> QED BY <3>1, <4>1, <4>2
    <3> QED BY <1>1, <1>2, <1>5, <1>9, <3>1, <3>2 DEF Landing, IsOf
  <2> QED BY <2>1, <2>2, <2>3
<1>12. QueuesInOrder'
  <2>1. Cur'.exp[1] <= session.rev /\ session.src <= made.files
    BY <1>1, <1>4, <1>8 DEF QueuesInOrder, Now
  <2>2. ASSUME NEW j \in 1..n
        PROVE  /\ queues'[j].exp[2] <= made.files
               /\ queues'[j].flight # None =>
                    queues'[j].flight.exp[1] <= queues'[j].exp[1]
                    /\ queues'[j].flight.exp[2] <= made.files
               /\ j < n =>
                    /\ queues'[j].exp[1] < Cur'.exp[1]
                    /\ queues'[j].flight # None => queues'[j].flight.answer \notin Drafts
    <3>1. /\ queues[j].exp[2] <= made.files
          /\ queues[j].flight # None =>
               queues[j].flight.exp[1] <= queues[j].exp[1]
               /\ queues[j].flight.exp[2] <= made.files
          /\ j < n =>
               /\ queues[j].exp[1] < Cur.exp[1]
               /\ queues[j].flight # None => queues[j].flight.answer \notin Drafts
      BY <1>1 DEF QueuesInOrder
    <3>2. CASE j # i
      <4>1. queues'[j] = queues[j]
        BY <1>2, <3>2
      <4>2. /\ queues[j].exp[1] \in Nat /\ Cur.exp[1] \in Nat
            /\ Cur'.exp[1] \in Nat /\ Cur.exp[1] <= Cur'.exp[1]
        BY <1>4, <1>8
      <4>3. queues[j].exp[1] < Cur.exp[1] => queues[j].exp[1] < Cur'.exp[1]
        BY <4>2
      <4> QED BY <3>1, <4>1, <4>3
    <3>3. CASE j = i
      <4>1. \/ queues'[j].exp = queues[j].exp
            \/ j = n /\ queues'[j].exp = Now
        BY <1>2, <1>5, <1>7, <1>8, <3>3
      <4>2. queues'[j].exp[1] \in Nat /\ queues'[j].exp[2] <= made.files
            /\ (j < n => queues'[j].exp = queues[j].exp)
        BY <1>4, <2>1, <3>1, <4>1 DEF Now
      <4>3. queues'[j].flight # None =>
              queues'[j].flight.exp = queues'[j].exp /\ queues'[j].flight.answer \notin Drafts
        BY <1>2, <1>6, <3>3
      <4>4. /\ queues[j].exp[1] \in Nat /\ Cur.exp[1] \in Nat
            /\ Cur'.exp[1] \in Nat /\ Cur.exp[1] <= Cur'.exp[1]
        BY <1>4, <1>8
      <4>5. queues[j].exp[1] < Cur.exp[1] => queues[j].exp[1] < Cur'.exp[1]
        BY <4>4
      <4>6. queues'[j].exp[1] <= queues'[j].exp[1]
        BY <4>2
      <4> QED BY <3>1, <4>2, <4>3, <4>5, <4>6
    <3> QED BY <3>2, <3>3
  <2> QED BY <1>2, <2>1, <2>2 DEF QueuesInOrder
<1>13. act' # act =>
         /\ act' # None /\ act'.stage = "sent" /\ act'.exp = Cur'.exp /\ act'.need = act.need
         /\ act'.exp \in Identities /\ act # None
         /\ Cur'.flight = None /\ Cur'.tasks = <<>>
  <2>1. act # None => act \in Actions
    BY <1>1 DEF VectorTypeOK
  <2>2. act' \in Actions \cup {None} /\ \A a \in Actions : a # None
    BY <1>2 DEF VectorTypeOK, NoneIsNothing
  <2>3. Cur'.exp \in Identities
    <3>1. queues' \in Seq(Queue)
      BY <1>2 DEF VectorTypeOK
    <3>2. Cur' \in Queue
      BY <1>2, <1>4, <1>5, <3>1
    <3> QED BY <3>2 DEF Queue
  <2>4. act \in Actions => [act EXCEPT !.stage = "sent", !.exp = Cur'.exp] \in Actions
    BY <2>3 DEF Actions, ActStages
  <2> QED BY <1>3, <2>1, <2>2, <2>3, <2>4 DEF Actions
<1>14. ActInOrder'
  <2>1. CASE act' = act
    <3>1. Answerable(act') <=> Answerable(act)
      BY <2>1
    <3>2. act # None /\ act.stage \in {"sent", "reserved"} =>
            act.exp \in Identities /\ act.exp[1] <= Cur'.exp[1]
      <4>1. \A e \in Identities : e[1] \in Nat
        BY DEF Identities
      <4> QED BY <1>1, <1>4, <1>8, <4>1 DEF ActInOrder
    <3> QED BY <1>1, <1>2, <2>1, <3>1, <3>2 DEF ActInOrder
  <2>2. CASE act' # act
    BY <1>1, <1>2, <1>8, <1>13, <2>2 DEF ActInOrder
  <2> QED BY <2>1, <2>2
<1>15. UnracedInOrder'
  <2> SUFFICES ASSUME Cur'.flight # None, ~Cur'.flight.raced
               PROVE  ~Vector!Outstanding' /\ Cur'.flight.exp = Cur'.exp
    BY DEF UnracedInOrder
  <2>1. act' = act
    BY <1>13
  <2>2. Vector!Outstanding' <=> Vector!Outstanding
    BY <2>1 DEF Vector!Outstanding
  <2>3. CASE i = n
    BY <1>2, <1>5, <2>2, <2>3
  <2>4. CASE i # n
    BY <1>1, <1>10, <2>2, <2>4 DEF UnracedInOrder
  <2> QED BY <2>3, <2>4
<1>16. RevisionsInOrder'
  <2>1. CASE answer \in Drafts
    <3>1. answer.rev = session.rev /\ Cur'.exp[1] = session.rev
      BY <1>7, <1>8, <2>1 DEF Now
    <3> QED BY <1>1, <1>2, <1>4, <1>7, <2>1, <3>1 DEF RevisionsInOrder, answer
  <2>2. CASE answer \notin Drafts
    BY <1>1, <1>2, <1>8, <2>2 DEF RevisionsInOrder, answer
  <2> QED BY <2>1, <2>2
<1>17. UrlsInOrder'
  BY <1>1, <1>2, UrlsKept DEF MayCompile
<1>18. Vector!ActionsSeeEdits'
  <2> SUFFICES ASSUME act' # None, act'.stage \in {"sent", "reserved"}
               PROVE  /\ Cur'.flight # None => Cur'.flight.edit > act'.need
                      /\ \A k \in DOMAIN Cur'.tasks : Cur'.tasks[k] > act'.need
    BY DEF Vector!ActionsSeeEdits, Vector!Cur, Cur
  <2>1. CASE act' # act
    BY <1>13, <2>1
  <2>2. CASE act' = act
    <3>1. /\ Cur.flight # None => Cur.flight.edit > act.need
          /\ \A k \in DOMAIN Cur.tasks : Cur.tasks[k] > act.need
      BY <1>1, <2>2 DEF Vector!ActionsSeeEdits, Vector!Cur, Cur
    <3>2. CASE i # n
      BY <1>10, <2>2, <3>1, <3>2
    <3>3. CASE i = n /\ Cur'.flight = None
      BY <1>2, <1>5, <3>3
    <3>4. CASE i = n /\ Cur'.flight # None
      <4> DEFINE t == Cur.tasks
      <4>1. t \in Seq(Nat)
        BY <1>1, CurIsQueue DEF Queue
      <4>2. t # <<>> /\ Cur'.flight.edit = Head(t) /\ Cur'.tasks = Tail(t)
        BY <1>2, <1>4, <1>5, <3>4
      <4>3. \A k \in 1..Len(t) : t[k] > act.need
        BY <3>1, <4>1
      <4> HIDE DEF t
      <4>4. /\ Head(t) = t[1] /\ 1 \in 1..Len(t)
            /\ \A k \in DOMAIN Tail(t) : k + 1 \in 1..Len(t) /\ Tail(t)[k] = t[k + 1]
        BY <4>1, <4>2
      <4>5. Head(t) > act.need /\ \A k \in DOMAIN Tail(t) : Tail(t)[k] > act.need
        BY <4>3, <4>4
      <4> QED BY <2>2, <4>2, <4>5
    <3> QED BY <3>2, <3>3, <3>4
  <2> QED BY <2>1, <2>2
<1> QED BY <1>2, <1>11, <1>12, <1>14, <1>15, <1>16, <1>17, <1>18 DEF VectorInv

\* A step that leaves the draft and the queue.
LEMMA QuietKeeps ==
  ASSUME VectorInv, VectorTypeOK', RevisionsInOrder', UrlsInOrder', queues' = queues, SameDraft,
         lost' = lost, made'.files = made.files, made'.edits = made.edits, ActEnds
  PROVE  VectorInv'
<1>1. /\ VectorTypeOK /\ Landing /\ QueuesInOrder /\ ActInOrder /\ UnracedInOrder
      /\ Vector!ActionsSeeEdits
  BY DEF VectorInv
<1>2. act' = act \/ (~ActLands /\ ~SaveLands /\ ~ActLands' /\ ~SaveLands')
  BY DEF ActEnds, ActLands, SaveLands, Answered
<1>3. Landing' /\ QueuesInOrder'
  BY <1>1, <1>2, DraftKept
<1>4. Cur' = Cur
  BY DEF Cur
<1>5. ActInOrder' /\ UnracedInOrder' /\ Vector!ActionsSeeEdits'
  BY <1>1, <1>4, ActKept
<1> QED BY <1>3, <1>5 DEF VectorInv

LEMMA CompilesKeep ==
  ASSUME NoneIsNothing, VectorInv,
         \/ Vector!Refresh \/ Vector!Render
         \/ \E c \in 1..Len(compiles) :
              Vector!ServeCompile(c) \/ Vector!AnswerCompile(c) \/ Vector!Decode(c)
  PROVE  VectorInv'
<1>1. VectorTypeOK /\ RevisionsInOrder /\ UrlsInOrder
  BY DEF VectorInv
<1>2. /\ ui.revision \in Nat /\ ui.latest \in Nat /\ ui.preview \in Nat /\ Cur.exp[1] \in Nat
  BY <1>1, Numbers
<1>3. CASE Vector!Refresh
  <2>1. /\ VectorTypeOK' /\ UNCHANGED <<session, queues, act, urls, lost>>
        /\ made'.edits = made.edits /\ made'.files = made.files
        /\ SamePage /\ ui'.shown = ui.shown /\ MayCompile
    BY <1>1, <1>3, RefreshMoves DEF SamePage, MayCompile
  <2>2. RevisionsInOrder'
    BY <1>1, <2>1 DEF RevisionsInOrder, SamePage, Cur
  <2>3. UrlsInOrder'
    BY <1>1, <2>1, UrlsKept
  <2> QED BY <2>1, <2>2, <2>3, QuietKeeps DEF SameDraft, ActEnds
<1>4. CASE Vector!Render
  <2>1. /\ VectorTypeOK' /\ UNCHANGED <<session, queues, act, compiles, urls, made, lost>>
        /\ ui'.revision = ui.revision /\ ui'.latest = ui.revision /\ ui'.preview = ui.preview
        /\ ui'.shown = ui.shown
    BY <1>1, <1>4, RenderMoves
  <2>2. RevisionsInOrder'
    BY <1>1, <1>2, <2>1 DEF RevisionsInOrder, Cur
  <2>3. UrlsInOrder'
    BY <1>1, <2>1, UrlsKept DEF MayCompile
  <2> QED BY <2>1, <2>2, <2>3, QuietKeeps DEF SameDraft, ActEnds
<1>5. ASSUME NEW c \in 1..Len(compiles), Vector!ServeCompile(c)
      PROVE  VectorInv'
  <2>1. /\ VectorTypeOK' /\ UNCHANGED <<queues, ui, act, urls, made, lost>>
        /\ SameDraft /\ Len(compiles') = Len(compiles)
        /\ \A j \in 1..Len(compiles) : j # c => compiles'[j] = compiles[j]
        /\ compiles[c].stage \in {"sent", "running"}
        /\ compiles'[c].stage \in {"running", "answered", "refused"}
    BY <1>1, <1>5, ServeCompileMoves DEF SameDraft
  <2>2. RevisionsInOrder'
    BY <1>1, <2>1 DEF RevisionsInOrder, Cur
  <2>3. UrlsInOrder'
    BY <1>1, <2>1, UrlsMove
  <2> QED BY <2>1, <2>2, <2>3, QuietKeeps DEF ActEnds
<1>6. ASSUME NEW c \in 1..Len(compiles), Vector!AnswerCompile(c)
      PROVE  VectorInv'
  <2>1. /\ VectorTypeOK' /\ UNCHANGED <<session, queues, made, lost>> /\ ActEnds
        /\ Len(compiles') = Len(compiles)
        /\ \A j \in 1..Len(compiles) : j # c => compiles'[j] = compiles[j]
        /\ compiles[c].stage \in {"answered", "refused"}
        /\ \/ compiles'[c].stage = "decoding" /\ urls' = [urls EXCEPT !.live = @ \cup {c}]
           \/ compiles'[c].stage = "done" /\ urls' = urls
        /\ SamePage /\ ui'.shown = ui.shown
    BY <1>1, <1>6, AnswerCompileMoves DEF SamePage
  <2>2. RevisionsInOrder'
    BY <1>1, <2>1 DEF RevisionsInOrder, SamePage, Cur
  <2>3. UrlsInOrder'
    BY <1>1, <2>1, UrlsMove
  <2> QED BY <2>1, <2>2, <2>3, QuietKeeps DEF SameDraft
<1>7. ASSUME NEW c \in 1..Len(compiles), Vector!Decode(c)
      PROVE  VectorInv'
  <2>1. /\ VectorTypeOK' /\ UNCHANGED <<session, queues, made, lost>> /\ ActEnds
        /\ Len(compiles') = Len(compiles)
        /\ \A j \in 1..Len(compiles) : j # c => compiles'[j] = compiles[j]
        /\ compiles[c].stage = "decoding" /\ compiles'[c].stage = "done"
        /\ ui'.revision = ui.revision /\ ui'.latest = ui.latest
        /\ \/ /\ urls' = [live |-> urls.live \ {urls.lastGood}, lastGood |-> c]
              /\ ui'.shown = c /\ ui'.preview = ui.latest
           \/ /\ urls' = [urls EXCEPT !.live = @ \ {c}]
              /\ ui'.shown = ui.shown /\ ui'.preview = ui.preview
    BY <1>1, <1>7, DecodeMoves
  <2>2. RevisionsInOrder'
    BY <1>1, <1>2, <2>1 DEF RevisionsInOrder, Cur
  <2>3. UrlsInOrder'
    BY <1>1, <2>1, UrlsMove
  <2> QED BY <2>1, <2>2, <2>3, QuietKeeps DEF SameDraft
<1> QED BY <1>3, <1>4, <1>5, <1>6, <1>7

LEMMA StartKeeps ==
  ASSUME NoneIsNothing, VectorInv, NEW kind \in Kinds, Vector!Start(kind)
  PROVE  VectorInv'
<1>1. /\ VectorTypeOK /\ Landing /\ QueuesInOrder /\ ActInOrder /\ UnracedInOrder
      /\ RevisionsInOrder /\ UrlsInOrder /\ Vector!ActionsSeeEdits
  BY DEF VectorInv
<1>2. /\ VectorTypeOK' /\ UNCHANGED <<session, queues, ui, compiles, urls, lost>>
      /\ made'.edits = made.edits /\ made'.files = made.files
      /\ act = None /\ act' # None /\ act'.need = made.edits
      /\ \/ act'.stage = "flush"
         \/ /\ act'.stage = "sent" /\ act'.exp = Cur.exp
            /\ Cur.flight = None /\ Cur.tasks = <<>>
  BY <1>1, StartMoves
<1>3. Landing' /\ QueuesInOrder'
  BY <1>1, <1>2, DraftKept DEF SameDraft, ActLands, SaveLands, Answered
<1>4. Cur' = Cur /\ Cur.exp[1] \in Nat /\ Cur.exp \in Identities /\ made.edits \in Nat
  BY <1>1, <1>2, Numbers, CurIsQueue DEF Cur, Queue
<1>5. ActInOrder'
  BY <1>2, <1>4 DEF ActInOrder
<1>6. UnracedInOrder'
  BY <1>1, <1>2, <1>4 DEF UnracedInOrder, Vector!Outstanding
<1>7. Vector!ActionsSeeEdits'
  BY <1>2, <1>4 DEF Vector!ActionsSeeEdits, Vector!Cur, Cur
<1>8. RevisionsInOrder'
  BY <1>1, <1>2, <1>4 DEF RevisionsInOrder
<1>9. UrlsInOrder'
  BY <1>1, <1>2, UrlsKept DEF MayCompile
<1> QED BY <1>2, <1>3, <1>5, <1>6, <1>7, <1>8, <1>9 DEF VectorInv

\* The session answers the request of the action, which names its draft if that is to move.
LEMMA ServedKeeps ==
  ASSUME NoneIsNothing, VectorInv, VectorTypeOK', ActIsServed
  PROVE  VectorInv'
<1>1. /\ VectorTypeOK /\ Landing /\ QueuesInOrder /\ ActInOrder /\ UnracedInOrder
      /\ RevisionsInOrder /\ UrlsInOrder /\ Vector!ActionsSeeEdits
  BY DEF VectorInv
<1>2. /\ UNCHANGED <<queues, ui, compiles, urls, lost>> /\ made'.edits = made.edits
      /\ act # None /\ act.stage \in {"sent", "reserved"}
      /\ act' # None /\ act'.kind = act.kind /\ act'.need = act.need /\ act'.exp = act.exp
      /\ act'.stage = "answered" => Answerable(act')
      /\ act'.stage \in {"reserved", "answered"}
  BY DEF ActIsServed, SameAction, ServedQuietly, ServedDraft, ServedPrint
<1>3. /\ session.rev \in Nat /\ session.src \in Nat /\ made.files \in Nat /\ made.edits \in Nat
      /\ Cur.exp[1] \in Nat /\ Cur.exp[2] \in Nat /\ Cur.exp = <<Cur.exp[1], Cur.exp[2]>>
      /\ Cur = queues[Len(queues)] /\ Len(queues) \in 1..Len(queues)
      /\ Cur.flight # None => Cur.flight.exp[2] \in Nat
  BY <1>1, Numbers
<1>4. Cur' = Cur /\ (EditLands' <=> EditLands) /\ ~ActLands /\ ~SaveLands /\ Vector!Outstanding
  BY <1>2 DEF Cur, EditLands, ActLands, SaveLands, Answered, Vector!Outstanding
<1>5. act.exp \in Identities /\ act.exp[1] <= Cur.exp[1] /\ act.exp[1] \in Nat
  BY <1>1, <1>2 DEF ActInOrder, Identities
<1>6. act.exp[1] = session.rev =>
        ~lost /\ ~EditLands /\ Cur.exp[1] = session.rev /\ Cur.exp = Now
  <2>1. Cur.exp[1] <= session.rev
    BY <1>1 DEF QueuesInOrder
  <2>2. act.exp[1] = session.rev => Cur.exp[1] = session.rev
    BY <1>3, <1>5, <2>1
  <2>3. Cur.exp[1] = session.rev => ~lost /\ ~EditLands
    BY <1>1, <1>3 DEF Landing
  <2> QED BY <1>1, <1>4, <2>2, <2>3 DEF Landing
<1>7. \A a : a \in Drafts => a \notin Prints /\ a \notin Words
  BY AnswersDiffer
<1>8. \A a : a \in Words \/ a \in Prints => a \notin Drafts
  BY AnswersDiffer
<1>9. \A a : a \in Words => a \notin Prints
  BY AnswersDiffer
<1>10. /\ act'.stage # "answered" => ~ActLands' /\ ~SaveLands'
       /\ act'.answer \notin Drafts => ~ActLands'
       /\ act'.answer \notin Prints => ~SaveLands'
       /\ act'.kind # "saveApply" => ~SaveLands'
       /\ act'.stage = "answered" /\ act'.answer \in Drafts => ActLands'
  BY <1>2 DEF ActLands, SaveLands, Answered
<1>11. ASSUME ServedQuietly
       PROVE  Landing' /\ QueuesInOrder'
  <2>1. SameDraft /\ made' = made /\ ~ActLands' /\ ~SaveLands'
    BY <1>8, <1>9, <1>10, <1>11 DEF ServedQuietly
  <2> QED BY <1>1, <1>2, <1>4, <2>1, DraftKept
<1>12. ASSUME ServedDraft
       PROVE  Landing' /\ QueuesInOrder'
  <2>1. /\ session'.rev = session.rev + 1
        /\ made'.files \in {made.files, made.files + 1}
        /\ session'.src \in {session.src, 0, made'.files}
        /\ act'.stage = "answered" /\ act'.answer \in Drafts
        /\ act'.answer.rev = session'.rev /\ act'.answer.src = session'.src
    BY <1>12 DEF ServedDraft
  <2>2. ~lost /\ ~EditLands /\ Cur.exp[1] = session.rev
    BY <1>6, <1>12 DEF ServedDraft
  <2>3. Landing'
    <3>1. ActLands' /\ ~SaveLands' /\ ~EditLands' /\ ~lost'
      BY <1>2, <1>4, <1>7, <1>10, <2>1, <2>2
    <3>2. IsOf(act.answer)'
      BY <2>1 DEF IsOf, Now
    <3>3. Cur'.exp[1] < session'.rev
      BY <1>3, <1>4, <2>1, <2>2
    <3> QED BY <3>1, <3>2, <3>3 DEF Landing
  <2>4. QueuesInOrder'
    <3>1. made'.files \in Nat /\ made.files <= made'.files
      BY <1>3, <2>1
    <3>2. session.src <= made.files /\ Cur.exp[1] <= session.rev
      BY <1>1 DEF QueuesInOrder
    <3>3. session'.src <= made'.files /\ Cur.exp[1] <= session'.rev
      BY <1>3, <2>1, <3>1, <3>2
    <3>4. ASSUME NEW i \in 1..Len(queues)
          PROVE  /\ queues[i].exp[2] <= made'.files
                 /\ queues[i].flight # None => queues[i].flight.exp[2] <= made'.files
      <4>1. /\ queues[i].exp[2] \in Nat
            /\ queues[i].flight # None => queues[i].flight.exp[2] \in Nat
        BY <1>1, Numbers
      <4>2. /\ queues[i].exp[2] <= made.files
            /\ queues[i].flight # None => queues[i].flight.exp[2] <= made.files
        BY <1>1 DEF QueuesInOrder
      <4> QED BY <1>3, <3>1, <4>1, <4>2
    <3> QED BY <1>1, <1>2, <1>4, <3>3, <3>4 DEF QueuesInOrder
  <2> QED BY <2>3, <2>4
<1>13. ASSUME ServedPrint
       PROVE  Landing' /\ QueuesInOrder'
  <2>1. act'.answer \in Prints /\ act'.stage = "answered" /\ session'.rev = session.rev
    BY <1>13 DEF ServedPrint
  <2>2. ~ActLands'
    BY <1>8, <1>10, <2>1
  <2>3. CASE act.kind = "exportApply" /\ session'.src = session.src /\ made' = made
    <3>1. ~SaveLands'
      BY <1>2, <1>10, <2>3
    <3>2. SameDraft
      BY <2>1, <2>3 DEF SameDraft
    <3> QED BY <1>1, <1>2, <1>4, <2>2, <2>3, <3>1, <3>2, DraftKept
  <2>4. CASE /\ act.kind = "saveApply" /\ session'.src = made.files + 1
             /\ made'.files = made.files + 1 /\ act'.answer.src = session'.src
    <3>1. ~lost /\ ~EditLands /\ Cur.exp[1] = session.rev
      BY <1>6, <1>13 DEF ServedPrint
    <3>2. \A i \in 1..Len(queues) :
            /\ queues[i].exp[2] \in Nat /\ queues[i].exp[2] <= made.files
            /\ queues[i].flight # None =>
                 queues[i].flight.exp[2] \in Nat /\ queues[i].flight.exp[2] <= made.files
      BY <1>1, Numbers DEF QueuesInOrder
    <3>3. Cur.exp[2] < session'.src
      <4>1. Cur.exp[2] <= made.files
        BY <1>3, <3>2
      <4>2. Cur.exp[2] \in Nat /\ made.files \in Nat
        BY <1>3
      <4> QED BY <2>4, <4>1, <4>2
    <3>4. Cur.flight # None => Cur.flight.exp # Now'
      <4>1. Cur.flight # None => Cur.flight.exp[2] < session'.src
        <5>1. Cur.flight # None => Cur.flight.exp[2] \in Nat /\ Cur.flight.exp[2] <= made.files
          BY <1>3, <3>2
        <5>2. made.files \in Nat
          BY <1>3
        <5> QED BY <2>4, <5>1, <5>2
      <4>2. session'.src \in Nat /\ Now'[2] = session'.src
        BY <1>3, <2>4 DEF Now
      <4> QED BY <1>3, <4>1, <4>2
    <3>5. SaveLands'
      BY <1>2, <2>1, <2>4 DEF SaveLands, Answered
    <3>6. Landing'
      BY <1>2, <1>4, <2>1, <2>2, <2>4, <3>1, <3>3, <3>4, <3>5, <1>3 DEF Landing
    <3>7. QueuesInOrder'
      <4>1. session'.src <= made'.files /\ Cur.exp[1] <= session'.rev
        BY <1>3, <2>1, <2>4, <3>1
      <4>2. \A i \in 1..Len(queues) :
              /\ queues[i].exp[2] <= made'.files
              /\ queues[i].flight # None => queues[i].flight.exp[2] <= made'.files
        BY <1>3, <2>4, <3>2
      <4> QED BY <1>1, <1>2, <1>4, <4>1, <4>2 DEF QueuesInOrder
    <3> QED BY <3>6, <3>7
  <2> QED BY <1>13, <2>3, <2>4 DEF ServedPrint
<1>14. Landing' /\ QueuesInOrder'
  BY <1>11, <1>12, <1>13 DEF ActIsServed
<1>15. ActInOrder'
  BY <1>1, <1>2, <1>4, <1>5 DEF ActInOrder
<1>16. UnracedInOrder'
  BY <1>1, <1>4 DEF UnracedInOrder
<1>17. Vector!ActionsSeeEdits'
  BY <1>1, <1>2, <1>4 DEF Vector!ActionsSeeEdits, Vector!Cur, Cur
<1>18. RevisionsInOrder'
  BY <1>1, <1>2, <1>4 DEF RevisionsInOrder
<1>19. UrlsInOrder'
  BY <1>1, <1>2, UrlsKept DEF MayCompile
<1> QED BY <1>14, <1>15, <1>16, <1>17, <1>18, <1>19 DEF VectorInv

\* What there is to know of the numbers when the answer of an action is taken.
LEMMA AnswersOver ==
  ASSUME NoneIsNothing, VectorInv, Answered, ActIsOver
  PROVE  Vector!Outstanding /\ ~ActLands' /\ ~SaveLands'
BY DEF Answered, ActIsOver, Vector!Outstanding, ActLands, SaveLands

LEMMA ReplacementTakenKeeps ==
  ASSUME NoneIsNothing, VectorInv, Vector!AnswerReplacement
  PROVE  VectorInv'
<1>1. /\ VectorTypeOK /\ Landing /\ QueuesInOrder /\ ActInOrder /\ UnracedInOrder
      /\ RevisionsInOrder /\ UrlsInOrder /\ Vector!ActionsSeeEdits
  BY DEF VectorInv
<1> DEFINE n == Len(queues)
<1>2. /\ VectorTypeOK' /\ UNCHANGED <<session, urls, made, lost>> /\ ActLands
      /\ ActIsOver /\ MayCompile
      /\ Len(queues') = n + 1
      /\ \A j \in 1..n : queues'[j] = queues[j]
      /\ Cur'.exp = <<act.answer.rev, act.answer.src>>
      /\ Cur'.flight = None /\ Cur'.tasks = <<>>
      /\ ui'.revision = act.answer.rev /\ ui'.latest = act.answer.rev
      /\ ui'.preview = ui.preview /\ ui'.shown = ui.shown
  BY <1>1, AnswerReplacementMoves
<1>3. /\ session.rev \in Nat /\ session.src \in Nat /\ made.files \in Nat /\ made.edits \in Nat
      /\ ui.revision \in Nat /\ ui.latest \in Nat /\ ui.preview \in Nat
      /\ Cur.exp[1] \in Nat /\ Cur = queues[n] /\ n \in 1..n /\ n \in Nat
  BY <1>1, Numbers DEF VectorTypeOK
<1>4. /\ ~lost /\ ~EditLands /\ <<act.answer.rev, act.answer.src>> = Now
      /\ Cur.exp[1] < session.rev
  BY <1>1, <1>2 DEF Landing, IsOf
<1>5. ~ActLands' /\ ~SaveLands' /\ ~EditLands'
  BY <1>2, AnswersOver DEF ActLands, EditLands
<1>6. Now' = Now /\ Cur'.exp = Now /\ Cur' = queues'[n + 1] /\ Cur'.exp[1] = session.rev
      /\ Cur'.exp[2] = session.src
  BY <1>2, <1>4 DEF Now, Cur
<1>7. Landing'
  BY <1>2, <1>4, <1>5, <1>6 DEF Landing
<1>8. QueuesInOrder'
  <2>1. session.src <= made.files
    BY <1>1 DEF QueuesInOrder
  <2>2. ASSUME NEW j \in 1..n
        PROVE  /\ queues[j].exp[2] <= made.files
               /\ queues[j].flight # None =>
                    queues[j].flight.exp[1] <= queues[j].exp[1]
                    /\ queues[j].flight.exp[2] <= made.files
               /\ queues[j].exp[1] < session.rev
               /\ queues[j].flight # None => queues[j].flight.answer \notin Drafts
    <3>1. /\ queues[j].exp[2] <= made.files
          /\ queues[j].flight # None =>
               queues[j].flight.exp[1] <= queues[j].exp[1]
               /\ queues[j].flight.exp[2] <= made.files
          /\ j < n =>
               /\ queues[j].exp[1] < Cur.exp[1]
               /\ queues[j].flight # None => queues[j].flight.answer \notin Drafts
      BY <1>1 DEF QueuesInOrder
    <3>2. queues[j].exp[1] \in Nat
      BY <1>1, Numbers
    <3>3. CASE j = n
      BY <1>3, <1>4, <3>1, <3>3 DEF EditLands
    <3>4. CASE j < n
      <4>1. queues[j].exp[1] < session.rev
        BY <1>3, <1>4, <3>1, <3>2, <3>4
      <4> QED BY <3>1, <3>4, <4>1
    <3>5. j = n \/ j < n
      BY <1>3
    <3> QED BY <3>3, <3>4, <3>5
  <2>3. ASSUME NEW j \in 1..(n + 1)
        PROVE  /\ queues'[j].exp[2] <= made.files
               /\ queues'[j].flight # None =>
                    queues'[j].flight.exp[1] <= queues'[j].exp[1]
                    /\ queues'[j].flight.exp[2] <= made.files
               /\ j < n + 1 =>
                    /\ queues'[j].exp[1] < Cur'.exp[1]
                    /\ queues'[j].flight # None => queues'[j].flight.answer \notin Drafts
    <3>1. CASE j = n + 1
      BY <1>2, <1>3, <1>6, <2>1, <3>1
    <3>2. CASE j \in 1..n
      <4>1. queues'[j] = queues[j]
        BY <1>2, <3>2
      <4> QED BY <1>6, <2>2, <3>2, <4>1
    <3>3. j = n + 1 \/ j \in 1..n
      BY <1>3
    <3> QED BY <3>1, <3>2, <3>3
  <2>4. Cur'.exp[1] <= session'.rev /\ session'.src <= made'.files
    BY <1>2, <1>3, <1>6, <2>1
  <2> QED BY <1>2, <2>3, <2>4 DEF QueuesInOrder
<1>9. ActInOrder'
  BY <1>1, <1>2 DEF ActInOrder, ActIsOver, ActLands, Answered
<1>10. UnracedInOrder'
  BY <1>2 DEF UnracedInOrder
<1>11. Vector!ActionsSeeEdits'
  BY <1>2 DEF ActIsOver, Vector!ActionsSeeEdits
<1>12. RevisionsInOrder'
  <2>1. act.answer.rev = session.rev
    BY <1>4 DEF Now
  <2>2. ui.preview <= session.rev
    BY <1>1, <1>3, <1>4 DEF RevisionsInOrder
  <2> QED BY <1>2, <1>3, <1>6, <2>1, <2>2 DEF RevisionsInOrder
<1>13. UrlsInOrder'
  BY <1>1, <1>2, UrlsKept
<1> QED BY <1>2, <1>7, <1>8, <1>9, <1>10, <1>11, <1>12, <1>13 DEF VectorInv

\* The last queue moves to the draft of the session, from the same or an earlier revision.
LEMMA CurMoves ==
  ASSUME VectorTypeOK, QueuesInOrder, SameQueues, UNCHANGED <<session, made>>,
         Cur'.exp = Now, Cur.exp[1] <= session.rev
  PROVE  QueuesInOrder'
<1> DEFINE n == Len(queues)
<1>1. /\ session.rev \in Nat /\ session.src \in Nat /\ made.files \in Nat
      /\ Cur.exp[1] \in Nat /\ Cur = queues[n] /\ n \in 1..n
  BY Numbers
<1>2. Len(queues') = n /\ Cur' = queues'[n]
      /\ Cur'.exp[1] = session.rev /\ Cur'.exp[2] = session.src
  BY DEF SameQueues, Cur, Now
<1>3. session.src <= made.files
  BY DEF QueuesInOrder
<1>4. ASSUME NEW j \in 1..n
      PROVE  /\ queues'[j].exp[2] <= made.files
             /\ queues'[j].flight # None =>
                  queues'[j].flight.exp[1] <= queues'[j].exp[1]
                  /\ queues'[j].flight.exp[2] <= made.files
             /\ j < n =>
                  /\ queues'[j].exp[1] < Cur'.exp[1]
                  /\ queues'[j].flight # None => queues'[j].flight.answer \notin Drafts
  <2>1. /\ queues[j].exp[2] <= made.files
        /\ queues[j].flight # None =>
             queues[j].flight.exp[1] <= queues[j].exp[1]
             /\ queues[j].flight.exp[2] <= made.files
        /\ j < n =>
             /\ queues[j].exp[1] < Cur.exp[1]
             /\ queues[j].flight # None => queues[j].flight.answer \notin Drafts
    BY DEF QueuesInOrder
  <2>2. /\ queues[j].exp[1] \in Nat
        /\ queues[j].flight # None => queues[j].flight.exp[1] \in Nat
    BY Numbers
  <2>3. CASE j = n
    <3>1. queues'[j].flight = queues[j].flight
      BY <1>1, <1>2, <2>3 DEF SameQueues
    <3>2. queues[j].flight # None => queues[j].flight.exp[1] <= session.rev
      BY <1>1, <2>1, <2>2, <2>3
    <3> QED BY <1>1, <1>2, <1>3, <2>1, <2>3, <3>1, <3>2
  <2>4. CASE j # n
    <3>1. queues'[j] = queues[j]
      BY <2>4 DEF SameQueues
    <3>2. j < n => queues[j].exp[1] < session.rev
      BY <1>1, <2>1, <2>2
    <3> QED BY <1>2, <2>1, <3>1, <3>2
  <2> QED BY <2>3, <2>4
<1>5. Cur'.exp[1] <= session'.rev /\ session'.src <= made'.files
  BY <1>1, <1>2, <1>3
<1> QED BY <1>2, <1>4, <1>5 DEF QueuesInOrder

LEMMA AnswerRebindKeeps ==
  ASSUME NoneIsNothing, VectorInv, Vector!AnswerRebind
  PROVE  VectorInv'
<1>1. /\ VectorTypeOK /\ Landing /\ QueuesInOrder /\ ActInOrder /\ UnracedInOrder
      /\ RevisionsInOrder /\ UrlsInOrder /\ Vector!ActionsSeeEdits
  BY DEF VectorInv
<1>2. /\ VectorTypeOK' /\ UNCHANGED <<session, urls, made, lost>> /\ ActLands
      /\ ActIsOver /\ MayCompile /\ SameQueues
      /\ Cur'.exp = <<act.answer.rev, act.answer.src>>
      /\ ui'.revision = act.answer.rev /\ ui'.latest = ui.latest
      /\ ui'.preview = ui.preview /\ ui'.shown = ui.shown
  BY <1>1, AnswerRebindMoves
<1>3. /\ session.rev \in Nat /\ ui.revision \in Nat /\ ui.latest \in Nat /\ ui.preview \in Nat
      /\ Cur.exp[1] \in Nat
  BY <1>1, Numbers
<1>4. /\ ~lost /\ ~EditLands /\ <<act.answer.rev, act.answer.src>> = Now
      /\ Cur.exp[1] < session.rev
  BY <1>1, <1>2 DEF Landing, IsOf
<1>5. Vector!Outstanding /\ ~ActLands' /\ ~SaveLands' /\ ~EditLands'
  BY <1>2, <1>4, AnswersOver DEF ActLands, EditLands, SameQueues
<1>6. Now' = Now /\ Cur'.exp = Now /\ Cur'.exp[1] = session.rev /\ act.answer.rev = session.rev
  BY <1>2, <1>4 DEF Now
<1>7. Landing'
  BY <1>2, <1>4, <1>5, <1>6 DEF Landing
<1>8. QueuesInOrder'
  BY <1>1, <1>2, <1>3, <1>4, <1>6, CurMoves
<1>9. ActInOrder' /\ UnracedInOrder' /\ Vector!ActionsSeeEdits'
  BY <1>1, <1>2, <1>5, ActKept DEF SameQueues
<1>10. RevisionsInOrder'
  <2>1. ui.latest <= session.rev
    BY <1>1, <1>3, <1>4 DEF RevisionsInOrder
  <2> QED BY <1>1, <1>2, <1>3, <1>6, <2>1 DEF RevisionsInOrder
<1>11. UrlsInOrder'
  BY <1>1, <1>2, UrlsKept
<1> QED BY <1>2, <1>7, <1>8, <1>9, <1>10, <1>11 DEF VectorInv

LEMMA AnswerApplyKeeps ==
  ASSUME NoneIsNothing, VectorInv, Vector!AnswerApply
  PROVE  VectorInv'
<1>1. /\ VectorTypeOK /\ Landing /\ QueuesInOrder /\ ActInOrder /\ UnracedInOrder
      /\ RevisionsInOrder /\ UrlsInOrder /\ Vector!ActionsSeeEdits
  BY DEF VectorInv
<1>2. /\ VectorTypeOK' /\ UNCHANGED <<session, compiles, urls, made, lost>> /\ ActIsOver
      /\ Answered /\ act.answer \in Prints /\ SamePage /\ ui'.shown = ui.shown
  BY <1>1, AnswerApplyMoves
<1>3. \/ act.kind = "saveApply" /\ SameQueues
         /\ Cur'.exp = <<Cur.exp[1], act.answer.src>>
      \/ act.kind # "saveApply" /\ queues' = queues
  BY <1>1, AnswerApplyMoves
<1>4. /\ Cur.exp[1] \in Nat /\ session.rev \in Nat
  BY <1>1, Numbers
<1>5. Vector!Outstanding /\ ~ActLands' /\ ~SaveLands'
  BY <1>2, AnswersOver
<1>6. UrlsInOrder'
  BY <1>1, <1>2, UrlsKept DEF MayCompile
<1>7. CASE /\ act.kind = "saveApply" /\ SameQueues
           /\ Cur'.exp = <<Cur.exp[1], act.answer.src>>
  <2>1. SaveLands
    BY <1>2, <1>7 DEF SaveLands
  <2>2. /\ ~lost /\ ~EditLands /\ Cur.exp[1] = session.rev /\ act.answer.src = session.src
    BY <1>1, <2>1 DEF Landing
  <2>3. Cur'.exp = Now /\ Now' = Now /\ Cur'.exp[1] = session.rev
    BY <1>2, <1>7, <2>2 DEF Now
  <2>4. ~EditLands'
    BY <1>7, <2>2 DEF EditLands, SameQueues
  <2>5. Landing'
    BY <1>2, <1>5, <2>2, <2>3, <2>4 DEF Landing
  <2>6. QueuesInOrder'
    BY <1>1, <1>2, <1>4, <1>7, <2>2, <2>3, CurMoves
  <2>7. ActInOrder' /\ UnracedInOrder' /\ Vector!ActionsSeeEdits'
    BY <1>1, <1>2, <1>5, <1>7, ActKept DEF SameQueues
  <2>8. RevisionsInOrder'
    BY <1>1, <1>2, <2>2, <2>3 DEF RevisionsInOrder, SamePage
  <2> QED BY <1>2, <1>6, <2>5, <2>6, <2>7, <2>8 DEF VectorInv
<1>8. CASE act.kind # "saveApply" /\ queues' = queues
  <2>1. ~ActLands /\ ~SaveLands
    BY <1>2, <1>8, AnswersDiffer DEF ActLands, SaveLands
  <2>2. Landing' /\ QueuesInOrder'
    BY <1>1, <1>2, <1>5, <1>8, <2>1, DraftKept DEF SameDraft
  <2>3. Cur' = Cur
    BY <1>8 DEF Cur
  <2>4. ActInOrder' /\ UnracedInOrder' /\ Vector!ActionsSeeEdits'
    BY <1>1, <1>2, <1>5, <2>3, ActKept
  <2>5. RevisionsInOrder'
    BY <1>1, <1>2, <2>3 DEF RevisionsInOrder, SamePage
  <2> QED BY <1>2, <1>6, <2>2, <2>4, <2>5 DEF VectorInv
<1> QED BY <1>3, <1>7, <1>8

LEMMA AnswerWordKeeps ==
  ASSUME NoneIsNothing, VectorInv, Vector!AnswerPlan \/ Vector!AnswerRefusal
  PROVE  VectorInv'
<1>1. /\ VectorTypeOK /\ Landing /\ QueuesInOrder /\ ActInOrder /\ UnracedInOrder
      /\ RevisionsInOrder /\ UrlsInOrder /\ Vector!ActionsSeeEdits
  BY DEF VectorInv
<1>2. /\ VectorTypeOK' /\ UNCHANGED <<session, queues, compiles, urls, made, lost>>
      /\ Answered /\ act.answer \in Words /\ ActIsOver
      /\ SamePage /\ ui'.shown = ui.shown
  BY <1>1, AnswerWordMoves
<1>3. Vector!Outstanding /\ ~ActLands' /\ ~SaveLands' /\ ~ActLands /\ ~SaveLands
  BY <1>2, AnswersOver, AnswersDiffer DEF ActLands, SaveLands
<1>4. Landing' /\ QueuesInOrder'
  BY <1>1, <1>2, <1>3, DraftKept DEF SameDraft
<1>5. Cur' = Cur
  BY <1>2 DEF Cur
<1>6. ActInOrder' /\ UnracedInOrder' /\ Vector!ActionsSeeEdits'
  BY <1>1, <1>2, <1>3, <1>5, ActKept
<1>7. RevisionsInOrder'
  BY <1>1, <1>2, <1>5 DEF RevisionsInOrder, SamePage
<1>8. UrlsInOrder'
  BY <1>1, <1>2, UrlsKept DEF MayCompile
<1> QED BY <1>2, <1>4, <1>6, <1>7, <1>8 DEF VectorInv

LEMMA VectorInvInit ==
  ASSUME NoneIsNothing, Vector!Init
  PROVE  VectorInv
<1>1. PICK saved \in BOOLEAN, compiled \in BOOLEAN :
        session = [rev |-> 1, src |-> IF saved THEN 1 ELSE 0, dirty |-> ~saved, intent |-> None,
                   compiled |-> compiled, ok |-> TRUE, plans |-> Vector!NoPlans, ver |-> None]
  BY DEF Vector!Init
<1>2. session \in SessionState /\ session.rev = 1 /\ session.src \in {0, 1}
  BY <1>1 DEF SessionState, Vector!NoPlans
<1> DEFINE q == [tasks |-> <<>>, flight |-> None, exp |-> <<session.rev, session.src>>]
<1>3. queues = <<q>>
  BY DEF Vector!Init, Vector!Identity
<1>4. q \in Queue /\ q.flight = None /\ q.tasks = <<>> /\ q.exp = Now
  BY <1>2 DEF Queue, Identities, Now
<1> HIDE DEF q
<1>5. Len(queues) = 1 /\ queues \in Seq(Queue) /\ Cur = q /\ \A i \in 1..1 : queues[i] = q
  BY <1>3, <1>4 DEF Cur
<1>6. /\ ui \in Interface /\ ui.revision = 1 /\ ui.latest = 1 /\ ui.preview = 0 /\ ui.shown = 0
  BY <1>2 DEF Vector!Init, Interface, Vector!NoPlans, SessionState
<1>7. /\ act = None /\ compiles = <<>> /\ urls = [live |-> {}, lastGood |-> 0] /\ lost = FALSE
      /\ made = [edits |-> 0, actions |-> 0, refreshes |-> 0, files |-> 1]
  BY DEF Vector!Init
<1>8. VectorTypeOK
  <2>1. compiles \in Seq(Compile)
    BY <1>7
  <2>2. urls \in [live : SUBSET Nat, lastGood : Nat]
    BY <1>7
  <2>3. made \in [edits : Nat, actions : Nat, refreshes : Nat, files : Nat]
    BY <1>7
  <2>4. act \in Actions \cup {None} /\ lost \in BOOLEAN
    BY <1>7
  <2>5. Len(queues) >= 1
    BY <1>5
  <2>6. session \in SessionState /\ queues \in Seq(Queue) /\ ui \in Interface
    BY <1>2, <1>5, <1>6
  <2> QED BY <2>1, <2>2, <2>3, <2>4, <2>5, <2>6 DEF VectorTypeOK
<1>9. Landing
  BY <1>4, <1>5, <1>7 DEF Landing, EditLands, ActLands, SaveLands, Answered
<1>10. QueuesInOrder
  <2>1. q.exp[1] = 1 /\ q.exp[2] \in {0, 1}
    BY <1>2, <1>4 DEF Now
  <2> QED BY <1>2, <1>4, <1>5, <1>7, <2>1 DEF QueuesInOrder
<1>11. ActInOrder /\ UnracedInOrder /\ Vector!ActionsSeeEdits
  BY <1>4, <1>5, <1>7 DEF ActInOrder, UnracedInOrder, Vector!ActionsSeeEdits
<1>12. RevisionsInOrder
  BY <1>2, <1>4, <1>5, <1>6 DEF RevisionsInOrder, Now
<1>13. UrlsInOrder
  BY <1>6, <1>7 DEF UrlsInOrder, Vector!ShownUrlIsLive
<1> QED BY <1>8, <1>9, <1>10, <1>11, <1>12, <1>13 DEF VectorInv

LEMMA Serves ==
  ASSUME NoneIsNothing, VectorTypeOK, ActInOrder,
         \/ Vector!BeginReplacement \/ Vector!CommitReplacement \/ Vector!CancelReplacement
         \/ Vector!FailReplacement \/ Vector!BeginPlan \/ Vector!RetainPlan \/ Vector!Apply
         \/ Vector!BindVerifyAdopt
  PROVE  VectorTypeOK' /\ ActIsServed
BY ReplacementsMove, CommitMoves, PlansMove, ApplyMoves, BindVerifyAdoptMoves

LEMMA VectorInvNext ==
  ASSUME NoneIsNothing, VectorInv, Vector!Next
  PROVE  VectorInv'
<1>1. VectorTypeOK /\ ActInOrder
  BY DEF VectorInv
<1>2. DOMAIN queues = 1..Len(queues) /\ DOMAIN compiles = 1..Len(compiles)
  BY <1>1, CurIsQueue
<1>3. CASE Vector!User
  BY <1>3, QueuedEditKeeps, CompilesKeep, StartKeeps DEF Vector!User
<1>4. CASE Vector!Serve
  BY <1>1, <1>2, <1>4, ServeEditKeeps, CompilesKeep, Serves, ServedKeeps DEF Vector!Serve
<1>5. CASE Vector!Continue
  BY <1>2, <1>5, AnswerEditKeeps, CompilesKeep, ReplacementTakenKeeps, AnswerRebindKeeps,
     AnswerWordKeeps, AnswerApplyKeeps
  DEF Vector!Continue
<1> QED BY <1>3, <1>4, <1>5 DEF Vector!Next

LEMMA VectorStays ==
  ASSUME VectorInv, UNCHANGED vectorVars
  PROVE  VectorInv'
<1>1. UNCHANGED <<session, queues, ui, act, compiles, urls, made, lost>>
  BY DEF vectorVars
<1>2. Cur' = Cur /\ Now' = Now
  BY <1>1 DEF Cur, Now
<1>3. /\ (EditLands' <=> EditLands) /\ (ActLands' <=> ActLands) /\ (SaveLands' <=> SaveLands)
      /\ Answered' <=> Answered
  BY <1>1, <1>2 DEF EditLands, ActLands, SaveLands, Answered
<1>4. VectorTypeOK' /\ Landing' /\ QueuesInOrder'
  BY <1>1, <1>2, <1>3 DEF VectorInv, VectorTypeOK, Landing, IsOf, QueuesInOrder
<1>5. ActInOrder' /\ UnracedInOrder' /\ RevisionsInOrder'
  BY <1>1, <1>2
  DEF VectorInv, ActInOrder, Answerable, UnracedInOrder, Vector!Outstanding, RevisionsInOrder
<1>6. UrlsInOrder' /\ Vector!ActionsSeeEdits'
  BY <1>1 DEF VectorInv, UrlsInOrder, Vector!ShownUrlIsLive, Vector!ActionsSeeEdits, Vector!Cur
<1> QED BY <1>4, <1>5, <1>6 DEF VectorInv

LEMMA VectorInvStep ==
  ASSUME NoneIsNothing, VectorInv, [Next]_vars
  PROVE  VectorInv'
<1>1. CASE InVector(Vector!Next)
  BY <1>1, VectorInvNext DEF InVector
<1>2. CASE ~InVector(Vector!Next)
  <2>1. UNCHANGED vectorVars
    BY <1>2 DEF Next, InTheme, InExchange, InBrand, vars
  <2> QED BY <2>1, VectorStays
<1> QED BY <1>1, <1>2

LEMMA VectorInvHolds ==
  ASSUME NoneIsNothing
  PROVE  Spec => []VectorInv
<1>1. Init => VectorInv
  BY VectorInvInit DEF Init
<1> QED BY <1>1, VectorInvStep, PTL DEF Spec

\* edit-queue.ts expects the session's draft, or the answer that moves it there is on its
\* way; an edit that raced no action is never stale; an action's request leaves after the
\* edits made before the click were settled.
THEOREM EditsStayInStep ==
  ASSUME NoneIsNothing
  PROVE  Spec => []EditsInStep
<1>1. VectorInv => EditsInStep
  <2> SUFFICES ASSUME VectorInv PROVE EditsInStep
    OBVIOUS
  <2>1. Landing /\ UnracedInOrder /\ Vector!ActionsSeeEdits
    BY DEF VectorInv
  <2>2. Vector!Cur = Cur /\ Vector!Identity(session) = Now
    BY DEF Vector!Cur, Cur, Vector!Identity, Now
  <2>3. \A a \in Drafts : a # None /\ "rev" \in DOMAIN a
    BY DEF Drafts, NoneIsNothing, Answers
  <2>4. \A a \in Prints : a # None /\ "published" \in DOMAIN a
    BY DEF Prints, NoneIsNothing, Answers
  <2>5. Vector!QueueInStep
    <3>1. CASE lost \/ Cur.exp = Now
      BY <2>2, <3>1 DEF Vector!QueueInStep
    <3>2. CASE EditLands
      BY <2>1, <2>2, <2>3, <3>2 DEF EditLands, Landing, IsOf, Vector!QueueInStep, Vector!Brings
    <3>3. CASE ActLands
      BY <2>1, <2>2, <2>3, <3>3
      DEF ActLands, Answered, Landing, IsOf, Vector!QueueInStep, Vector!Brings
    <3>4. CASE SaveLands
      <4>1. <<Cur.exp[1], act.answer.src>> = Now
        BY <2>1, <3>4 DEF Landing, Now
      <4> QED BY <2>2, <2>4, <3>4, <4>1
              DEF SaveLands, Answered, Vector!QueueInStep, Vector!BringsSource
    <3> QED BY <2>1, <3>1, <3>2, <3>3, <3>4 DEF Landing
  <2>6. Vector!SerialEditsAccepted
    <3> SUFFICES ASSUME ~lost, Cur.flight # None, Cur.flight.answer = None, ~Cur.flight.raced
                 PROVE  Cur.flight.exp = Now
      BY <2>2 DEF Vector!SerialEditsAccepted
    <3>1. ~Vector!Outstanding /\ Cur.flight.exp = Cur.exp
      BY <2>1 DEF UnracedInOrder
    <3>2. ~EditLands /\ ~ActLands /\ ~SaveLands
      BY <2>3, <3>1 DEF EditLands, ActLands, SaveLands, Answered, Vector!Outstanding
    <3> QED BY <2>1, <3>1, <3>2 DEF Landing
  <2> QED BY <2>1, <2>5, <2>6 DEF EditsInStep
<1> QED BY <1>1, VectorInvHolds, PTL

\* The picture on the page of the vector workbench is the last good one, it has not been
\* revoked, and nothing else is kept alive but the candidates that are being decoded
\* (blob-preview.ts).
THEOREM VectorPictureIsLive ==
  ASSUME NoneIsNothing
  PROVE  Spec => []Vector!ShownUrlIsLive
<1>1. VectorInv => Vector!ShownUrlIsLive
  BY DEF VectorInv, UrlsInOrder
<1> QED BY <1>1, VectorInvHolds, PTL

LEMMA PreviewForward ==
  ASSUME NoneIsNothing, VectorInv, Vector!Next
  PROVE  ui'.preview >= ui.preview
<1>1. VectorTypeOK /\ ActInOrder /\ RevisionsInOrder
  BY DEF VectorInv
<1>2. /\ DOMAIN queues = 1..Len(queues) /\ DOMAIN compiles = 1..Len(compiles)
      /\ ui.preview \in Nat /\ ui.latest \in Nat
  BY <1>1, CurIsQueue, Numbers
<1>3. CASE Vector!User
  <2>1. ui'.preview = ui.preview
    BY <1>1, <1>3, EditMoves, RefreshMoves, StartMoves DEF Vector!User
  <2> QED BY <1>2, <2>1
<1>4. CASE Vector!Serve
  <2>1. ui' = ui
    BY <1>1, <1>2, <1>4, ServeEditMoves, ServeCompileMoves, Serves DEF Vector!Serve, ActIsServed
  <2> QED BY <1>2, <2>1
<1>5. ASSUME NEW c \in 1..Len(compiles), Vector!Decode(c)
      PROVE  ui'.preview >= ui.preview
  <2>1. ui'.preview \in {ui.latest, ui.preview}
    BY <1>1, <1>5, DecodeMoves
  <2> QED BY <1>1, <1>2, <2>1 DEF RevisionsInOrder
<1>6. CASE Vector!Continue
  <2>1. CASE \E c \in 1..Len(compiles) : Vector!Decode(c)
    BY <1>5, <2>1
  <2>2. CASE ~\E c \in 1..Len(compiles) : Vector!Decode(c)
    <3>1. ui'.preview = ui.preview
      BY <1>1, <1>2, <1>6, <2>2, AnswerEditMoves, AnswerCompileMoves, AnswerReplacementMoves,
         AnswerRebindMoves, AnswerWordMoves, AnswerApplyMoves, RenderMoves
      DEF Vector!Continue, SamePage
    <3> QED BY <1>2, <3>1
  <2> QED BY <2>1, <2>2
<1> QED BY <1>3, <1>4, <1>6 DEF Vector!Next

\* A compile that answers late does not replace a newer preview (triggerCompile and
\* updatePreview of VectorGraphicsLab.tsx).
THEOREM PreviewsGoForward ==
  ASSUME NoneIsNothing
  PROVE  Spec => PreviewNeverGoesBack
<1>1. VectorInv /\ [Next]_vars => [ui'.preview >= ui.preview]_(Vector!vars)
  <2> SUFFICES ASSUME VectorInv, [Next]_vars
               PROVE  [ui'.preview >= ui.preview]_(Vector!vars)
    OBVIOUS
  <2>1. CASE InVector(Vector!Next)
    BY <2>1, PreviewForward DEF InVector
  <2>2. CASE ~InVector(Vector!Next)
    BY <2>2 DEF Next, InTheme, InExchange, InBrand, vars, vectorVars, Vector!vars
  <2> QED BY <2>1, <2>2
<1> QED BY <1>1, VectorInvHolds, PTL DEF Spec, PreviewNeverGoesBack, Vector!PreviewNeverGoesBack
-----------------------------------------------------------------------------
(***************************************************************************)
(* The design exchange.                                                    *)
(*                                                                         *)
(* An operation number is of one operation or of the candidate it brought. *)
(* A picture made in the epoch of now is alive, and what makes an epoch    *)
(* end takes the candidates off the page or their URLs off them.  A        *)
(* matched candidate came under the identity the effects last ran for, or  *)
(* under the identity they have yet to run for, and they will sweep it.    *)
(***************************************************************************)

NoneIsNoNumber == None \notin Nat

Projects == Nat \cup {None}
Brought == Nat \cup {None} \cup Packets
Trusts == {"self-consistent", "matched", "mismatch", "stale"}
CandidateState ==
  [op : Nat, packet : Brought, brief : Projects, url : Projects, trust : Trusts,
   since : Nat, landed : Nat]
DeskState ==
  [brief : Projects, trust : Trusts \cup {"current", None}, candidates : SUBSET CandidateState,
   review : (SUBSET Nat) \cup {None}, draft : Brought]
JobState ==
  [op : Nat, kind : {"create", "brief", "candidate", "import", "export", "proposal"},
   stage : {"asked", "digest", "saving", "drawing", "made"}, identity : Nat,
   project : Projects, digest : Projects, brief : Projects,
   candidates : SUBSET CandidateState, candidate : Brought, epoch : Nat]

ExchangeTypeOK ==
  /\ props \in [identity : Nat, project : Projects, form : Brought]
  /\ digest \in Projects /\ handled \in Nat /\ epoch \in Nat /\ started \in Nat
  /\ desk \in DeskState /\ jobs \in SUBSET JobState

JobsInOrder ==
  /\ \A j \in jobs :
       /\ j.op <= started /\ j.epoch <= epoch /\ j.identity <= props.identity
       /\ j.identity = props.identity => j.project = props.project
  /\ \A j, k \in jobs : j.op = k.op => j = k

CandidatesInOrder ==
  /\ \A c \in desk.candidates :
       /\ c.op <= started /\ c.url \in {None, c.op} /\ c.since <= props.identity
       /\ \A j \in jobs : j.op # c.op
  /\ \A c, d \in desk.candidates : c.op = d.op => c = d

PicturesAreLive ==
  /\ Exchange!KeptUrlsAreLive
  /\ \A j \in jobs : j.stage = "made" /\ j.epoch = epoch => j.op \in alive

TrustInOrder ==
  \A c \in desk.candidates :
    c.trust = "matched" =>
      /\ c.landed \in {handled, props.identity}
      /\ c.since = props.identity => c.brief = props.project

ExchangeInv ==
  /\ ExchangeTypeOK /\ JobsInOrder /\ CandidatesInOrder /\ PicturesAreLive /\ TrustInOrder
  /\ Exchange!FormFollowsPage

LEMMA ExchangeInvInit ==
  ASSUME NoneIsNoNumber, Exchange!Init
  PROVE  ExchangeInv
<1>1. /\ props = [identity |-> 0, project |-> None, form |-> None] /\ desk = Exchange!Empty
      /\ digest = None /\ handled = 0 /\ epoch = 0 /\ jobs = {} /\ started = 0
  BY DEF Exchange!Init
<1>2. desk \in DeskState /\ desk.candidates = {} /\ desk.draft = None
  <2>1. desk = [brief |-> None, trust |-> None, candidates |-> {}, review |-> None, draft |-> None]
    BY <1>1 DEF Exchange!Empty
  <2>2. {} \in SUBSET CandidateState /\ None \in Projects /\ None \in Brought
    BY DEF Projects, Brought
  <2> QED BY <2>1, <2>2 DEF DeskState
<1>3. ExchangeTypeOK
  BY <1>1, <1>2 DEF ExchangeTypeOK, Projects, Brought
<1>4. JobsInOrder /\ CandidatesInOrder /\ PicturesAreLive /\ TrustInOrder
      /\ Exchange!FormFollowsPage
  BY <1>1, <1>2
  DEF JobsInOrder, CandidatesInOrder, PicturesAreLive, TrustInOrder,
      Exchange!FormFollowsPage, Exchange!KeptUrlsAreLive
<1> QED BY <1>3, <1>4 DEF ExchangeInv

\* An operation ends or goes on.
LEMMA JobGoesOn ==
  ASSUME ExchangeTypeOK, JobsInOrder, NEW job \in jobs, NEW k \in JobState,
         k.op = job.op, k.identity = job.identity, k.project = job.project, k.epoch <= epoch,
         jobs' \in {jobs \ {job}, (jobs \ {job}) \cup {k}},
         props'.identity = props.identity, props'.project = props.project,
         epoch' \in {epoch, epoch + 1}, started' = started
  PROVE  /\ jobs' \in SUBSET JobState /\ JobsInOrder'
         /\ \A j \in jobs' : \E i \in jobs : i.op = j.op
<1>1. epoch \in Nat /\ jobs \in SUBSET JobState
  BY DEF ExchangeTypeOK
<1>2. \A j \in JobState : j.epoch \in Nat
  BY DEF JobState
<1>3. \A j \in jobs' : j = k \/ (j \in jobs /\ j # job)
  OBVIOUS
<1>4. \A j \in jobs' :
        /\ j.op <= started /\ j.epoch <= epoch' /\ j.identity <= props.identity
        /\ j.identity = props.identity => j.project = props.project
  <2> SUFFICES ASSUME NEW j \in jobs'
               PROVE  /\ j.op <= started /\ j.epoch <= epoch' /\ j.identity <= props.identity
                      /\ j.identity = props.identity => j.project = props.project
    OBVIOUS
  <2>1. PICK i \in jobs : i.op = j.op /\ i.identity = j.identity /\ i.project = j.project
    BY <1>3
  <2>2. j.epoch <= epoch /\ j.epoch \in Nat
    BY <1>1, <1>2, <1>3 DEF JobsInOrder
  <2>3. j.epoch <= epoch'
    BY <1>1, <2>2
  <2> QED BY <2>1, <2>3 DEF JobsInOrder
<1>5. \A j, i \in jobs' : j.op = i.op => j = i
  BY <1>3 DEF JobsInOrder
<1> QED BY <1>1, <1>3, <1>4, <1>5 DEF JobsInOrder

\* The candidates stay, and nothing of theirs is revoked.
LEMMA DeskKept ==
  ASSUME CandidatesInOrder, TrustInOrder, desk'.candidates = desk.candidates,
         props'.identity = props.identity, props'.project = props.project,
         handled' = handled, started' = started,
         \A j \in jobs' : \E i \in jobs : i.op = j.op
  PROVE  CandidatesInOrder' /\ TrustInOrder'
BY DEF CandidatesInOrder, TrustInOrder

LEMMA FormKept ==
  ASSUME Exchange!FormFollowsPage, props' = props, handled' = handled, desk'.draft = desk.draft
  PROVE  Exchange!FormFollowsPage'
BY DEF Exchange!FormFollowsPage, Exchange!Due

LEMMA SwitchKeeps ==
  ASSUME ExchangeInv, Exchange!Switch
  PROVE  ExchangeInv'
<1>1. /\ ExchangeTypeOK /\ JobsInOrder /\ CandidatesInOrder /\ PicturesAreLive /\ TrustInOrder
  BY DEF ExchangeInv
<1> DEFINE n == props.identity + 1
<1>2. n \in Nat /\ props.identity \in Nat /\ n > props.identity /\ handled = props.identity
  BY <1>1 DEF ExchangeTypeOK, Exchange!Switch, Exchange!Due
<1>3. UNCHANGED <<digest, handled, desk, epoch, alive, jobs, busy, started>>
  BY DEF Exchange!Switch
<1>4. props' \in [identity : Nat, project : Projects, form : Brought] /\ props'.identity = n
  BY <1>1, <1>2 DEF ExchangeTypeOK, Exchange!Switch, Projects, Brought
<1>5. ExchangeTypeOK'
  BY <1>1, <1>3, <1>4 DEF ExchangeTypeOK
<1>6. /\ \A j \in jobs : j.identity \in Nat
      /\ \A c \in desk.candidates : c.since \in Nat
  BY <1>1 DEF ExchangeTypeOK, JobState, DeskState, CandidateState
<1> HIDE DEF n
<1>7. JobsInOrder'
  BY <1>1, <1>2, <1>3, <1>4, <1>6 DEF JobsInOrder
<1>8. CandidatesInOrder' /\ TrustInOrder'
  BY <1>1, <1>2, <1>3, <1>4, <1>6 DEF CandidatesInOrder, TrustInOrder
<1>9. PicturesAreLive'
  BY <1>1, <1>3 DEF PicturesAreLive, Exchange!KeptUrlsAreLive
<1>10. Exchange!FormFollowsPage'
  BY <1>2, <1>3, <1>4 DEF Exchange!FormFollowsPage, Exchange!Due
<1> QED BY <1>5, <1>7, <1>8, <1>9, <1>10 DEF ExchangeInv

LEMMA EffectsKeep ==
  ASSUME NoneIsNoNumber, ExchangeInv, Exchange!Effects
  PROVE  ExchangeInv'
<1>1. /\ ExchangeTypeOK /\ JobsInOrder /\ CandidatesInOrder /\ PicturesAreLive /\ TrustInOrder
  BY DEF ExchangeInv
<1> DEFINE stale(c) == [c EXCEPT !.trust = "stale", !.url = None]
           t == IF desk.brief = None THEN desk.trust ELSE "stale"
           kept == {stale(c) : c \in desk.candidates}
<1>2. /\ UNCHANGED <<jobs, busy, started>> /\ handled' = props.identity /\ epoch' = epoch + 1
      /\ alive' = {} /\ props' = [props EXCEPT !.form = None]
      /\ desk' = [desk EXCEPT !.trust = t, !.candidates = kept, !.draft = None]
  BY DEF Exchange!Effects, Exchange!Stale
<1>3. digest' \in Projects
  BY <1>1 DEF Exchange!Effects, ExchangeTypeOK, Projects
<1>4. /\ props' \in [identity : Nat, project : Projects, form : Brought]
      /\ props'.identity = props.identity /\ props'.project = props.project
      /\ handled' \in Nat /\ epoch \in Nat /\ epoch' \in Nat /\ desk \in DeskState
  BY <1>1, <1>2 DEF ExchangeTypeOK, Brought
<1>5. \A c \in desk.candidates :
        /\ stale(c) \in CandidateState
        /\ stale(c).op = c.op /\ stale(c).url = None /\ stale(c).trust = "stale"
        /\ stale(c).since = c.since
  BY <1>4 DEF DeskState, CandidateState, Projects, Trusts
<1>6. kept \in SUBSET CandidateState
  BY <1>5
<1>7. t \in Trusts \cup {"current", None} /\ None \in Brought
  BY <1>4 DEF DeskState, Trusts, Brought
<1>8. \A d \in kept : \E c \in desk.candidates :
        d = stale(c) /\ d.op = c.op /\ d.url = None /\ d.trust = "stale" /\ d.since = c.since
  BY <1>5
<1>9. \A c, d \in desk.candidates : c = d => stale(c) = stale(d)
  OBVIOUS
<1> HIDE DEF stale, kept, t
<1>10. desk' \in DeskState /\ desk'.candidates = kept /\ desk'.draft = None
  BY <1>2, <1>4, <1>6, <1>7 DEF DeskState
<1>11. ExchangeTypeOK'
  BY <1>1, <1>2, <1>3, <1>4, <1>10 DEF ExchangeTypeOK
<1>12. JobsInOrder'
  <2>1. \A j \in jobs : j.epoch \in Nat
    BY <1>1 DEF ExchangeTypeOK, JobState
  <2>2. \A j \in jobs : j.epoch <= epoch'
    BY <1>1, <1>2, <1>4, <2>1 DEF JobsInOrder
  <2> QED BY <1>1, <1>2, <1>4, <2>2 DEF JobsInOrder
<1>13. CandidatesInOrder'
  <2>1. \A d \in kept :
          /\ d.op <= started /\ d.url \in {None, d.op} /\ d.since <= props.identity
          /\ \A j \in jobs : j.op # d.op
    BY <1>1, <1>8 DEF CandidatesInOrder
  <2>2. \A d, e \in kept : d.op = e.op => d = e
    BY <1>1, <1>8 DEF CandidatesInOrder
  <2> QED BY <1>2, <1>4, <1>10, <2>1, <2>2 DEF CandidatesInOrder
<1>14. PicturesAreLive'
  <2>1. \A j \in jobs : j.epoch # epoch'
    <3>1. \A j \in jobs : j.epoch \in Nat /\ j.epoch <= epoch
      BY <1>1 DEF ExchangeTypeOK, JobState, JobsInOrder
    <3> QED BY <1>2, <1>4, <3>1
  <2>2. \A d \in kept : d.url = None
    BY <1>8
  <2> QED BY <1>2, <1>10, <2>1, <2>2 DEF PicturesAreLive, Exchange!KeptUrlsAreLive
<1>15. TrustInOrder'
  BY <1>8, <1>10 DEF TrustInOrder
<1>16. Exchange!FormFollowsPage'
  BY <1>10 DEF Exchange!FormFollowsPage
<1> QED BY <1>11, <1>12, <1>13, <1>14, <1>15, <1>16 DEF ExchangeInv

\* Without an operation.
LEMMA DeskSteps ==
  ASSUME NoneIsNoNumber, ExchangeInv,
         Exchange!ContextRead \/ Exchange!Annotate \/ Exchange!RemoveCandidate
  PROVE  ExchangeInv'
<1>1. /\ ExchangeTypeOK /\ JobsInOrder /\ CandidatesInOrder /\ PicturesAreLive /\ TrustInOrder
      /\ Exchange!FormFollowsPage
  BY DEF ExchangeInv
<1>2. UNCHANGED <<props, handled, epoch, jobs, started>>
  BY DEF Exchange!ContextRead, Exchange!Annotate, Exchange!RemoveCandidate
<1>3. JobsInOrder'
  BY <1>1, <1>2 DEF JobsInOrder
<1>4. CASE Exchange!ContextRead
  <2>1. UNCHANGED <<desk, alive>> /\ digest' \in Projects
    BY <1>1, <1>4 DEF Exchange!ContextRead, ExchangeTypeOK
  <2> QED
    BY <1>1, <1>2, <1>3, <2>1, FormKept
    DEF ExchangeInv, ExchangeTypeOK, CandidatesInOrder, PicturesAreLive, TrustInOrder,
        Exchange!KeptUrlsAreLive
<1>5. CASE Exchange!Annotate
  <2>1. UNCHANGED <<digest, alive>> /\ desk' = [desk EXCEPT !.review = None]
    BY <1>5 DEF Exchange!Annotate
  <2>2. desk' \in DeskState /\ desk'.candidates = desk.candidates /\ desk'.draft = desk.draft
    BY <1>1, <2>1 DEF ExchangeTypeOK, DeskState
  <2>3. CandidatesInOrder' /\ TrustInOrder'
    BY <1>1, <1>2, <2>2, DeskKept
  <2> QED
    BY <1>1, <1>2, <1>3, <2>1, <2>2, <2>3, FormKept
    DEF ExchangeInv, ExchangeTypeOK, PicturesAreLive, Exchange!KeptUrlsAreLive
<1>6. CASE Exchange!RemoveCandidate
  <2>1. PICK c \in desk.candidates :
          /\ desk' = [desk EXCEPT !.candidates = @ \ {c}, !.review = None, !.draft = None]
          /\ alive' = alive \ {c.url}
    BY <1>6 DEF Exchange!RemoveCandidate
  <2>2. UNCHANGED digest
    BY <1>6 DEF Exchange!RemoveCandidate
  <2>3. /\ desk' \in DeskState /\ desk'.candidates = desk.candidates \ {c}
        /\ desk'.draft = None
    BY <1>1, <2>1 DEF ExchangeTypeOK, DeskState, Brought
  <2>4. CandidatesInOrder' /\ TrustInOrder'
    BY <1>1, <1>2, <2>3 DEF CandidatesInOrder, TrustInOrder
  <2>5. PicturesAreLive'
    <3>1. \A d \in desk.candidates : d.op \in Nat
      BY <1>1 DEF ExchangeTypeOK, DeskState, CandidateState
    <3>2. \A d \in desk.candidates \ {c} : d.url = None \/ d.url # c.url
      BY <1>1, <3>1 DEF CandidatesInOrder, NoneIsNoNumber
    <3>3. \A j \in jobs : j.op # c.url
      <4>1. \A j \in jobs : j.op \in Nat
        BY <1>1 DEF ExchangeTypeOK, JobState
      <4> QED BY <1>1, <4>1 DEF CandidatesInOrder, NoneIsNoNumber
    <3> QED BY <1>1, <1>2, <2>1, <2>3, <3>2, <3>3
            DEF PicturesAreLive, Exchange!KeptUrlsAreLive
  <2>6. Exchange!FormFollowsPage'
    BY <2>3 DEF Exchange!FormFollowsPage
  <2> QED BY <1>1, <1>2, <1>3, <2>2, <2>3, <2>4, <2>5, <2>6 DEF ExchangeInv, ExchangeTypeOK
<1> QED BY <1>4, <1>5, <1>6

LEMMA StartKeepsExchange ==
  ASSUME NoneIsNoNumber, ExchangeInv,
         \/ Exchange!CreateBrief \/ Exchange!ImportBrief \/ Exchange!ImportCandidate
         \/ Exchange!ImportReview \/ Exchange!ExportReview \/ Exchange!LoadProposal
  PROVE  ExchangeInv'
<1>1. /\ ExchangeTypeOK /\ JobsInOrder /\ CandidatesInOrder /\ PicturesAreLive /\ TrustInOrder
      /\ Exchange!FormFollowsPage
  BY DEF ExchangeInv
<1>2. PICK kind \in {"create", "brief", "candidate", "import", "export", "proposal"},
           candidate \in Projects : Exchange!Start(kind, candidate)
  <2>1. \A c \in desk.candidates : c.op \in Projects
    BY <1>1 DEF ExchangeTypeOK, DeskState, CandidateState, Projects
  <2> QED BY <2>1 DEF Exchange!CreateBrief, Exchange!ImportBrief, Exchange!ImportCandidate,
             Exchange!ImportReview, Exchange!ExportReview, Exchange!LoadProposal, Projects
<1> DEFINE job == [op |-> started + 1, kind |-> kind, stage |-> "asked",
                   identity |-> props.identity, project |-> props.project,
                   digest |-> digest, brief |-> desk.brief,
                   candidates |-> desk.candidates, candidate |-> candidate, epoch |-> epoch]
<1>3. /\ UNCHANGED <<props, digest, handled, desk, epoch, alive>>
      /\ started' = started + 1 /\ jobs' = jobs \cup {job}
  BY <1>2 DEF Exchange!Start
<1>4. started \in Nat /\ epoch \in Nat /\ props.identity \in Nat
  BY <1>1 DEF ExchangeTypeOK
<1>5. job \in JobState
  BY <1>1, <1>4 DEF ExchangeTypeOK, JobState, DeskState, Projects, Brought
<1>6. /\ job.op = started + 1 /\ job.stage = "asked" /\ job.identity = props.identity
      /\ job.project = props.project /\ job.epoch = epoch
  OBVIOUS
<1> HIDE DEF job
<1>7. ExchangeTypeOK'
  BY <1>1, <1>3, <1>4, <1>5 DEF ExchangeTypeOK
<1>8. /\ \A j \in jobs : j.op <= started /\ j.op \in Nat
      /\ \A c \in desk.candidates : c.op <= started /\ c.op \in Nat
  BY <1>1 DEF ExchangeTypeOK, DeskState, CandidateState, JobState, JobsInOrder, CandidatesInOrder
<1>9. /\ \A j \in jobs : j.op <= started' /\ j.op # job.op
      /\ \A c \in desk.candidates : c.op <= started' /\ c.op # job.op
      /\ job.op <= started'
  BY <1>3, <1>4, <1>6, <1>8
<1>10. JobsInOrder'
  <2>1. props.identity <= props.identity /\ epoch <= epoch
    BY <1>4
  <2> QED BY <1>1, <1>3, <1>6, <1>9, <2>1 DEF JobsInOrder
<1>11. CandidatesInOrder' /\ TrustInOrder'
  BY <1>1, <1>3, <1>9 DEF CandidatesInOrder, TrustInOrder
<1>12. PicturesAreLive'
  BY <1>1, <1>3, <1>6 DEF PicturesAreLive, Exchange!KeptUrlsAreLive
<1> QED BY <1>1, <1>3, <1>7, <1>10, <1>11, <1>12, FormKept DEF ExchangeInv

\* An operation ends, or goes on, without the page.
LEMMA QuietJobs ==
  ASSUME NoneIsNoNumber, ExchangeInv, Exchange!Fails \/ Exchange!EvidenceRead \/ Exchange!CandidateRead
  PROVE  ExchangeInv'
<1>1. /\ ExchangeTypeOK /\ JobsInOrder /\ CandidatesInOrder /\ PicturesAreLive /\ TrustInOrder
      /\ Exchange!FormFollowsPage
  BY DEF ExchangeInv
<1>2. UNCHANGED <<props, digest, handled, desk, epoch, alive, started>>
  BY DEF Exchange!Fails, Exchange!EvidenceRead, Exchange!CandidateRead
<1>3. epoch \in Nat /\ epoch <= epoch /\ jobs \in SUBSET JobState
  BY <1>1 DEF ExchangeTypeOK
<1>4. PICK job \in jobs, k \in JobState :
        /\ k.op = job.op /\ k.identity = job.identity /\ k.project = job.project
        /\ k.epoch = epoch /\ k.stage # "made"
        /\ jobs' \in {jobs \ {job}, (jobs \ {job}) \cup {k}}
  <2>1. CASE Exchange!Fails
    <3>1. PICK job \in jobs : jobs' = jobs \ {job}
      BY <2>1 DEF Exchange!Fails, Exchange!Close
    <3> DEFINE k == [job EXCEPT !.stage = "asked", !.epoch = epoch]
    <3>2. /\ k \in JobState /\ k.op = job.op /\ k.identity = job.identity
          /\ k.project = job.project /\ k.epoch = epoch /\ k.stage # "made"
      BY <1>3 DEF JobState
    <3> HIDE DEF k
    <3> QED BY <3>1, <3>2
  <2>2. CASE Exchange!EvidenceRead
    <3>1. PICK job \in jobs :
            jobs' = (jobs \ {job}) \cup {[job EXCEPT !.stage = "digest", !.epoch = epoch]}
      BY <2>2 DEF Exchange!EvidenceRead, Exchange!Advance
    <3> DEFINE k == [job EXCEPT !.stage = "digest", !.epoch = epoch]
    <3>2. /\ k \in JobState /\ k.op = job.op /\ k.identity = job.identity
          /\ k.project = job.project /\ k.epoch = epoch /\ k.stage # "made"
      BY <1>3 DEF JobState
    <3>3. jobs' = (jobs \ {job}) \cup {k}
      BY <3>1
    <3> HIDE DEF k
    <3> QED BY <3>2, <3>3
  <2>3. CASE Exchange!CandidateRead
    <3>1. PICK job \in jobs, packet \in Packets :
            jobs' = (jobs \ {job}) \cup {[job EXCEPT !.stage = "drawing", !.candidate = packet,
                                                     !.epoch = epoch]}
      BY <2>3 DEF Exchange!CandidateRead
    <3> DEFINE k == [job EXCEPT !.stage = "drawing", !.candidate = packet, !.epoch = epoch]
    <3>2. /\ k \in JobState /\ k.op = job.op /\ k.identity = job.identity
          /\ k.project = job.project /\ k.epoch = epoch /\ k.stage # "made"
      BY <1>3 DEF JobState, Brought
    <3>3. jobs' = (jobs \ {job}) \cup {k}
      BY <3>1
    <3> HIDE DEF k
    <3> QED BY <3>2, <3>3
  <2> QED BY <2>1, <2>2, <2>3
<1>5. /\ jobs' \in SUBSET JobState /\ JobsInOrder'
      /\ \A j \in jobs' : \E i \in jobs : i.op = j.op
  BY <1>1, <1>2, <1>3, <1>4, JobGoesOn
<1>6. ExchangeTypeOK'
  BY <1>1, <1>2, <1>5 DEF ExchangeTypeOK
<1>7. CandidatesInOrder' /\ TrustInOrder'
  BY <1>1, <1>2, <1>5, DeskKept
<1>8. PicturesAreLive'
  BY <1>1, <1>2, <1>4 DEF PicturesAreLive, Exchange!KeptUrlsAreLive
<1> QED BY <1>1, <1>2, <1>5, <1>6, <1>7, <1>8, FormKept DEF ExchangeInv

\* A brief clears the page and ends the epoch.
LEMMA BriefsKeep ==
  ASSUME NoneIsNoNumber, ExchangeInv, Exchange!BriefCreated \/ Exchange!BriefImported
  PROVE  ExchangeInv'
<1>1. /\ ExchangeTypeOK /\ JobsInOrder /\ CandidatesInOrder /\ PicturesAreLive /\ TrustInOrder
      /\ Exchange!FormFollowsPage
  BY DEF ExchangeInv
<1>2. UNCHANGED <<digest, handled, started>>
  BY DEF Exchange!BriefCreated, Exchange!BriefImported
<1>3. epoch \in Nat /\ epoch <= epoch /\ epoch + 1 \in Nat /\ jobs \in SUBSET JobState
  BY <1>1 DEF ExchangeTypeOK
<1>4. PICK job \in jobs, k \in JobState, b \in Projects, t \in Trusts \cup {"current"} :
        /\ k.op = job.op /\ k.identity = job.identity /\ k.project = job.project
        /\ k.epoch = epoch
        /\ jobs' \in {jobs \ {job}, (jobs \ {job}) \cup {k}}
        /\ Exchange!ShowBrief(b, t)
  <2>1. CASE Exchange!BriefCreated
    <3>1. PICK job \in jobs :
            /\ Exchange!ShowBrief(job.project, "current")
            /\ jobs' = (jobs \ {job}) \cup {[job EXCEPT !.stage = "saving", !.epoch = epoch]}
      BY <2>1 DEF Exchange!BriefCreated, Exchange!Advance
    <3> DEFINE k == [job EXCEPT !.stage = "saving", !.epoch = epoch]
    <3>2. /\ k \in JobState /\ k.op = job.op /\ k.identity = job.identity
          /\ k.project = job.project /\ k.epoch = epoch
      BY <1>3 DEF JobState
    <3>3. jobs' = (jobs \ {job}) \cup {k}
      BY <3>1
    <3>4. job.project \in Projects
      BY <1>3 DEF JobState
    <3> HIDE DEF k
    <3> QED BY <3>1, <3>2, <3>3, <3>4
  <2>2. CASE Exchange!BriefImported
    <3>1. PICK job \in jobs, brief \in 1..MaxSwitches :
            /\ Exchange!ShowBrief(brief, Exchange!TrustFor(brief, job))
            /\ jobs' = jobs \ {job}
      BY <2>2 DEF Exchange!BriefImported, Exchange!Close
    <3> DEFINE k == [job EXCEPT !.epoch = epoch]
    <3>2. /\ k \in JobState /\ k.op = job.op /\ k.identity = job.identity
          /\ k.project = job.project /\ k.epoch = epoch
      BY <1>3 DEF JobState
    <3>3. brief \in Projects /\ Exchange!TrustFor(brief, job) \in Trusts
      BY DEF Projects, Exchange!TrustFor, Trusts
    <3> HIDE DEF k
    <3> QED BY <3>1, <3>2, <3>3
  <2> QED BY <2>1, <2>2
<1>5. /\ epoch' = epoch + 1 /\ alive' = {} /\ props' = [props EXCEPT !.form = None]
      /\ desk' = [brief |-> b, trust |-> t, candidates |-> {}, review |-> None, draft |-> None]
  BY <1>4 DEF Exchange!ShowBrief, Exchange!Empty
<1>6. /\ props' \in [identity : Nat, project : Projects, form : Brought]
      /\ props'.identity = props.identity /\ props'.project = props.project
  BY <1>1, <1>5 DEF ExchangeTypeOK, Brought
<1>7. desk' \in DeskState /\ desk'.candidates = {} /\ desk'.draft = None
  <2>1. {} \in SUBSET CandidateState /\ None \in Brought
    BY DEF Brought
  <2> QED BY <1>5, <2>1 DEF DeskState
<1>8. jobs' \in SUBSET JobState /\ JobsInOrder'
  BY <1>1, <1>2, <1>3, <1>4, <1>5, <1>6, JobGoesOn
<1>9. ExchangeTypeOK'
  BY <1>1, <1>2, <1>3, <1>5, <1>6, <1>7, <1>8 DEF ExchangeTypeOK
<1>10. CandidatesInOrder' /\ TrustInOrder'
  BY <1>7 DEF CandidatesInOrder, TrustInOrder
<1>11. PicturesAreLive'
  <2>1. \A j \in jobs' : j.epoch \in Nat /\ j.epoch <= epoch
    BY <1>1, <1>3, <1>4, <1>8 DEF JobsInOrder, JobState
  <2>2. \A j \in jobs' : j.epoch # epoch'
    BY <1>3, <1>5, <2>1
  <2> QED BY <1>7, <2>2 DEF PicturesAreLive, Exchange!KeptUrlsAreLive
<1>12. Exchange!FormFollowsPage'
  BY <1>7 DEF Exchange!FormFollowsPage
<1> QED BY <1>8, <1>9, <1>10, <1>11, <1>12 DEF ExchangeInv

LEMMA PictureMadeKeeps ==
  ASSUME NoneIsNoNumber, ExchangeInv, Exchange!PictureMade
  PROVE  ExchangeInv'
<1>1. /\ ExchangeTypeOK /\ JobsInOrder /\ CandidatesInOrder /\ PicturesAreLive /\ TrustInOrder
      /\ Exchange!FormFollowsPage
  BY DEF ExchangeInv
<1>2. UNCHANGED <<props, digest, handled, desk, epoch, started>>
  BY DEF Exchange!PictureMade
<1>3. epoch \in Nat /\ epoch <= epoch /\ jobs \in SUBSET JobState
  BY <1>1 DEF ExchangeTypeOK
<1>4. PICK job \in jobs :
        \/ /\ jobs' = (jobs \ {job}) \cup {[job EXCEPT !.stage = "made", !.epoch = epoch]}
           /\ alive' = alive \cup {job.op}
        \/ jobs' = jobs \ {job} /\ alive' = alive
  BY DEF Exchange!PictureMade, Exchange!Advance, Exchange!Close
<1> DEFINE k == [job EXCEPT !.stage = "made", !.epoch = epoch]
<1>5. /\ k \in JobState /\ k.op = job.op /\ k.identity = job.identity
      /\ k.project = job.project /\ k.epoch = epoch
  BY <1>3 DEF JobState
<1>6. \/ jobs' = (jobs \ {job}) \cup {k} /\ alive' = alive \cup {job.op}
      \/ jobs' = jobs \ {job} /\ alive' = alive
  BY <1>4
<1> HIDE DEF k
<1>7. /\ jobs' \in SUBSET JobState /\ JobsInOrder'
      /\ \A j \in jobs' : \E i \in jobs : i.op = j.op
  BY <1>1, <1>2, <1>3, <1>5, <1>6, JobGoesOn
<1>8. ExchangeTypeOK'
  BY <1>1, <1>2, <1>7 DEF ExchangeTypeOK
<1>9. CandidatesInOrder' /\ TrustInOrder'
  BY <1>1, <1>2, <1>7, DeskKept
<1>10. PicturesAreLive'
  BY <1>1, <1>2, <1>5, <1>6 DEF PicturesAreLive, Exchange!KeptUrlsAreLive
<1> QED BY <1>1, <1>2, <1>7, <1>8, <1>9, <1>10, FormKept DEF ExchangeInv

\* A candidate comes to the page with its picture, or its picture is revoked.
LEMMA CandidateImportedKeeps ==
  ASSUME NoneIsNoNumber, ExchangeInv, Exchange!CandidateImported
  PROVE  ExchangeInv'
<1>1. /\ ExchangeTypeOK /\ JobsInOrder /\ CandidatesInOrder /\ PicturesAreLive /\ TrustInOrder
      /\ Exchange!FormFollowsPage
  BY DEF ExchangeInv
<1>2. UNCHANGED <<props, digest, handled, epoch, started>>
  BY DEF Exchange!CandidateImported
<1>3. epoch \in Nat /\ epoch <= epoch /\ jobs \in SUBSET JobState /\ desk \in DeskState
  BY <1>1 DEF ExchangeTypeOK
<1>4. PICK job \in jobs :
        /\ job.stage = "made" /\ jobs' = jobs \ {job}
        /\ \/ job.epoch # epoch /\ alive' = alive \ {job.op} /\ UNCHANGED desk
           \/ job.epoch = epoch /\ UNCHANGED <<alive, desk>>
           \/ /\ job.epoch = epoch /\ UNCHANGED alive
              /\ desk' = [desk EXCEPT !.candidates = @ \cup {Exchange!Candidate(job)},
                                      !.review = None]
  BY DEF Exchange!CandidateImported, Exchange!Close
<1>5. job \in JobState /\ job.epoch <= epoch /\ job.op \in Nat
  BY <1>1, <1>3 DEF JobsInOrder, JobState
<1>6. /\ jobs' \in SUBSET JobState /\ JobsInOrder'
      /\ \A j \in jobs' : \E i \in jobs : i.op = j.op
  BY <1>1, <1>2, <1>3, <1>4, <1>5, JobGoesOn
<1>7. \A j \in jobs' : j.op # job.op
  BY <1>1, <1>4 DEF JobsInOrder
<1>8. \A c \in desk.candidates : c.url # job.op
  <2>1. \A c \in desk.candidates : c.op # job.op
    BY <1>1 DEF CandidatesInOrder
  <2>2. None # job.op
    BY <1>5 DEF NoneIsNoNumber
  <2> QED BY <1>1, <2>1, <2>2 DEF CandidatesInOrder
<1>9. CASE UNCHANGED desk /\ alive' \in {alive, alive \ {job.op}}
  <2>1. CandidatesInOrder' /\ TrustInOrder'
    BY <1>1, <1>2, <1>6, <1>9, DeskKept
  <2>2. PicturesAreLive'
    BY <1>1, <1>2, <1>4, <1>7, <1>8, <1>9 DEF PicturesAreLive, Exchange!KeptUrlsAreLive
  <2>3. ExchangeTypeOK'
    BY <1>1, <1>2, <1>6, <1>9 DEF ExchangeTypeOK
  <2> QED BY <1>1, <1>2, <1>6, <1>9, <2>1, <2>2, <2>3, FormKept DEF ExchangeInv
<1>10. CASE /\ job.epoch = epoch /\ UNCHANGED alive
            /\ desk' = [desk EXCEPT !.candidates = @ \cup {Exchange!Candidate(job)},
                                    !.review = None]
  <2> DEFINE c == Exchange!Candidate(job)
  <2>1. /\ c \in CandidateState /\ c.op = job.op /\ c.url = job.op /\ c.brief = job.brief
        /\ c.trust = Exchange!TrustFor(job.brief, job)
        /\ c.since = job.identity /\ c.landed = props.identity
    <3>1. Exchange!TrustFor(job.brief, job) \in Trusts
      BY DEF Exchange!TrustFor, Trusts
    <3>2. props.identity \in Nat
      BY <1>1 DEF ExchangeTypeOK
    <3> QED BY <1>5, <3>1, <3>2 DEF Exchange!Candidate, CandidateState, JobState, Projects
  <2>2. c.trust = "matched" => job.brief = job.project
    BY <2>1 DEF Exchange!TrustFor
  <2>3. desk' = [desk EXCEPT !.candidates = desk.candidates \cup {c}, !.review = None]
    BY <1>10
  <2> HIDE DEF c
  <2>4. /\ desk' \in DeskState /\ desk'.candidates = desk.candidates \cup {c}
        /\ desk'.draft = desk.draft
    BY <1>3, <2>1, <2>3 DEF DeskState
  <2>5. /\ job.op <= started /\ job.identity <= props.identity
        /\ job.identity = props.identity => job.project = props.project
    BY <1>1 DEF JobsInOrder
  <2>6. CandidatesInOrder'
    BY <1>1, <1>2, <1>4, <1>7, <2>1, <2>4, <2>5 DEF CandidatesInOrder
  <2>7. TrustInOrder'
    BY <1>1, <1>2, <2>1, <2>2, <2>4, <2>5 DEF TrustInOrder
  <2>8. PicturesAreLive'
    BY <1>1, <1>2, <1>4, <1>10, <2>1, <2>4 DEF PicturesAreLive, Exchange!KeptUrlsAreLive
  <2>9. ExchangeTypeOK'
    BY <1>1, <1>2, <1>6, <2>4 DEF ExchangeTypeOK
  <2> QED BY <1>1, <1>2, <1>6, <2>4, <2>6, <2>7, <2>8, <2>9, FormKept DEF ExchangeInv
<1> QED BY <1>4, <1>9, <1>10

\* A review is shown, or a proposal loaded.
LEMMA ShownKeeps ==
  ASSUME NoneIsNoNumber, ExchangeInv, Exchange!ReviewShown \/ Exchange!ProposalLoaded
  PROVE  ExchangeInv'
<1>1. /\ ExchangeTypeOK /\ JobsInOrder /\ CandidatesInOrder /\ PicturesAreLive /\ TrustInOrder
      /\ Exchange!FormFollowsPage
  BY DEF ExchangeInv
<1>2. UNCHANGED <<digest, handled, epoch, alive, started>>
  BY DEF Exchange!ReviewShown, Exchange!ProposalLoaded
<1>3. /\ epoch \in Nat /\ epoch <= epoch /\ jobs \in SUBSET JobState /\ desk \in DeskState
      /\ props \in [identity : Nat, project : Projects, form : Brought]
  BY <1>1 DEF ExchangeTypeOK
<1>4. PICK job \in jobs :
        /\ jobs' = jobs \ {job}
        /\ \/ /\ UNCHANGED props
              /\ desk' = [desk EXCEPT !.review = {c.op : c \in job.candidates}]
           \/ /\ desk' = [desk EXCEPT !.draft = job.candidate]
              /\ props' = [props EXCEPT !.form = job.candidate]
  BY DEF Exchange!ReviewShown, Exchange!ProposalLoaded, Exchange!Close
<1>5. /\ job \in JobState /\ job.epoch <= epoch /\ job.candidate \in Brought
      /\ {c.op : c \in job.candidates} \in SUBSET Nat
  BY <1>1, <1>3 DEF JobsInOrder, JobState, CandidateState
<1>6. /\ desk' \in DeskState /\ desk'.candidates = desk.candidates
      /\ props' \in [identity : Nat, project : Projects, form : Brought]
      /\ props'.identity = props.identity /\ props'.project = props.project
      /\ \/ props' = props /\ desk'.draft = desk.draft
         \/ props'.form = desk'.draft
  <2> DEFINE r == {c.op : c \in job.candidates}
  <2>1. \/ UNCHANGED props /\ desk' = [desk EXCEPT !.review = r]
        \/ /\ desk' = [desk EXCEPT !.draft = job.candidate]
           /\ props' = [props EXCEPT !.form = job.candidate]
    BY <1>4
  <2>2. r \in (SUBSET Nat) \cup {None}
    BY <1>5
  <2> HIDE DEF r
  <2> QED BY <1>3, <1>5, <2>1, <2>2 DEF DeskState
<1>7. /\ jobs' \in SUBSET JobState /\ JobsInOrder'
      /\ \A j \in jobs' : \E i \in jobs : i.op = j.op
  BY <1>1, <1>2, <1>3, <1>4, <1>5, <1>6, JobGoesOn
<1>8. CandidatesInOrder' /\ TrustInOrder'
  BY <1>1, <1>2, <1>6, <1>7, DeskKept
<1>9. PicturesAreLive'
  BY <1>1, <1>2, <1>4, <1>6 DEF PicturesAreLive, Exchange!KeptUrlsAreLive
<1>10. Exchange!FormFollowsPage'
  BY <1>1, <1>2, <1>6 DEF Exchange!FormFollowsPage, Exchange!Due
<1>11. ExchangeTypeOK'
  BY <1>1, <1>2, <1>6, <1>7 DEF ExchangeTypeOK
<1> QED BY <1>7, <1>8, <1>9, <1>10, <1>11 DEF ExchangeInv

LEMMA ExchangeInvNext ==
  ASSUME NoneIsNoNumber, ExchangeInv, Exchange!Next
  PROVE  ExchangeInv'
<1>1. CASE Exchange!User
  BY <1>1, StartKeepsExchange, DeskSteps DEF Exchange!User
<1>2. CASE Exchange!Continue
  BY <1>2, EffectsKeep, QuietJobs, BriefsKeep, PictureMadeKeeps, CandidateImportedKeeps, ShownKeeps
  DEF Exchange!Continue
<1>3. CASE Exchange!Switch \/ Exchange!ContextRead
  BY <1>3, SwitchKeeps, DeskSteps
<1> QED BY <1>1, <1>2, <1>3 DEF Exchange!Next

LEMMA ExchangeInvStep ==
  ASSUME NoneIsNoNumber, ExchangeInv, [Next]_vars
  PROVE  ExchangeInv'
<1>1. CASE InExchange(Exchange!Next)
  BY <1>1, ExchangeInvNext DEF InExchange
<1>2. CASE ~InExchange(Exchange!Next)
  <2>1. UNCHANGED <<props, digest, handled, desk, epoch, alive, jobs, busy, started>>
    BY <1>2 DEF Next, InVector, InTheme, InBrand, vars, exchangeVars
  <2> QED
    BY <2>1
    DEF ExchangeInv, ExchangeTypeOK, JobsInOrder, CandidatesInOrder, PicturesAreLive,
        TrustInOrder, Exchange!KeptUrlsAreLive, Exchange!FormFollowsPage, Exchange!Due
<1> QED BY <1>1, <1>2

LEMMA ExchangeInvHolds ==
  ASSUME NoneIsNoNumber
  PROVE  Spec => []ExchangeInv
<1>1. Init => ExchangeInv
  BY ExchangeInvInit DEF Init
<1> QED BY <1>1, ExchangeInvStep, PTL DEF Spec

\* The picture of every candidate on the page of the exchange is alive, what is called matched
\* was swept when the identity changed, and the plan form has the proposal the exchange says
\* it has (DesignExchange.tsx, design-session-state.ts).
THEOREM ExchangeIsShownTrue ==
  ASSUME NoneIsNoNumber
  PROVE  Spec => [](Exchange!KeptUrlsAreLive /\ Exchange!TrustIsSwept /\ Exchange!FormFollowsPage)
<1>1. ExchangeInv =>
        Exchange!KeptUrlsAreLive /\ Exchange!TrustIsSwept /\ Exchange!FormFollowsPage
  BY DEF ExchangeInv, PicturesAreLive, TrustInOrder, Exchange!TrustIsSwept, Exchange!Due
<1> QED BY <1>1, ExchangeInvHolds, PTL

-----------------------------------------------------------------------------
(***************************************************************************)
(* The brand workbench.                                                    *)
(*                                                                         *)
(* Whatever was read was asked for while the host was ready, by a project  *)
(* and with a source numbered before.  As long as the effects have not run *)
(* for a project or a source that is new, no read and no plan is of it, so *)
(* all the data is of the identity the effects last ran for; they put it   *)
(* away if that is gone.  A visual is of the identity the effects last ran *)
(* for too, and while it is being made no URL is alive but those made for  *)
(* a visual.                                                               *)
(***************************************************************************)

LoadIdentities ==
  [ready : BOOLEAN, project : Projects, source : Projects, picked : Nat, view : Brand!Views]
DataState == [of : LoadIdentities, profile : {None} \cup LoadIdentities]
ViewState == [loading : BOOLEAN, data : {None} \cup DataState, page : Nat]
WorkState ==
  [active : Brand!Views, views : [Brand!Views -> ViewState], selection : {None, "evidence"},
   picked : Nat]
ReadState ==
  [seq : Nat, kind : {"view", "profile"}, identity : LoadIdentities, page : Nat,
   base : {None} \cup DataState]
PlanState ==
  [identity : LoadIdentities, page : Nat, stage : {"applying", "checking"}, mounted : BOOLEAN]

BrandTypeOK ==
  /\ app \in [ready : BOOLEAN, project : Projects, source : Projects]
  /\ work \in WorkState /\ seen.load \in LoadIdentities
  /\ reads \in SUBSET ReadState /\ applies \in SUBSET PlanState
  /\ count \in [load : Nat, visual : Nat, changes : Nat, visits : Nat, given : BOOLEAN]

\* Asked for while the host was ready, before the next change of the props.
Asked(i) ==
  /\ i.ready /\ i.project # None /\ i.project <= count.changes
  /\ i.source # None => i.source <= count.changes

SameSources(i, j) == i.project = j.project /\ i.source = j.source

\* Data of view v that was read for the sources of an identity.
ReadFor(data, v, i) ==
  /\ data.of.view = v /\ data.of.ready /\ data.of.project # None /\ SameSources(data.of, i)
  /\ data.profile # None =>
       /\ v = "qa" /\ data.profile.view = v /\ data.profile.ready
       /\ SameSources(data.profile, i)

NumbersInOrder ==
  /\ app.project # None => app.project <= count.changes
  /\ app.source # None => app.source <= count.changes
  /\ work.picked <= count.visits

ReadsInOrder ==
  \A r \in reads :
    /\ Asked(r.identity)
    /\ r.kind = "profile" =>
         r.identity.view = "qa" /\ r.base # None /\ ReadFor(r.base, "qa", r.identity)

PlansInOrder == \A plan \in applies : Asked(plan.identity)

NothingOfTheNext ==
  ~SameSources(seen.load, app) =>
    /\ \A r \in reads : ~SameSources(r.identity, app)
    /\ \A plan \in applies : ~SameSources(plan.identity, app)

DataInOrder ==
  \A v \in Brand!Views :
    LET data == work.views[v].data
    IN data # None => (seen.load.ready \/ app.ready) /\ ReadFor(data, v, seen.load)

PicksInOrder ==
  LET shown == work.views["consumer"]
  IN seen.load = Brand!LoadIdentity /\ work.active = "consumer"
     /\ ~shown.loading /\ shown.data # None
       => shown.data.of.picked = work.picked

BrandInv ==
  /\ BrandTypeOK /\ NumbersInOrder /\ ReadsInOrder /\ PlansInOrder /\ NothingOfTheNext
  /\ DataInOrder /\ PicksInOrder

-----------------------------------------------------------------------------

LEMMA BrandInvInit ==
  ASSUME Brand!Init
  PROVE  BrandInv
<1>1. /\ app = [ready |-> FALSE, project |-> None, source |-> None]
      /\ work = [active |-> "qa", views |-> [v \in Brand!Views |-> Brand!Absent],
                 selection |-> None, picked |-> 0]
      /\ seen = [load |-> Brand!LoadIdentity, visual |-> Brand!VisualIdentity]
      /\ reads = {} /\ applies = {}
      /\ count = [load |-> 0, visual |-> 0, changes |-> 0, visits |-> 0, given |-> FALSE]
  BY DEF Brand!Init
<1>2. "qa" \in Brand!Views
  BY DEF Brand!Views
<1>3. Brand!Absent \in ViewState /\ Brand!Absent.data = None
  BY DEF Brand!Absent, ViewState
<1>4. work \in WorkState /\ \A v \in Brand!Views : work.views[v].data = None
  BY <1>1, <1>2, <1>3 DEF WorkState
<1>5. seen.load \in LoadIdentities
  BY <1>1, <1>2 DEF LoadIdentities, Projects, Brand!LoadIdentity
<1>6. BrandTypeOK
  BY <1>1, <1>4, <1>5 DEF BrandTypeOK, Projects
<1>7. seen.load.project = None /\ seen.load.source = None
  BY <1>1 DEF Brand!LoadIdentity
<1>8. "consumer" \in Brand!Views
  BY DEF Brand!Views
<1> QED
  BY <1>1, <1>4, <1>6, <1>7, <1>8
  DEF BrandInv, NumbersInOrder, ReadsInOrder, PlansInOrder, NothingOfTheNext, DataInOrder,
      PicksInOrder

LEMMA IdentityOfNow ==
  ASSUME BrandTypeOK
  PROVE  /\ Brand!LoadIdentity \in LoadIdentities
         /\ Brand!LoadIdentity.ready = app.ready /\ Brand!LoadIdentity.project = app.project
         /\ Brand!LoadIdentity.source = app.source /\ Brand!LoadIdentity.picked = work.picked
         /\ Brand!LoadIdentity.view = work.active
BY DEF BrandTypeOK, Brand!LoadIdentity, LoadIdentities, WorkState

LEMMA NotDue ==
  ASSUME ~Brand!Due
  PROVE  seen.load = Brand!LoadIdentity /\ seen.visual = Brand!VisualIdentity
BY DEF Brand!Due

\* A view begins to load: its data stays.
LEMMA LoadingKeeps ==
  ASSUME NEW w \in WorkState, NEW v \in Brand!Views
  PROVE  /\ Brand!Loading(w, v) \in WorkState
         /\ Brand!Loading(w, v).active = w.active /\ Brand!Loading(w, v).picked = w.picked
         /\ Brand!Loading(w, v).selection = w.selection
         /\ \A u \in Brand!Views : Brand!Loading(w, v).views[u].data = w.views[u].data
         /\ \A u \in Brand!Views :
              u = v \/ w.views[u].loading => Brand!Loading(w, v).views[u].loading
<1> DEFINE s == w.views[v]
           n == IF s.page = 0 THEN 1 ELSE s.page
           t == [s EXCEPT !.loading = TRUE, !.page = n]
           x == Brand!Loading(w, v)
<1>1. w.views \in [Brand!Views -> ViewState] /\ s \in ViewState
  BY DEF WorkState
<1>2. t \in ViewState
  <2>1. n \in Nat
    BY <1>1 DEF ViewState
  <2> HIDE DEF n
  <2> QED BY <1>1, <2>1 DEF ViewState
<1>3. x = [w EXCEPT !.views = [w.views EXCEPT ![v] = t]]
  BY <1>1 DEF Brand!Loading, WorkState, ViewState
<1>4. /\ t.data = s.data /\ t.loading = TRUE
      /\ w.views \in [Brand!Views -> ViewState]
      /\ \A u \in Brand!Views : w.views[u].loading \in BOOLEAN
  <2>1. \A u \in Brand!Views : w.views[u] \in ViewState
    BY <1>1
  <2>2. \A z \in ViewState : z.loading \in BOOLEAN
    BY DEF ViewState
  <2>3. t.data = s.data /\ t.loading = TRUE
    <3> HIDE DEF n
    <3> QED BY <1>1 DEF ViewState
  <2> HIDE DEF t
  <2> QED BY <1>1, <2>1, <2>2, <2>3
<1> HIDE DEF t, x
<1>5. x \in WorkState /\ x.active = w.active /\ x.picked = w.picked /\ x.selection = w.selection
      /\ x.views = [w.views EXCEPT ![v] = t]
  BY <1>1, <1>2, <1>3 DEF WorkState
<1>6. \A u \in Brand!Views : x.views[u] = IF u = v THEN t ELSE w.views[u]
  BY <1>4, <1>5
<1> QED BY <1>4, <1>5, <1>6 DEF x

\* A view is shown, or put away.
LEMMA LoadedKeeps ==
  ASSUME NEW w \in WorkState, NEW v \in Brand!Views, NEW data \in {None} \cup DataState,
         NEW p \in Nat
  PROVE  /\ Brand!Loaded(w, v, data, p) \in WorkState
         /\ Brand!Loaded(w, v, data, p).active = w.active
         /\ Brand!Loaded(w, v, data, p).picked = w.picked
         /\ \A u \in Brand!Views :
              Brand!Loaded(w, v, data, p).views[u] =
                IF u = v THEN [loading |-> FALSE, data |-> data, page |-> p] ELSE w.views[u]
<1> DEFINE t == [loading |-> FALSE, data |-> data, page |-> p]
           x == Brand!Loaded(w, v, data, p)
<1>1. t \in ViewState
  BY DEF ViewState
<1>2. x = [w EXCEPT !.views = [w.views EXCEPT ![v] = t], !.selection = None]
  BY DEF Brand!Loaded, WorkState
<1>3. w.views \in [Brand!Views -> ViewState]
  BY DEF WorkState
<1> HIDE DEF t
<1>4. x \in WorkState /\ x.active = w.active /\ x.picked = w.picked
      /\ x.views = [w.views EXCEPT ![v] = t]
  BY <1>1, <1>2, <1>3 DEF WorkState
<1>5. \A u \in Brand!Views : x.views[u] = IF u = v THEN t ELSE w.views[u]
  BY <1>3, <1>4
<1> QED BY <1>4, <1>5 DEF t

LEMMA UnmountKeeps ==
  ASSUME BrandTypeOK, NEW w
  PROVE  /\ Brand!Unmount(w) \in SUBSET PlanState
         /\ \A p \in Brand!Unmount(w) : \E q \in applies : q.identity = p.identity
<1> DEFINE off(plan) == [plan EXCEPT !.mounted = FALSE]
<1>1. applies \in SUBSET PlanState
  BY DEF BrandTypeOK
<1>2. \A plan \in applies : off(plan) \in PlanState /\ off(plan).identity = plan.identity
  BY <1>1 DEF PlanState
<1>3. Brand!Unmount(w) \in {applies, {off(plan) : plan \in applies}}
  BY DEF Brand!Unmount
<1> HIDE DEF off
<1> QED BY <1>1, <1>2, <1>3

\* runLoad adds a read for an identity that was ready, and leaves the data there is.
LEMMA RunLoadMoves ==
  ASSUME BrandTypeOK, NEW i \in LoadIdentities, NEW p \in Nat, NEW w \in WorkState,
         NEW pending \in SUBSET ReadState, Brand!RunLoad(i, p, w, pending)
  PROVE  /\ work' \in WorkState /\ work'.active = w.active /\ work'.picked = w.picked
         /\ \A v \in Brand!Views :
              /\ work'.views[v].data = w.views[v].data
              /\ w.views[v].loading => work'.views[v].loading
         /\ reads' \in SUBSET ReadState
         /\ \A r \in reads' : r \in pending \/ (r.identity = i /\ r.kind = "view")
         /\ count' \in [load : Nat, visual : Nat, changes : Nat, visits : Nat, given : BOOLEAN]
         /\ count'.changes = count.changes /\ count'.visits = count.visits
         /\ count'.visual = count.visual
<1> DEFINE r == Brand!Read(count.load + 1, "view", i, p, None)
           g == count.given \/ i # Brand!LoadIdentity
           c == [count EXCEPT !.load = count.load + 1, !.given = g]
<1>1. count \in [load : Nat, visual : Nat, changes : Nat, visits : Nat, given : BOOLEAN]
  BY DEF BrandTypeOK
<1>2. r \in ReadState /\ r.identity = i /\ r.kind = "view"
  <2>1. count.load + 1 \in Nat
    BY <1>1
  <2> QED BY <2>1 DEF Brand!Read, ReadState
<1>3. /\ c \in [load : Nat, visual : Nat, changes : Nat, visits : Nat, given : BOOLEAN]
      /\ c.changes = count.changes /\ c.visits = count.visits /\ c.visual = count.visual
  <2>1. count.load + 1 \in Nat /\ g \in BOOLEAN
    BY <1>1
  <2> HIDE DEF g
  <2> QED BY <1>1, <2>1
<1>4. i.view \in Brand!Views
  BY DEF LoadIdentities
<1>5. \/ work' = w /\ reads' = pending /\ count' = count
      \/ /\ work' = Brand!Loading(w, i.view) /\ reads' = pending \cup {r}
         /\ count' = c
  BY DEF Brand!RunLoad
<1> HIDE DEF r, c, g
<1>6. CASE work' = w /\ reads' = pending /\ count' = count
  BY <1>1, <1>6
<1>7. CASE /\ work' = Brand!Loading(w, i.view) /\ reads' = pending \cup {r}
           /\ count' = c
  <2>1. /\ work' \in WorkState /\ work'.active = w.active /\ work'.picked = w.picked
        /\ \A v \in Brand!Views :
             /\ work'.views[v].data = w.views[v].data
             /\ w.views[v].loading => work'.views[v].loading
    BY <1>4, <1>7, LoadingKeeps
  <2> QED BY <1>2, <1>3, <1>7, <2>1
<1> QED BY <1>5, <1>6, <1>7

LEMMA ViewsStay ==
  ASSUME BrandTypeOK, BrandTypeOK', DataInOrder, PicksInOrder, app' = app,
         seen'.load = seen.load, work'.active = work.active, work'.picked = work.picked,
         \A v \in Brand!Views :
           /\ work'.views[v].data = work.views[v].data
           /\ work.views[v].loading => work'.views[v].loading
  PROVE  DataInOrder' /\ PicksInOrder'
<1>1. DataInOrder'
  BY DEF DataInOrder, ReadFor, SameSources
<1>2. Brand!LoadIdentity' = Brand!LoadIdentity
  BY DEF Brand!LoadIdentity
<1>3. "consumer" \in Brand!Views
  BY DEF Brand!Views
<1>4. PicksInOrder'
  BY <1>2, <1>3 DEF PicksInOrder
<1> QED BY <1>1, <1>4

LEMMA NumbersStay ==
  ASSUME BrandTypeOK, BrandTypeOK', NumbersInOrder, app' = app, work'.picked = work.picked,
         count'.changes = count.changes, count'.visits >= count.visits
  PROVE  NumbersInOrder'
BY DEF BrandTypeOK, NumbersInOrder, WorkState

LEMMA ReadsStay ==
  ASSUME ReadsInOrder, PlansInOrder, NothingOfTheNext, app' = app, seen'.load = seen.load,
         count'.changes = count.changes,
         \A r \in reads' :
           \/ r \in reads
           \/ /\ Asked(r.identity)
              /\ r.kind = "profile" =>
                   r.identity.view = "qa" /\ r.base # None /\ ReadFor(r.base, "qa", r.identity)
              /\ SameSources(r.identity, app) => SameSources(seen.load, app),
         \A p \in applies' :
           \/ \E q \in applies : q.identity = p.identity
           \/ Asked(p.identity) /\ SameSources(seen.load, app)
  PROVE  ReadsInOrder' /\ PlansInOrder' /\ NothingOfTheNext'
<1>1. \A i : Asked(i) => Asked(i)'
  BY DEF Asked
<1>2. ReadsInOrder'
  <2> SUFFICES ASSUME NEW r \in reads'
               PROVE  /\ Asked(r.identity)'
                      /\ r.kind = "profile" =>
                           /\ r.identity.view = "qa" /\ r.base # None
                           /\ ReadFor(r.base, "qa", r.identity)
    BY DEF ReadsInOrder
  <2>1. Asked(r.identity)
    BY DEF ReadsInOrder
  <2> QED BY <1>1, <2>1 DEF ReadsInOrder
<1>3. PlansInOrder'
  <2> SUFFICES ASSUME NEW p \in applies'
               PROVE  Asked(p.identity)'
    BY DEF PlansInOrder
  <2>1. Asked(p.identity)
    BY DEF PlansInOrder
  <2> QED BY <1>1, <2>1
<1>4. NothingOfTheNext'
  BY DEF NothingOfTheNext, SameSources
<1> QED BY <1>2, <1>3, <1>4

\* The identity of the data on the page is one that was asked for.
LEMMA DataIsAsked ==
  ASSUME BrandInv, ~Brand!Due, Brand!Current.data # None
  PROVE  /\ Asked(Brand!LoadIdentity) /\ app.ready /\ app.project # None
         /\ ReadFor(Brand!Current.data, work.active, Brand!LoadIdentity)
<1>1. /\ BrandTypeOK /\ DataInOrder /\ NumbersInOrder
      /\ seen.load = Brand!LoadIdentity /\ work.active \in Brand!Views
  BY NotDue DEF BrandInv, BrandTypeOK, WorkState
<1>2. /\ (seen.load.ready \/ app.ready)
      /\ ReadFor(Brand!Current.data, work.active, seen.load)
  BY <1>1 DEF DataInOrder, Brand!Current
<1>3. app.ready /\ app.project # None
  BY <1>1, <1>2, IdentityOfNow DEF ReadFor, SameSources
<1> QED BY <1>1, <1>2, <1>3, IdentityOfNow DEF Asked, NumbersInOrder

\* What a view is given is data of the sources the effects last ran for.
LEMMA LoadedStays ==
  ASSUME BrandTypeOK, DataInOrder, PicksInOrder, app' = app, seen'.load = seen.load,
         NEW v \in Brand!Views, NEW data \in {None} \cup DataState, NEW p \in Nat,
         work' = Brand!Loaded(work, v, data, p),
         data # None => app.ready /\ ReadFor(data, v, seen.load),
         data # None /\ v = "consumer" /\ seen.load = Brand!LoadIdentity =>
           data.of.picked = work.picked
  PROVE  /\ work' \in WorkState /\ work'.active = work.active /\ work'.picked = work.picked
         /\ DataInOrder' /\ PicksInOrder'
<1>1. work \in WorkState
  BY DEF BrandTypeOK
<1>2. /\ work' \in WorkState /\ work'.active = work.active /\ work'.picked = work.picked
      /\ \A u \in Brand!Views :
           work'.views[u] = IF u = v THEN [loading |-> FALSE, data |-> data, page |-> p]
                            ELSE work.views[u]
  BY <1>1, LoadedKeeps
<1>3. \A u \in Brand!Views :
        \/ u = v /\ work'.views[u].data = data
        \/ u # v /\ work'.views[u] = work.views[u]
  BY <1>2
<1>4. Brand!LoadIdentity' = Brand!LoadIdentity
  BY <1>2 DEF Brand!LoadIdentity
<1>5. DataInOrder'
  <2> SUFFICES ASSUME NEW u \in Brand!Views, work'.views[u].data # None
               PROVE  /\ seen'.load.ready \/ app'.ready
                      /\ ReadFor(work'.views[u].data, u, seen'.load)
    BY DEF DataInOrder, ReadFor, SameSources
  <2>1. CASE u = v
    BY <1>3, <2>1 DEF ReadFor, SameSources
  <2>2. CASE u # v
    BY <1>3, <2>2 DEF DataInOrder, ReadFor, SameSources
  <2> QED BY <2>1, <2>2
<1>6. PicksInOrder'
  <2>1. "consumer" \in Brand!Views
    BY DEF Brand!Views
  <2>2. CASE v = "consumer"
    <3>1. work'.views["consumer"].data = data
      BY <1>3, <2>1, <2>2
    <3> QED BY <1>2, <1>4, <2>2, <3>1 DEF PicksInOrder
  <2>3. CASE v # "consumer"
    <3>1. work'.views["consumer"] = work.views["consumer"]
      BY <1>3, <2>1, <2>3
    <3> QED BY <1>2, <1>4, <3>1 DEF PicksInOrder
  <2> QED BY <2>2, <2>3
<1> QED BY <1>2, <1>5, <1>6

LEMMA AnsweredKeeps ==
  ASSUME BrandInv, Brand!Answered
  PROVE  BrandInv'
<1>1. /\ BrandTypeOK /\ NumbersInOrder /\ ReadsInOrder /\ PlansInOrder /\ NothingOfTheNext
      /\ DataInOrder /\ PicksInOrder
  BY DEF BrandInv
<1>2. PICK read \in reads :
        LET rest == reads \ {read}
            v == read.identity.view
        IN /\ \/ /\ ~Brand!IsCurrent(read)
                 /\ reads' = rest /\ UNCHANGED <<work, count>>
              \/ /\ Brand!IsCurrent(read) /\ read.kind = "view"
                 /\ \/ /\ work' = Brand!Loaded(work, v, [of |-> read.identity, profile |-> None],
                                               read.page)
                       /\ reads' = rest /\ UNCHANGED count
                    \/ work' = Brand!Refused(work, v) /\ reads' = rest /\ UNCHANGED count
                    \/ read.page > 1 /\ Brand!RunLoad(read.identity, 1, work, rest)
              \/ /\ Brand!IsCurrent(read) /\ read.kind = "profile"
                 /\ reads' = rest
                 /\ \/ /\ work' = Brand!Loaded(work, v,
                                    [read.base EXCEPT !.profile = read.identity], read.page)
                       /\ UNCHANGED count
                    \/ count' = [count EXCEPT !.given = TRUE] /\ UNCHANGED work
           /\ applies' = Brand!Unmount(work')
           /\ UNCHANGED <<app, seen, picture, draws, live>>
  BY DEF Brand!Answered
<1> DEFINE v == read.identity.view
           i == read.identity
<1>3. /\ app' = app /\ seen' = seen /\ applies' = Brand!Unmount(work')
      /\ read \in ReadState /\ i \in LoadIdentities /\ v \in Brand!Views /\ read.page \in Nat
      /\ work \in WorkState /\ reads \in SUBSET ReadState
  BY <1>1, <1>2 DEF BrandTypeOK, ReadState, LoadIdentities
<1>4. /\ applies' \in SUBSET PlanState
      /\ \A p \in applies' : \E q \in applies : q.identity = p.identity
  BY <1>1, <1>3, UnmountKeeps
<1>5. Brand!IsCurrent(read) =>
        /\ i = Brand!LoadIdentity /\ v = work.active /\ Asked(i) /\ app.ready
        /\ SameSources(seen.load, app) /\ SameSources(i, seen.load) /\ i.picked = work.picked
  <2> SUFFICES ASSUME Brand!IsCurrent(read)
               PROVE  /\ i = Brand!LoadIdentity /\ v = work.active /\ Asked(i) /\ app.ready
                      /\ SameSources(seen.load, app) /\ SameSources(i, seen.load)
                      /\ i.picked = work.picked
    OBVIOUS
  <2>1. i = Brand!LoadIdentity
    BY DEF Brand!IsCurrent
  <2>2. /\ v = work.active /\ Asked(i) /\ i.ready = app.ready /\ SameSources(i, app)
        /\ i.picked = work.picked
    BY <1>1, <2>1, IdentityOfNow DEF SameSources, ReadsInOrder
  <2>3. SameSources(seen.load, app)
    BY <1>1, <2>2 DEF NothingOfTheNext
  <2> QED BY <2>1, <2>2, <2>3 DEF SameSources, Asked
<1>6. ASSUME NEW data \in {None} \cup DataState, NEW p \in Nat, Brand!IsCurrent(read),
             work' = Brand!Loaded(work, v, data, p), reads' = reads \ {read}, UNCHANGED count,
             data # None => ReadFor(data, v, i),
             data # None /\ v = "consumer" => data.of.picked = i.picked
      PROVE  BrandInv'
  <2>1. data # None => app.ready /\ ReadFor(data, v, seen.load)
    BY <1>5, <1>6 DEF ReadFor, SameSources
  <2>2. /\ work' \in WorkState /\ work'.active = work.active /\ work'.picked = work.picked
        /\ DataInOrder' /\ PicksInOrder'
    BY <1>1, <1>3, <1>5, <1>6, <2>1, LoadedStays
  <2>3. BrandTypeOK'
    BY <1>1, <1>3, <1>4, <1>6, <2>2 DEF BrandTypeOK
  <2>4. ReadsInOrder' /\ PlansInOrder' /\ NothingOfTheNext'
    BY <1>1, <1>3, <1>4, <1>6, ReadsStay
  <2>5. NumbersInOrder'
    BY <1>1, <1>3, <1>6, <2>2 DEF NumbersInOrder
  <2> QED BY <2>2, <2>3, <2>4, <2>5 DEF BrandInv
<1>7. CASE /\ Brand!IsCurrent(read)
           /\ work' = Brand!Loaded(work, v, [of |-> i, profile |-> None], read.page)
           /\ reads' = reads \ {read} /\ UNCHANGED count
  <2> DEFINE data == [of |-> i, profile |-> None]
  <2>1. data \in DataState /\ data.of = i /\ data.profile = None
    BY <1>3 DEF DataState
  <2>2. work' = Brand!Loaded(work, v, data, read.page)
    BY <1>7
  <2> HIDE DEF data
  <2>3. ReadFor(data, v, i)
    BY <1>5, <1>7, <2>1 DEF ReadFor, Asked, SameSources
  <2> QED BY <1>3, <1>6, <1>7, <2>1, <2>2, <2>3
<1>8. CASE /\ Brand!IsCurrent(read) /\ work' = Brand!Refused(work, v)
           /\ reads' = reads \ {read} /\ UNCHANGED count
  <2>1. work' = Brand!Loaded(work, v, None, 1)
    BY <1>8 DEF Brand!Refused
  <2> QED BY <1>6, <1>8, <2>1
<1>9. CASE /\ Brand!IsCurrent(read) /\ read.kind = "profile"
           /\ work' = Brand!Loaded(work, v, [read.base EXCEPT !.profile = i], read.page)
           /\ reads' = reads \ {read} /\ UNCHANGED count
  <2> DEFINE data == [read.base EXCEPT !.profile = i]
  <2>1. /\ v = "qa" /\ read.base # None /\ ReadFor(read.base, "qa", i)
        /\ read.base \in {None} \cup DataState
    BY <1>1, <1>3, <1>9 DEF ReadsInOrder, ReadState
  <2>2. data \in DataState /\ data.of = read.base.of /\ data.profile = i
    BY <1>3, <2>1 DEF DataState
  <2>3. work' = Brand!Loaded(work, v, data, read.page)
    BY <1>9
  <2> HIDE DEF data
  <2>4. ReadFor(data, v, i)
    BY <1>5, <1>9, <2>1, <2>2 DEF ReadFor, Asked, SameSources
  <2> QED BY <1>3, <1>6, <1>9, <2>1, <2>2, <2>3, <2>4
<1>10. ASSUME work' \in WorkState, work'.active = work.active, work'.picked = work.picked,
              \A u \in Brand!Views :
                /\ work'.views[u].data = work.views[u].data
                /\ work.views[u].loading => work'.views[u].loading,
              reads' \in SUBSET ReadState,
              \A r \in reads' : r \in reads \/ (Brand!IsCurrent(read) /\ r.identity = i
                                                 /\ r.kind = "view"),
              count' \in [load : Nat, visual : Nat, changes : Nat, visits : Nat,
                          given : BOOLEAN],
              count'.changes = count.changes, count'.visits = count.visits
       PROVE  BrandInv'
  <2>1. BrandTypeOK'
    BY <1>1, <1>3, <1>4, <1>10 DEF BrandTypeOK
  <2>2. DataInOrder' /\ PicksInOrder'
    BY <1>1, <1>3, <1>10, <2>1, ViewsStay
  <2>3. NumbersInOrder'
    BY <1>1, <1>3, <1>10 DEF NumbersInOrder
  <2>4. \A r \in reads' :
          \/ r \in reads
          \/ Asked(r.identity) /\ r.kind # "profile" /\ SameSources(seen.load, app)
    BY <1>5, <1>10
  <2>5. ReadsInOrder' /\ PlansInOrder' /\ NothingOfTheNext'
    BY <1>1, <1>3, <1>4, <1>10, <2>4, ReadsStay
  <2> QED BY <2>1, <2>2, <2>3, <2>5 DEF BrandInv
<1>11. CASE UNCHANGED work /\ reads' = reads \ {read}
            /\ (count' = count \/ count' = [count EXCEPT !.given = TRUE])
  <2>1. /\ count' \in [load : Nat, visual : Nat, changes : Nat, visits : Nat, given : BOOLEAN]
        /\ count'.changes = count.changes /\ count'.visits = count.visits
    BY <1>1, <1>11 DEF BrandTypeOK
  <2> QED BY <1>3, <1>10, <1>11, <2>1
<1>12. CASE Brand!IsCurrent(read) /\ Brand!RunLoad(i, 1, work, reads \ {read})
  <2>1. reads \ {read} \in SUBSET ReadState
    BY <1>3
  <2>2. /\ work' \in WorkState /\ work'.active = work.active /\ work'.picked = work.picked
        /\ \A u \in Brand!Views :
             /\ work'.views[u].data = work.views[u].data
             /\ work.views[u].loading => work'.views[u].loading
        /\ reads' \in SUBSET ReadState
        /\ \A r \in reads' : r \in reads \ {read} \/ (r.identity = i /\ r.kind = "view")
        /\ count' \in [load : Nat, visual : Nat, changes : Nat, visits : Nat, given : BOOLEAN]
        /\ count'.changes = count.changes /\ count'.visits = count.visits
    BY <1>1, <1>3, <1>12, <2>1, RunLoadMoves
  <2> QED BY <1>10, <1>12, <2>2
<1> QED BY <1>2, <1>7, <1>8, <1>9, <1>11, <1>12

\* The effects put away what is of sources that are gone, and read the view for the new ones.
LEMMA BrandEffectsKeep ==
  ASSUME NoneIsNoNumber, BrandInv, Brand!Effects
  PROVE  BrandInv'
<1>1. /\ BrandTypeOK /\ NumbersInOrder /\ ReadsInOrder /\ PlansInOrder /\ NothingOfTheNext
      /\ DataInOrder /\ PicksInOrder
  BY DEF BrandInv
<1> DEFINE gone == \/ seen.load.ready /\ ~app.ready
                   \/ seen.load.project # app.project
                   \/ seen.load.source # app.source
           now == Brand!LoadIdentity
           loads == seen.load # now /\ app.ready /\ app.project # None
           cleared == IF gone THEN Brand!Cleared(work) ELSE work
           kept == IF app.source = None THEN [cleared EXCEPT !.picked = 0] ELSE cleared
           r == Brand!Read(count.load + 1, "view", now, 1, None)
<1>2. /\ work' = IF loads THEN Brand!Loading(kept, work.active) ELSE kept
      /\ reads' = IF loads THEN reads \cup {r} ELSE reads
      /\ app' = app /\ seen'.load = now
      /\ applies' \subseteq applies
  BY DEF Brand!Effects
<1>3. /\ count' \in [load : Nat, visual : Nat, changes : Nat, visits : Nat, given : BOOLEAN]
      /\ count'.changes = count.changes /\ count'.visits = count.visits
      /\ count.visits \in Nat
  <2> DEFINE n == IF loads THEN count.load + 1 ELSE count.load
             m == IF seen.visual # Brand!VisualIdentity THEN count.visual + 1 ELSE count.visual
  <2>1. count' = [count EXCEPT !.load = n, !.visual = m]
    BY DEF Brand!Effects
  <2>2. n \in Nat /\ m \in Nat
    BY <1>1 DEF BrandTypeOK
  <2> HIDE DEF n, m
  <2> QED BY <1>1, <2>1, <2>2 DEF BrandTypeOK
<1>4. /\ now \in LoadIdentities /\ now.ready = app.ready /\ SameSources(now, app)
      /\ now.picked = work.picked /\ now.view = work.active /\ work.active \in Brand!Views
  BY <1>1, IdentityOfNow DEF SameSources, BrandTypeOK, WorkState
<1>5. /\ cleared \in WorkState /\ cleared.active = work.active /\ cleared.picked = work.picked
      /\ \A v \in Brand!Views :
           /\ gone => cleared.views[v].data = None
           /\ ~gone => cleared.views[v] = work.views[v]
  <2>1. work \in WorkState
    BY <1>1 DEF BrandTypeOK
  <2>2. CASE gone
    <3> DEFINE none == [v \in Brand!Views |-> Brand!Absent]
    <3>1. Brand!Absent \in ViewState /\ Brand!Absent.data = None
      BY DEF Brand!Absent, ViewState
    <3>2. none \in [Brand!Views -> ViewState] /\ \A v \in Brand!Views : none[v].data = None
      BY <3>1
    <3>3. cleared = [work EXCEPT !.views = none, !.selection = None]
      BY <2>2 DEF Brand!Cleared
    <3> HIDE DEF none, cleared
    <3>4. /\ cleared \in WorkState /\ cleared.active = work.active
          /\ cleared.picked = work.picked /\ cleared.views = none
      BY <2>1, <3>2, <3>3 DEF WorkState
    <3> QED BY <2>2, <3>2, <3>4
  <2>3. CASE ~gone
    BY <2>1, <2>3
  <2> QED BY <2>2, <2>3
<1> HIDE DEF cleared
<1>6. /\ kept \in WorkState /\ kept.active = work.active /\ kept.views = cleared.views
      /\ kept.picked \in {0, work.picked}
  BY <1>5 DEF WorkState
<1> HIDE DEF kept
<1>7. /\ work' \in WorkState /\ work'.active = work.active /\ work'.picked \in {0, work.picked}
      /\ \A v \in Brand!Views :
           /\ gone => work'.views[v].data = None
           /\ ~gone => work'.views[v].data = work.views[v].data
      /\ loads => work'.views[work.active].loading
      /\ ~loads /\ ~gone => \A v \in Brand!Views : work'.views[v] = work.views[v]
  <2>1. CASE loads
    BY <1>2, <1>4, <1>5, <1>6, <2>1, LoadingKeeps
  <2>2. CASE ~loads
    BY <1>2, <1>5, <1>6, <2>2
  <2> QED BY <2>1, <2>2
<1>8. r \in ReadState /\ r.identity = now /\ r.kind = "view"
  <2>1. count.load + 1 \in Nat
    BY <1>1 DEF BrandTypeOK
  <2> QED BY <1>4, <2>1 DEF Brand!Read, ReadState
<1> HIDE DEF r
<1>9. BrandTypeOK'
  <2>1. reads' \in SUBSET ReadState /\ applies' \in SUBSET PlanState
    BY <1>1, <1>2, <1>8 DEF BrandTypeOK
  <2> QED BY <1>1, <1>2, <1>3, <1>4, <1>7, <2>1 DEF BrandTypeOK
<1>10. NumbersInOrder'
  BY <1>1, <1>2, <1>3, <1>7 DEF NumbersInOrder
<1>11. \A i : Asked(i)' <=> Asked(i)
  BY <1>3 DEF Asked
<1>12. ReadsInOrder' /\ PlansInOrder'
  <2>1. loads => Asked(now)
    BY <1>1, <1>4 DEF Asked, SameSources, NumbersInOrder
  <2>2. \A q \in reads' : q \in reads \/ (loads /\ q = r)
    BY <1>2
  <2> QED BY <1>1, <1>2, <1>8, <1>11, <2>1, <2>2 DEF ReadsInOrder, PlansInOrder
<1>13. NothingOfTheNext'
  BY <1>2, <1>4 DEF NothingOfTheNext, SameSources
<1>14. DataInOrder'
  <2> SUFFICES ASSUME NEW v \in Brand!Views, work'.views[v].data # None
               PROVE  /\ seen'.load.ready \/ app'.ready
                      /\ ReadFor(work'.views[v].data, v, seen'.load)
    BY DEF DataInOrder, ReadFor, SameSources
  <2>1. ~gone /\ work'.views[v].data = work.views[v].data
    BY <1>7
  <2>2. (seen.load.ready \/ app.ready) /\ ReadFor(work'.views[v].data, v, seen.load)
    BY <1>1, <2>1 DEF DataInOrder
  <2> QED BY <1>2, <1>4, <2>1, <2>2 DEF ReadFor, SameSources
<1>15. PicksInOrder'
  <2> SUFFICES ASSUME seen'.load = Brand!LoadIdentity', work'.active = "consumer",
                      ~work'.views["consumer"].loading, work'.views["consumer"].data # None
               PROVE  work'.views["consumer"].data.of.picked = work'.picked
    BY DEF PicksInOrder
  <2>1. "consumer" \in Brand!Views /\ work.active = "consumer"
    BY <1>7 DEF Brand!Views
  <2>2. ~gone /\ ~loads
    BY <1>7, <2>1
  <2>3. work'.views["consumer"] = work.views["consumer"]
    BY <1>7, <2>1, <2>2
  <2>4. app.ready /\ app.project # None
    <3>1. (seen.load.ready \/ app.ready) /\ ReadFor(work.views["consumer"].data, "consumer", seen.load)
      BY <1>1, <2>1, <2>3 DEF DataInOrder
    <3> QED BY <2>2, <3>1 DEF ReadFor, SameSources
  <2>5. seen.load = now
    BY <2>2, <2>4
  <2>6. now.picked = work'.picked
    BY <1>2 DEF Brand!LoadIdentity
  <2> QED BY <1>1, <1>4, <2>1, <2>3, <2>5, <2>6 DEF PicksInOrder
<1> QED BY <1>9, <1>10, <1>12, <1>13, <1>14, <1>15 DEF BrandInv

\* Nothing was read yet of a project or a source that is opened.
LEMMA ChangeKeeps ==
  ASSUME NoneIsNoNumber, BrandInv, Brand!Change
  PROVE  BrandInv'
<1>1. /\ BrandTypeOK /\ NumbersInOrder /\ ReadsInOrder /\ PlansInOrder /\ NothingOfTheNext
      /\ DataInOrder /\ PicksInOrder
  BY DEF BrandInv
<1>2. /\ UNCHANGED <<work, seen, reads, applies>> /\ ~Brand!Due
      /\ count' = [count EXCEPT !.changes = @ + 1]
  BY DEF Brand!Change
<1> DEFINE n == count.changes + 1
<1>3. /\ \/ app' = [app EXCEPT !.ready = ~app.ready]
         \/ app' = [app EXCEPT !.project = None, !.source = None]
         \/ app' = [app EXCEPT !.project = n, !.source = None]
         \/ app' = [app EXCEPT !.source = n]
  BY DEF Brand!Change
<1>4. app \in [ready : BOOLEAN, project : Projects, source : Projects] /\ n \in Nat
      /\ count.changes \in Nat
  BY <1>1 DEF BrandTypeOK
<1>5. /\ count' \in [load : Nat, visual : Nat, changes : Nat, visits : Nat, given : BOOLEAN]
      /\ count'.changes = n /\ count'.visits = count.visits
  <2>1. count' = [count EXCEPT !.changes = n]
    BY <1>2
  <2> HIDE DEF n
  <2> QED BY <1>1, <1>4, <2>1 DEF BrandTypeOK
<1>6. n > count.changes
  BY <1>4
<1> HIDE DEF n
<1>7. /\ app' \in [ready : BOOLEAN, project : Projects, source : Projects]
      /\ \/ app'.project = app.project /\ app'.source = app.source
         \/ app'.project = None /\ app'.source = None
         \/ app'.project = n /\ app'.source = None
         \/ app'.project = app.project /\ app'.source = n
  <2>1. None \in Projects /\ n \in Projects /\ (~app.ready) \in BOOLEAN
    BY <1>4 DEF Projects
  <2> QED BY <1>3, <1>4, <2>1
<1>8. BrandTypeOK'
  BY <1>1, <1>2, <1>5, <1>7 DEF BrandTypeOK
<1>9. NumbersInOrder'
  <2>1. /\ app'.project # None => app'.project <= n
        /\ app'.source # None => app'.source <= n
    <3>1. n <= n
      BY <1>4
    <3>2. /\ app.project # None => app.project <= n
          /\ app.source # None => app.source <= n
      <4>1. app.project # None => app.project \in Nat
        BY <1>4 DEF Projects
      <4>2. app.source # None => app.source \in Nat
        BY <1>4 DEF Projects
      <4> QED BY <1>1, <1>4, <1>6, <4>1, <4>2 DEF NumbersInOrder
    <3> QED BY <1>7, <3>1, <3>2
  <2> QED BY <1>1, <1>2, <1>5, <2>1 DEF NumbersInOrder
<1>10. \A i \in LoadIdentities : Asked(i) => Asked(i)' /\ i.project # n /\ i.source # n
  <2> SUFFICES ASSUME NEW i \in LoadIdentities, Asked(i)
               PROVE  Asked(i)' /\ i.project # n /\ i.source # n
    OBVIOUS
  <2>1. i.project \in Nat /\ (i.source # None => i.source \in Nat)
    BY DEF Asked, LoadIdentities, Projects
  <2>2. i.project <= count.changes /\ i.project # None
        /\ (i.source # None => i.source <= count.changes)
    BY DEF Asked
  <2>3. i.project <= n /\ i.project # n
    BY <1>4, <1>6, <2>1, <2>2
  <2>4. i.source # None => i.source <= n /\ i.source # n
    BY <1>4, <1>6, <2>1, <2>2
  <2>5. i.source # n
    BY <1>4, <2>4 DEF NoneIsNoNumber
  <2> QED BY <1>5, <2>2, <2>3, <2>4, <2>5 DEF Asked
<1>11. /\ \A r \in reads : r.identity \in LoadIdentities /\ Asked(r.identity)
       /\ \A p \in applies : p.identity \in LoadIdentities /\ Asked(p.identity)
  <2>1. \A r \in ReadState : r.identity \in LoadIdentities
    BY DEF ReadState
  <2>2. \A p \in PlanState : p.identity \in LoadIdentities
    BY DEF PlanState
  <2> QED BY <1>1, <2>1, <2>2 DEF BrandTypeOK, ReadsInOrder, PlansInOrder
<1>12. ReadsInOrder' /\ PlansInOrder'
  <2>1. \A r \in reads' : Asked(r.identity)'
    BY <1>2, <1>10, <1>11
  <2>2. \A p \in applies' : Asked(p.identity)'
    BY <1>2, <1>10, <1>11
  <2> QED BY <1>1, <1>2, <2>1, <2>2 DEF ReadsInOrder, PlansInOrder
<1>13. seen.load.ready = app.ready /\ SameSources(seen.load, app)
  BY <1>1, <1>2, NotDue, IdentityOfNow DEF SameSources
<1>14. NothingOfTheNext'
  <2> SUFFICES ASSUME ~SameSources(seen.load, app'), NEW i \in LoadIdentities, Asked(i)
               PROVE  ~SameSources(i, app')
    BY <1>2, <1>11 DEF NothingOfTheNext
  <2>1. app'.project = None \/ app'.project = n \/ app'.source = n
    BY <1>7, <1>13 DEF SameSources
  <2> QED BY <1>10, <2>1 DEF SameSources, Asked
<1>15. DataInOrder'
  <2> SUFFICES ASSUME NEW v \in Brand!Views, work.views[v].data # None
               PROVE  /\ seen.load.ready \/ app'.ready
                      /\ ReadFor(work.views[v].data, v, seen.load)
    BY <1>2 DEF DataInOrder, ReadFor, SameSources
  <2> QED BY <1>1, <1>13 DEF DataInOrder
<1>16. PicksInOrder'
  <2>1. seen.load = Brand!LoadIdentity
    BY <1>2, NotDue
  <2> QED BY <1>1, <1>2, <2>1 DEF PicksInOrder
<1> QED BY <1>8, <1>9, <1>12, <1>14, <1>15, <1>16 DEF BrandInv

LEMMA VisitingMoves ==
  ASSUME BrandTypeOK, NEW a \in Nat, NEW b \in Nat, Brand!Visiting(a, b)
  PROVE  /\ count' \in [load : Nat, visual : Nat, changes : Nat, visits : Nat, given : BOOLEAN]
         /\ count'.changes = count.changes /\ count'.visits = count.visits + 1
         /\ count'.visual = count.visual + b /\ count.visits \in Nat
<1> DEFINE x == count.visits + 1
           y == count.load + a
           z == count.visual + b
<1>1. count \in [load : Nat, visual : Nat, changes : Nat, visits : Nat, given : BOOLEAN]
  BY DEF BrandTypeOK
<1>2. x \in Nat /\ y \in Nat /\ z \in Nat /\ count.visits \in Nat
  BY <1>1
<1>3. count' = [count EXCEPT !.visits = x, !.load = y, !.visual = z]
  BY DEF Brand!Visiting
<1> HIDE DEF x, y, z
<1>4. /\ count' \in [load : Nat, visual : Nat, changes : Nat, visits : Nat, given : BOOLEAN]
      /\ count'.changes = count.changes /\ count'.visits = x /\ count'.visual = z
  BY <1>1, <1>2, <1>3
<1> QED BY <1>2, <1>4 DEF x, z

\* The user moves between views, selects and picks.
LEMMA VisitKeeps ==
  ASSUME BrandInv, NEW v \in Brand!Views, Brand!Visit(v)
  PROVE  BrandInv'
<1>1. /\ BrandTypeOK /\ NumbersInOrder /\ ReadsInOrder /\ PlansInOrder /\ NothingOfTheNext
      /\ DataInOrder /\ PicksInOrder
  BY DEF BrandInv
<1>2. /\ UNCHANGED <<app, seen, reads>> /\ applies' = Brand!Unmount(work')
      /\ work' = [work EXCEPT !.active = v, !.selection = None] /\ ~Brand!Due
  BY DEF Brand!Visit, Brand!Visiting
<1>3. /\ count' \in [load : Nat, visual : Nat, changes : Nat, visits : Nat, given : BOOLEAN]
      /\ count'.changes = count.changes /\ count'.visits = count.visits + 1
      /\ count.visits \in Nat
  BY <1>1, VisitingMoves DEF Brand!Visit
<1>4. /\ work' \in WorkState /\ work'.views = work.views /\ work'.picked = work.picked
      /\ work'.active = v
  BY <1>1, <1>2 DEF BrandTypeOK, WorkState
<1>5. /\ applies' \in SUBSET PlanState
      /\ \A p \in applies' : \E q \in applies : q.identity = p.identity
  BY <1>1, <1>2, UnmountKeeps
<1>6. BrandTypeOK'
  BY <1>1, <1>2, <1>3, <1>4, <1>5 DEF BrandTypeOK
<1>7. NumbersInOrder'
  BY <1>1, <1>2, <1>3, <1>4, <1>6, NumbersStay
<1>8. ReadsInOrder' /\ PlansInOrder' /\ NothingOfTheNext'
  BY <1>1, <1>2, <1>3, <1>5, ReadsStay
<1>9. DataInOrder'
  BY <1>1, <1>2, <1>4 DEF DataInOrder, ReadFor, SameSources
<1>10. PicksInOrder'
  <2>1. seen.load = Brand!LoadIdentity /\ Brand!LoadIdentity.view = work.active
    BY <1>1, <1>2, NotDue, IdentityOfNow
  <2>2. Brand!LoadIdentity'.view = v
    BY <1>4, <1>6 DEF Brand!LoadIdentity
  <2> QED BY <1>1, <1>2, <1>4, <2>1, <2>2 DEF PicksInOrder
<1> QED BY <1>6, <1>7, <1>8, <1>9, <1>10 DEF BrandInv

LEMMA SelectKeeps ==
  ASSUME BrandInv, Brand!Select
  PROVE  BrandInv'
<1>1. /\ BrandTypeOK /\ NumbersInOrder /\ ReadsInOrder /\ PlansInOrder /\ NothingOfTheNext
      /\ DataInOrder /\ PicksInOrder
  BY DEF BrandInv
<1>2. /\ UNCHANGED <<app, seen, reads, applies, count>>
      /\ work' = [work EXCEPT !.selection = "evidence"]
  BY DEF Brand!Select
<1>3. /\ work' \in WorkState /\ work'.views = work.views /\ work'.picked = work.picked
      /\ work'.active = work.active
  BY <1>1, <1>2 DEF BrandTypeOK, WorkState
<1>4. BrandTypeOK'
  BY <1>1, <1>2, <1>3 DEF BrandTypeOK
<1>5. DataInOrder' /\ PicksInOrder'
  BY <1>1, <1>2, <1>3, <1>4, ViewsStay
<1>6. NumbersInOrder'
  BY <1>1, <1>2, <1>3 DEF NumbersInOrder
<1>7. ReadsInOrder' /\ PlansInOrder' /\ NothingOfTheNext'
  BY <1>1, <1>2, ReadsStay
<1> QED BY <1>4, <1>5, <1>6, <1>7 DEF BrandInv

LEMMA PickKeeps ==
  ASSUME BrandInv, Brand!Pick
  PROVE  BrandInv'
<1>1. /\ BrandTypeOK /\ NumbersInOrder /\ ReadsInOrder /\ PlansInOrder /\ NothingOfTheNext
      /\ DataInOrder /\ PicksInOrder
  BY DEF BrandInv
<1> DEFINE n == count.visits + 1
<1>2. /\ UNCHANGED <<app, seen, reads, applies>> /\ ~Brand!Due
      /\ work' = [work EXCEPT !.picked = n]
  BY DEF Brand!Pick, Brand!Visiting
<1>3. /\ count' \in [load : Nat, visual : Nat, changes : Nat, visits : Nat, given : BOOLEAN]
      /\ count'.changes = count.changes /\ count'.visits = n
      /\ count.visits \in Nat
  BY <1>1, VisitingMoves DEF Brand!Pick
<1>4. n \in Nat /\ work \in WorkState /\ work.picked \in Nat /\ n # work.picked /\ n <= n
  BY <1>1, <1>3 DEF BrandTypeOK, WorkState, NumbersInOrder
<1> HIDE DEF n
<1>5. /\ work' \in WorkState /\ work'.views = work.views /\ work'.picked = n
      /\ work'.active = work.active
  BY <1>2, <1>4 DEF WorkState
<1>6. BrandTypeOK'
  BY <1>1, <1>2, <1>3, <1>5 DEF BrandTypeOK
<1>7. NumbersInOrder'
  BY <1>1, <1>2, <1>3, <1>4, <1>5 DEF NumbersInOrder
<1>8. ReadsInOrder' /\ PlansInOrder' /\ NothingOfTheNext'
  BY <1>1, <1>2, <1>3, ReadsStay
<1>9. DataInOrder'
  BY <1>1, <1>2, <1>5 DEF DataInOrder, ReadFor, SameSources
<1>10. PicksInOrder'
  <2>1. seen.load.picked = work.picked
    BY <1>1, <1>2, NotDue, IdentityOfNow
  <2>2. Brand!LoadIdentity'.picked = n
    BY <1>5 DEF Brand!LoadIdentity
  <2> QED BY <1>2, <1>4, <2>1, <2>2 DEF PicksInOrder
<1> QED BY <1>6, <1>7, <1>8, <1>9, <1>10 DEF BrandInv

\* A view begins to load, by a read for the identity of now.
LEMMA AskedKeeps ==
  ASSUME BrandInv, Brand!Visiting(1, 0), UNCHANGED <<app, seen, applies>>,
         NEW v \in Brand!Views, work' = Brand!Loading(work, v),
         NEW r \in ReadState, reads' = reads \cup {r},
         r.identity = Brand!LoadIdentity, Asked(r.identity),
         r.kind = "profile" =>
           r.identity.view = "qa" /\ r.base # None /\ ReadFor(r.base, "qa", r.identity)
  PROVE  BrandInv'
<1>1. /\ BrandTypeOK /\ NumbersInOrder /\ ReadsInOrder /\ PlansInOrder /\ NothingOfTheNext
      /\ DataInOrder /\ PicksInOrder
  BY DEF BrandInv
<1>2. /\ count' \in [load : Nat, visual : Nat, changes : Nat, visits : Nat, given : BOOLEAN]
      /\ count'.changes = count.changes /\ count'.visits = count.visits + 1
      /\ count.visits \in Nat
  BY <1>1, VisitingMoves
<1>3. work \in WorkState
  BY <1>1 DEF BrandTypeOK
<1>4. /\ work' \in WorkState /\ work'.active = work.active /\ work'.picked = work.picked
      /\ \A u \in Brand!Views :
           /\ work'.views[u].data = work.views[u].data
           /\ work.views[u].loading => work'.views[u].loading
  BY <1>3, LoadingKeeps
<1>5. BrandTypeOK'
  BY <1>1, <1>2, <1>4 DEF BrandTypeOK
<1>6. SameSources(seen.load, app)
  BY <1>1, NotDue, IdentityOfNow DEF Brand!Visiting, SameSources
<1>7. DataInOrder' /\ PicksInOrder'
  BY <1>1, <1>4, <1>5, ViewsStay
<1>8. NumbersInOrder'
  BY <1>1, <1>2, <1>4, <1>5, NumbersStay
<1>9. ReadsInOrder' /\ PlansInOrder' /\ NothingOfTheNext'
  BY <1>1, <1>2, <1>6, ReadsStay
<1> QED BY <1>5, <1>7, <1>8, <1>9 DEF BrandInv

LEMMA TurnKeeps ==
  ASSUME BrandInv, Brand!Turn
  PROVE  BrandInv'
<1>1. BrandTypeOK /\ NumbersInOrder
  BY DEF BrandInv
<1>2. PICK p \in 1..Brand!LastPage :
        reads' = reads \cup {Brand!Read(count.load + 1, "view", Brand!LoadIdentity, p, None)}
  BY DEF Brand!Turn
<1>3. /\ Brand!Visiting(1, 0) /\ app.ready /\ app.project # None
      /\ work' = Brand!Loading(work, work.active) /\ UNCHANGED <<app, seen, applies>>
  BY DEF Brand!Turn
<1>4. Asked(Brand!LoadIdentity)
  BY <1>1, <1>3, IdentityOfNow DEF Asked, NumbersInOrder
<1>5. /\ count.load + 1 \in Nat /\ p \in Nat /\ work.active \in Brand!Views
      /\ Brand!LoadIdentity \in LoadIdentities
  BY <1>1, IdentityOfNow DEF BrandTypeOK, WorkState, Brand!LastPage
<1> DEFINE r == Brand!Read(count.load + 1, "view", Brand!LoadIdentity, p, None)
<1>6. r \in ReadState /\ r.identity = Brand!LoadIdentity /\ r.kind = "view"
  BY <1>5 DEF Brand!Read, ReadState
<1>7. reads' = reads \cup {r}
  BY <1>2
<1> HIDE DEF r
<1> QED BY <1>3, <1>4, <1>5, <1>6, <1>7, AskedKeeps

LEMMA SelectProfileKeeps ==
  ASSUME BrandInv, Brand!SelectProfile
  PROVE  BrandInv'
<1>1. /\ BrandTypeOK /\ NumbersInOrder /\ ReadsInOrder /\ PlansInOrder /\ NothingOfTheNext
      /\ DataInOrder /\ PicksInOrder
  BY DEF BrandInv
<1>2. /\ work.active = "qa" /\ Brand!Current.data # None /\ ~Brand!Due
      /\ UNCHANGED <<app, seen, applies>>
  BY DEF Brand!SelectProfile, Brand!Visiting
<1>3. /\ "qa" \in Brand!Views /\ Brand!Current \in ViewState
      /\ Brand!Current.data \in DataState /\ Brand!Current.page \in Nat
  BY <1>1, <1>2 DEF Brand!Views, Brand!Current, BrandTypeOK, WorkState, ViewState
<1>4. /\ Asked(Brand!LoadIdentity) /\ app.ready
      /\ ReadFor(Brand!Current.data, "qa", Brand!LoadIdentity)
      /\ Brand!LoadIdentity \in LoadIdentities /\ Brand!LoadIdentity.view = "qa"
      /\ seen.load = Brand!LoadIdentity
  BY <1>1, <1>2, DataIsAsked, NotDue, IdentityOfNow
<1>5. CASE /\ Brand!Visiting(1, 0) /\ work' = Brand!Loading(work, "qa")
           /\ reads' = reads \cup {Brand!Read(count.load + 1, "profile", Brand!LoadIdentity,
                                              Brand!Current.page, Brand!Current.data)}
  <2> DEFINE r == Brand!Read(count.load + 1, "profile", Brand!LoadIdentity,
                             Brand!Current.page, Brand!Current.data)
  <2>1. count.load + 1 \in Nat
    BY <1>1 DEF BrandTypeOK
  <2>2. /\ r \in ReadState /\ r.identity = Brand!LoadIdentity /\ r.base = Brand!Current.data
    BY <1>3, <1>4, <2>1 DEF Brand!Read, ReadState
  <2>3. reads' = reads \cup {r}
    BY <1>5
  <2> HIDE DEF r
  <2> QED BY <1>2, <1>3, <1>4, <1>5, <2>2, <2>3, AskedKeeps
<1>6. CASE /\ Brand!Visiting(0, 0) /\ UNCHANGED reads
           /\ work' = Brand!Loaded(work, "qa", [Brand!Current.data EXCEPT !.profile = None],
                                   Brand!Current.page)
  <2> DEFINE data == [Brand!Current.data EXCEPT !.profile = None]
             p == Brand!Current.page
  <2>1. data \in DataState /\ data.of = Brand!Current.data.of /\ data.profile = None
    BY <1>3 DEF DataState
  <2>2. work' = Brand!Loaded(work, "qa", data, p) /\ p \in Nat
    BY <1>3, <1>6
  <2> HIDE DEF data, p
  <2>3. ReadFor(data, "qa", seen.load)
    BY <1>4, <2>1 DEF ReadFor
  <2>4. /\ work' \in WorkState /\ work'.active = work.active /\ work'.picked = work.picked
        /\ DataInOrder' /\ PicksInOrder'
    BY <1>1, <1>2, <1>3, <1>4, <2>1, <2>2, <2>3, LoadedStays
  <2>5. /\ count' \in [load : Nat, visual : Nat, changes : Nat, visits : Nat, given : BOOLEAN]
        /\ count'.changes = count.changes /\ count'.visits = count.visits + 1
        /\ count.visits \in Nat
    BY <1>1, <1>6, VisitingMoves
  <2>6. BrandTypeOK'
    BY <1>1, <1>2, <1>6, <2>4, <2>5 DEF BrandTypeOK
  <2>7. NumbersInOrder'
    BY <1>1, <1>2, <2>4, <2>5, <2>6, NumbersStay
  <2>8. ReadsInOrder' /\ PlansInOrder' /\ NothingOfTheNext'
    BY <1>1, <1>2, <1>6, <2>5, ReadsStay
  <2> QED BY <2>4, <2>6, <2>7, <2>8 DEF BrandInv
<1> QED BY <1>5, <1>6 DEF Brand!SelectProfile

LEMMA ApplyKeeps ==
  ASSUME BrandInv, Brand!Apply
  PROVE  BrandInv'
<1>1. /\ BrandTypeOK /\ NumbersInOrder /\ ReadsInOrder /\ PlansInOrder /\ NothingOfTheNext
      /\ DataInOrder /\ PicksInOrder
  BY DEF BrandInv
<1> DEFINE plan == [identity |-> Brand!LoadIdentity, page |-> Brand!Current.page,
                    stage |-> "applying", mounted |-> TRUE]
<1>2. /\ UNCHANGED <<app, work, seen, reads>> /\ applies' = applies \cup {plan}
      /\ Brand!Visiting(0, 0) /\ ~Brand!Due /\ Brand!Current.data # None
  BY DEF Brand!Apply, Brand!Visiting
<1>3. /\ count' \in [load : Nat, visual : Nat, changes : Nat, visits : Nat, given : BOOLEAN]
      /\ count'.changes = count.changes /\ count'.visits = count.visits + 1
      /\ count.visits \in Nat
  BY <1>1, <1>2, VisitingMoves
<1>4. plan \in PlanState /\ plan.identity = Brand!LoadIdentity
  <2>1. Brand!Current.page \in Nat /\ Brand!LoadIdentity \in LoadIdentities
    BY <1>1, IdentityOfNow DEF Brand!Current, BrandTypeOK, WorkState, ViewState
  <2> QED BY <2>1 DEF PlanState
<1> HIDE DEF plan
<1>5. Asked(plan.identity)
  BY <1>2, <1>4, DataIsAsked
<1>6. SameSources(seen.load, app)
  BY <1>1, <1>2, NotDue, IdentityOfNow DEF SameSources
<1>7. BrandTypeOK'
  BY <1>1, <1>2, <1>3, <1>4 DEF BrandTypeOK
<1>8. NumbersInOrder'
  BY <1>1, <1>2, <1>3, <1>7, NumbersStay
<1>9. ReadsInOrder' /\ PlansInOrder' /\ NothingOfTheNext'
  BY <1>1, <1>2, <1>3, <1>5, <1>6, ReadsStay
<1>10. DataInOrder' /\ PicksInOrder'
  BY <1>1, <1>2, <1>7, ViewsStay
<1> QED BY <1>7, <1>8, <1>9, <1>10 DEF BrandInv

\* A visual is drawn: the views do not move.
LEMMA DrawingKeeps ==
  ASSUME BrandInv, Brand!RenderVisual \/ Brand!Drawn \/ Brand!Made
  PROVE  BrandInv'
<1>1. /\ BrandTypeOK /\ NumbersInOrder /\ ReadsInOrder /\ PlansInOrder /\ NothingOfTheNext
      /\ DataInOrder /\ PicksInOrder
  BY DEF BrandInv
<1>2. UNCHANGED <<app, work, seen, reads, applies>>
  BY DEF Brand!RenderVisual, Brand!Drawn, Brand!Made
<1>3. /\ count' \in [load : Nat, visual : Nat, changes : Nat, visits : Nat, given : BOOLEAN]
      /\ count'.changes = count.changes /\ count'.visits >= count.visits
  <2>1. CASE Brand!RenderVisual
    <3>1. /\ count' \in [load : Nat, visual : Nat, changes : Nat, visits : Nat,
                         given : BOOLEAN]
          /\ count'.changes = count.changes /\ count'.visits = count.visits + 1
          /\ count.visits \in Nat
      BY <1>1, <2>1, VisitingMoves DEF Brand!RenderVisual
    <3> QED BY <3>1
  <2>2. CASE Brand!Drawn \/ Brand!Made
    <3>1. count' = count /\ count.visits \in Nat
      BY <1>1, <2>2 DEF Brand!Drawn, Brand!Made, BrandTypeOK
    <3> QED BY <1>1, <3>1 DEF BrandTypeOK
  <2> QED BY <2>1, <2>2
<1>4. BrandTypeOK'
  BY <1>1, <1>2, <1>3 DEF BrandTypeOK
<1>5. NumbersInOrder'
  BY <1>1, <1>2, <1>3, <1>4, NumbersStay
<1>6. ReadsInOrder' /\ PlansInOrder' /\ NothingOfTheNext'
  BY <1>1, <1>2, <1>3, ReadsStay
<1>7. DataInOrder' /\ PicksInOrder'
  BY <1>1, <1>2, <1>4, ViewsStay
<1> QED BY <1>4, <1>5, <1>6, <1>7 DEF BrandInv

\* A plan is applied, or fails.
LEMMA ReconcileKeeps ==
  ASSUME BrandInv, Brand!Reconcile
  PROVE  BrandInv'
<1>1. /\ BrandTypeOK /\ NumbersInOrder /\ ReadsInOrder /\ PlansInOrder /\ NothingOfTheNext
      /\ DataInOrder /\ PicksInOrder
  BY DEF BrandInv
<1>2. UNCHANGED <<app, seen, reads>>
  BY DEF Brand!Reconcile
<1>3. PICK plan \in applies :
        \/ /\ applies' = (applies \ {plan}) \cup {[plan EXCEPT !.stage = "checking"]}
           /\ work' = [work EXCEPT !.selection = None]
           /\ count' = [count EXCEPT !.visual = count.visual + 1]
        \/ applies' = applies \ {plan} /\ UNCHANGED <<work, count>>
  BY DEF Brand!Reconcile
<1> DEFINE checked == [plan EXCEPT !.stage = "checking"]
<1>4. checked \in PlanState /\ checked.identity = plan.identity
  BY <1>1 DEF BrandTypeOK, PlanState
<1>5. applies' \in {applies \ {plan}, (applies \ {plan}) \cup {checked}}
  BY <1>3
<1> HIDE DEF checked
<1>6. /\ applies' \in SUBSET PlanState
      /\ \A p \in applies' : \E q \in applies : q.identity = p.identity
  BY <1>1, <1>4, <1>5 DEF BrandTypeOK
<1>7. /\ work' \in WorkState /\ work'.views = work.views /\ work'.picked = work.picked
      /\ work'.active = work.active
  BY <1>1, <1>3 DEF BrandTypeOK, WorkState
<1>8. /\ count' \in [load : Nat, visual : Nat, changes : Nat, visits : Nat, given : BOOLEAN]
      /\ count'.changes = count.changes /\ count'.visits = count.visits
  <2> DEFINE n == count.visual + 1
  <2>1. n \in Nat
    BY <1>1 DEF BrandTypeOK
  <2>2. count' = count \/ count' = [count EXCEPT !.visual = n]
    BY <1>3
  <2> HIDE DEF n
  <2> QED BY <1>1, <2>1, <2>2 DEF BrandTypeOK
<1>9. BrandTypeOK'
  BY <1>1, <1>2, <1>6, <1>7, <1>8 DEF BrandTypeOK
<1>10. NumbersInOrder'
  BY <1>1, <1>2, <1>7, <1>8 DEF NumbersInOrder
<1>11. ReadsInOrder' /\ PlansInOrder' /\ NothingOfTheNext'
  BY <1>1, <1>2, <1>6, <1>8, ReadsStay
<1>12. DataInOrder' /\ PicksInOrder'
  BY <1>1, <1>2, <1>7, <1>9, ViewsStay
<1> QED BY <1>9, <1>10, <1>11, <1>12 DEF BrandInv

\* The view is read again, for the identity the plan was applied under.
LEMMA ReconciledKeeps ==
  ASSUME BrandInv, Brand!Reconciled
  PROVE  BrandInv'
<1>1. /\ BrandTypeOK /\ NumbersInOrder /\ ReadsInOrder /\ PlansInOrder /\ NothingOfTheNext
      /\ DataInOrder /\ PicksInOrder
  BY DEF BrandInv
<1>2. UNCHANGED <<app, seen>>
  BY DEF Brand!Reconciled
<1>3. PICK plan \in applies :
        /\ applies' = applies \ {plan}
        /\ \/ Brand!RunLoad(plan.identity, plan.page, work, reads)
           \/ UNCHANGED <<work, reads, count>>
  BY DEF Brand!Reconciled
<1>4. /\ plan.identity \in LoadIdentities /\ plan.page \in Nat /\ work \in WorkState
      /\ reads \in SUBSET ReadState
      /\ count \in [load : Nat, visual : Nat, changes : Nat, visits : Nat, given : BOOLEAN]
  BY <1>1 DEF BrandTypeOK, PlanState
<1>5. /\ work' \in WorkState /\ work'.active = work.active /\ work'.picked = work.picked
      /\ \A v \in Brand!Views :
           /\ work'.views[v].data = work.views[v].data
           /\ work.views[v].loading => work'.views[v].loading
      /\ reads' \in SUBSET ReadState
      /\ \A r \in reads' : r \in reads \/ (r.identity = plan.identity /\ r.kind = "view")
      /\ count' \in [load : Nat, visual : Nat, changes : Nat, visits : Nat, given : BOOLEAN]
      /\ count'.changes = count.changes /\ count'.visits = count.visits
  <2>1. CASE Brand!RunLoad(plan.identity, plan.page, work, reads)
    BY <1>1, <1>4, <2>1, RunLoadMoves
  <2>2. CASE UNCHANGED <<work, reads, count>>
    BY <1>4, <2>2
  <2> QED BY <1>3, <2>1, <2>2
<1>6. BrandTypeOK'
  BY <1>1, <1>2, <1>3, <1>5 DEF BrandTypeOK
<1>7. NumbersInOrder'
  BY <1>1, <1>2, <1>5 DEF NumbersInOrder
<1>8. \A r \in reads' :
        \/ r \in reads
        \/ /\ Asked(r.identity) /\ r.kind # "profile"
           /\ SameSources(r.identity, app) => SameSources(seen.load, app)
  BY <1>1, <1>5 DEF PlansInOrder, NothingOfTheNext
<1>9. ReadsInOrder' /\ PlansInOrder' /\ NothingOfTheNext'
  <2>1. \A p \in applies' : \E q \in applies : q.identity = p.identity
    BY <1>3
  <2> QED BY <1>1, <1>2, <1>5, <1>8, <2>1, ReadsStay
<1>10. DataInOrder' /\ PicksInOrder'
  BY <1>1, <1>2, <1>5, <1>6, ViewsStay
<1> QED BY <1>6, <1>7, <1>9, <1>10 DEF BrandInv

LEMMA BrandInvNext ==
  ASSUME NoneIsNoNumber, BrandInv, Brand!Next
  PROVE  BrandInv'
<1>1. CASE Brand!User
  BY <1>1, VisitKeeps, SelectKeeps, PickKeeps, TurnKeeps, SelectProfileKeeps, DrawingKeeps,
     ApplyKeeps
  DEF Brand!User
<1>2. CASE Brand!Continue
  BY <1>2, BrandEffectsKeep, AnsweredKeeps, ReconcileKeeps, ReconciledKeeps, DrawingKeeps
  DEF Brand!Continue
<1>3. CASE Brand!Change
  BY <1>3, ChangeKeeps
<1> QED BY <1>1, <1>2, <1>3 DEF Brand!Next

LEMMA BrandInvStep ==
  ASSUME NoneIsNoNumber, BrandInv, [Next]_vars
  PROVE  BrandInv'
<1>1. CASE InBrand(Brand!Next)
  BY <1>1, BrandInvNext DEF InBrand
<1>2. CASE ~InBrand(Brand!Next)
  <2>1. UNCHANGED <<app, work, seen, reads, applies, count>>
    BY <1>2 DEF Next, InVector, InTheme, InExchange, vars, brandVars
  <2> QED
    BY <2>1
    DEF BrandInv, BrandTypeOK, NumbersInOrder, ReadsInOrder, PlansInOrder, NothingOfTheNext,
        DataInOrder, PicksInOrder, Asked, ReadFor, SameSources, Brand!LoadIdentity
<1> QED BY <1>1, <1>2

LEMMA BrandInvHolds ==
  ASSUME NoneIsNoNumber
  PROVE  Spec => []BrandInv
<1>1. Init => BrandInv
  BY BrandInvInit DEF Init
<1> QED BY <1>1, BrandInvStep, PTL DEF Spec

LEMMA ViewOfNow ==
  ASSUME BrandInv
  PROVE  Brand!ViewIsCurrent
<1> SUFFICES ASSUME ~Brand!Due, ~Brand!Current.loading, Brand!Current.data # None,
                    NEW read \in {Brand!Current.data.of, Brand!Current.data.profile} \ {None}
             PROVE  Brand!Relevant(read) = Brand!Relevant(Brand!LoadIdentity)
  BY DEF Brand!ViewIsCurrent
<1>1. BrandTypeOK /\ PicksInOrder /\ seen.load = Brand!LoadIdentity
  BY NotDue DEF BrandInv
<1> DEFINE data == Brand!Current.data
           now == Brand!LoadIdentity
<1>2. /\ now \in LoadIdentities /\ now.view = work.active /\ now.picked = work.picked
      /\ now.ready = app.ready /\ app.ready \in BOOLEAN
  BY <1>1, IdentityOfNow DEF BrandTypeOK
<1>3. app.ready /\ ReadFor(data, work.active, now)
  BY DataIsAsked
<1>4. data \in DataState /\ work.active \in Brand!Views
  BY <1>1 DEF BrandTypeOK, WorkState, ViewState, Brand!Current
<1>5. read \in LoadIdentities
  BY <1>4 DEF DataState
<1>6. read.view = now.view /\ SameSources(read, now) /\ read.ready
  BY <1>2, <1>3 DEF ReadFor, SameSources
<1>7. read.ready = TRUE /\ now.ready = TRUE
  <2>1. read.ready \in BOOLEAN
    BY <1>5 DEF LoadIdentities
  <2> QED BY <1>2, <1>3, <1>6, <2>1
<1>8. now.view = "consumer" => read.picked = now.picked
  BY <1>1, <1>2, <1>3 DEF PicksInOrder, ReadFor, Brand!Current
<1> HIDE DEF now
<1>9. CASE now.view = "consumer"
  <2>1. read = now
    BY <1>2, <1>5, <1>6, <1>7, <1>8, <1>9 DEF LoadIdentities, SameSources
  <2> QED BY <2>1 DEF now
<1>10. CASE now.view # "consumer"
  <2>1. [read EXCEPT !.picked = 0] = [now EXCEPT !.picked = 0]
    BY <1>2, <1>5, <1>6, <1>7 DEF LoadIdentities, SameSources
  <2> QED BY <1>6, <1>10, <2>1 DEF Brand!Relevant, now
<1> QED BY <1>9, <1>10

-----------------------------------------------------------------------------
\* What is drawn.  A call that renderVisual gave the number of now is for what the effects
\* last ran for, and no other call has its number.

DrawShape(d) ==
  d = [seq |-> d.seq, identity |-> d.identity, stage |-> d.stage, urls |-> d.urls]

DrawsInOrder ==
  /\ count.visual \in Nat
  /\ \A d \in draws :
       /\ DrawShape(d) /\ d.seq \in Nat /\ d.seq <= count.visual
       /\ d.seq = count.visual => d.identity = seen.visual
       /\ d.stage = "asked" => d.urls = {}
  /\ \A d, e \in draws : d.seq = e.seq => d = e

\* A picture is not none.
NoneIsNoPicture == \A i, u : None # [identity |-> i, urls |-> u]

PictureInOrder ==
  /\ picture = [shown |-> picture.shown, loading |-> picture.loading]
  /\ picture.shown # None => picture.shown.identity = seen.visual

MadeUrls == UNION {draw.urls : draw \in draws}

\* Once the evidence has come, what was shown before is revoked.
ShownIsRevoked ==
  \A d \in draws :
    d.stage = "making" /\ d.seq = count.visual => live \subseteq MadeUrls

PictureInv == DrawsInOrder /\ PictureInOrder /\ ShownIsRevoked /\ Brand!NoUrlLeaks

LEMMA UrlsOfDraws ==
  /\ \A e \in draws : e.urls \subseteq MadeUrls
  /\ \A e \in draws' : e.urls \subseteq MadeUrls'
  /\ \A s : (\A e \in draws : e.urls \subseteq s) => MadeUrls \subseteq s
BY DEF MadeUrls

LEMMA UrlsOfOthers ==
  ASSUME NEW d \in draws, draws' = draws \ {d}
  PROVE  MadeUrls \subseteq MadeUrls' \cup d.urls
<1>1. \A e \in draws : e = d \/ e \in draws'
  OBVIOUS
<1>2. \A e \in draws : e.urls \subseteq MadeUrls' \cup d.urls
  BY <1>1, UrlsOfDraws
<1> QED BY <1>2, UrlsOfDraws

LEMMA PictureInvInit ==
  ASSUME Brand!Init
  PROVE  PictureInv
<1>1. /\ picture = [shown |-> None, loading |-> FALSE] /\ draws = {} /\ live = {}
      /\ count.visual = 0
  BY DEF Brand!Init, Brand!NoPicture
<1>2. DrawsInOrder /\ ShownIsRevoked /\ Brand!NoUrlLeaks
  BY <1>1 DEF DrawsInOrder, ShownIsRevoked, MadeUrls, Brand!NoUrlLeaks
<1>3. PictureInOrder
  BY <1>1 DEF PictureInOrder
<1> QED BY <1>2, <1>3 DEF PictureInv

\* The picture and what is being drawn do not move.
LEMMA PictureStays ==
  ASSUME PictureInv, UNCHANGED <<picture, draws, live>>, seen'.visual = seen.visual,
         count'.visual = count.visual
  PROVE  PictureInv'
<1>1. DrawsInOrder'
  BY DEF PictureInv, DrawsInOrder, DrawShape
<1>2. PictureInOrder' /\ ShownIsRevoked' /\ Brand!NoUrlLeaks'
  BY DEF PictureInv, PictureInOrder, ShownIsRevoked, MadeUrls, Brand!NoUrlLeaks
<1> QED BY <1>1, <1>2 DEF PictureInv

\* What was shown is given up, and the calls under way with it.
LEMMA PictureGivenUp ==
  ASSUME PictureInv, picture' = Brand!NoPicture, live' = {}, draws' = draws,
         count'.visual = count.visual + 1
  PROVE  PictureInv'
<1>1. DrawsInOrder
  BY DEF PictureInv
<1>2. /\ count.visual \in Nat /\ count'.visual \in Nat
      /\ \A d \in draws : d.seq <= count'.visual /\ d.seq # count'.visual
  BY <1>1 DEF DrawsInOrder
<1>3. DrawsInOrder'
  BY <1>1, <1>2 DEF DrawsInOrder, DrawShape
<1>4. picture'.shown = None /\ picture' = [shown |-> None, loading |-> FALSE]
  BY DEF Brand!NoPicture
<1>5. PictureInOrder'
  BY <1>4 DEF PictureInOrder
<1>6. ShownIsRevoked' /\ Brand!NoUrlLeaks'
  BY <1>4 DEF ShownIsRevoked, MadeUrls, Brand!NoUrlLeaks
<1> QED BY <1>3, <1>5, <1>6 DEF PictureInv

\* A call of renderVisual ends, and the URLs left are of others or on the page.
LEMMA DrawEnds ==
  ASSUME PictureInv, NEW d \in draws, draws' = draws \ {d}, count' = count, seen' = seen,
         picture' = picture \/ picture' = [picture EXCEPT !.loading = FALSE],
         live' \subseteq live \ d.urls
  PROVE  PictureInv'
<1>1. DrawsInOrder /\ PictureInOrder /\ ShownIsRevoked /\ Brand!NoUrlLeaks
  BY DEF PictureInv
<1>2. DrawsInOrder'
  BY <1>1 DEF DrawsInOrder, DrawShape
<1>3. /\ picture'.shown = picture.shown
      /\ picture' = [shown |-> picture'.shown, loading |-> picture'.loading]
  BY <1>1 DEF PictureInOrder
<1>4. PictureInOrder'
  BY <1>1, <1>3 DEF PictureInOrder
<1>5. MadeUrls \subseteq MadeUrls' \cup d.urls
  BY UrlsOfOthers
<1>6. ShownIsRevoked'
  BY <1>1, <1>5 DEF ShownIsRevoked
<1>7. Brand!NoUrlLeaks'
  BY <1>1, <1>3, <1>5 DEF MadeUrls, Brand!NoUrlLeaks
<1> QED BY <1>2, <1>4, <1>6, <1>7 DEF PictureInv

\* A call of renderVisual goes on: it has more URLs.
LEMMA DrawGoesOn ==
  ASSUME PictureInv, NEW d \in draws, NEW us, d.urls \subseteq us,
         draws' = (draws \ {d})
                  \cup {[seq |-> d.seq, identity |-> d.identity, stage |-> "making", urls |-> us]},
         count' = count, seen' = seen, picture' = picture,
         live' = {} \/ (live' = live \cup (us \ d.urls) /\ d.stage = "making")
  PROVE  PictureInv'
<1>1. DrawsInOrder /\ PictureInOrder /\ ShownIsRevoked /\ Brand!NoUrlLeaks
  BY DEF PictureInv
<1> DEFINE k == [seq |-> d.seq, identity |-> d.identity, stage |-> "making", urls |-> us]
<1>2. /\ k.seq = d.seq /\ k.identity = d.identity /\ k.stage = "making" /\ k.urls = us
      /\ DrawShape(k) /\ draws' = (draws \ {d}) \cup {k}
  BY DEF DrawShape
<1> HIDE DEF k
<1>3. DrawsInOrder'
  <2>1. \A e \in draws' : e = k \/ (e \in draws /\ e # d)
    BY <1>2
  <2>2. \A e \in draws' :
          /\ DrawShape(e) /\ e.seq \in Nat /\ e.seq <= count.visual
          /\ e.seq = count.visual => e.identity = seen.visual
          /\ e.stage = "asked" => e.urls = {}
    BY <1>1, <1>2, <2>1 DEF DrawsInOrder
  <2>3. \A e, f \in draws' : e.seq = f.seq => e = f
    BY <1>1, <1>2, <2>1 DEF DrawsInOrder
  <2> QED BY <1>1, <2>2, <2>3 DEF DrawsInOrder, DrawShape
<1>4. PictureInOrder'
  BY <1>1 DEF PictureInOrder
<1>5. /\ MadeUrls \subseteq MadeUrls'
      /\ us \subseteq MadeUrls'
  <2>1. k \in draws' /\ \A e \in draws : e = d \/ e \in draws'
    BY <1>2
  <2>2. us \subseteq MadeUrls'
    BY <1>2, <2>1, UrlsOfDraws
  <2>3. \A e \in draws : e.urls \subseteq MadeUrls'
    BY <2>1, <2>2, UrlsOfDraws
  <2> QED BY <2>2, <2>3, UrlsOfDraws
<1>6. ShownIsRevoked'
  <2> SUFFICES ASSUME NEW e \in draws', e.stage = "making", e.seq = count.visual, live' # {}
               PROVE  live' \subseteq MadeUrls'
    BY DEF ShownIsRevoked
  <2>1. live' = live \cup (us \ d.urls) /\ d.stage = "making"
    OBVIOUS
  <2>2. live \subseteq MadeUrls
    BY <1>1, <1>2, <2>1 DEF ShownIsRevoked
  <2> QED BY <1>5, <2>1, <2>2
<1>7. Brand!NoUrlLeaks'
  BY <1>1, <1>5 DEF MadeUrls, Brand!NoUrlLeaks
<1> QED BY <1>3, <1>4, <1>6, <1>7 DEF PictureInv

\* A visual is shown: nothing is alive but its URLs and those of other calls.
LEMMA DrawIsShown ==
  ASSUME NoneIsNoPicture, PictureInv, NEW d \in draws, d.stage = "making",
         Brand!IsCurrentDraw(d), NEW us, d.urls \subseteq us,
         draws' = draws \ {d}, count' = count, seen' = seen,
         picture' = [shown |-> [identity |-> d.identity, urls |-> us], loading |-> FALSE],
         live' = live \cup (us \ d.urls)
  PROVE  PictureInv'
<1>1. DrawsInOrder /\ PictureInOrder /\ ShownIsRevoked /\ d.seq = count.visual
  BY DEF PictureInv, Brand!IsCurrentDraw
<1>2. DrawsInOrder'
  BY <1>1 DEF DrawsInOrder, DrawShape
<1>3. /\ picture'.shown = [identity |-> d.identity, urls |-> us] /\ picture'.shown # None
      /\ picture'.shown.identity = d.identity /\ picture'.shown.urls = us
      /\ picture' = [shown |-> picture'.shown, loading |-> picture'.loading]
  BY DEF NoneIsNoPicture
<1>4. PictureInOrder'
  BY <1>1, <1>3 DEF PictureInOrder, DrawsInOrder
<1>5. ShownIsRevoked'
  BY <1>1 DEF ShownIsRevoked, DrawsInOrder
<1>6. live \subseteq MadeUrls' \cup d.urls
  <2>1. live \subseteq MadeUrls
    BY <1>1 DEF ShownIsRevoked
  <2> QED BY <2>1, UrlsOfOthers
<1>7. Brand!NoUrlLeaks'
  <2>1. live' \subseteq us \cup MadeUrls'
    <3> SUFFICES ASSUME NEW x \in live', x \notin us
                 PROVE  x \in MadeUrls'
      OBVIOUS
    <3>1. x \in live /\ x \notin d.urls
      OBVIOUS
    <3> QED BY <1>6, <3>1
  <2> QED BY <1>3, <2>1 DEF MadeUrls, Brand!NoUrlLeaks
<1> QED BY <1>2, <1>4, <1>5, <1>7 DEF PictureInv

\* What the user and the props do leaves the picture as it is.
LEMMA PictureOutOfIt ==
  ASSUME BrandTypeOK, PictureInv,
         \/ \E v \in Brand!Views : Brand!Visit(v)
         \/ Brand!Select \/ Brand!Pick \/ Brand!Turn \/ Brand!SelectProfile \/ Brand!Apply
         \/ Brand!Change
  PROVE  PictureInv'
<1>1. UNCHANGED <<seen, picture, draws, live>>
  BY DEF Brand!Visit, Brand!Select, Brand!Pick, Brand!Turn, Brand!SelectProfile, Brand!Apply,
     Brand!Change
<1>2. count'.visual = count.visual
  <2>1. ASSUME NEW a \in {0, 1}, Brand!Visiting(a, 0)
        PROVE  count'.visual = count.visual
    <3>1. a \in Nat /\ count.visual \in Nat
      BY DEF BrandTypeOK
    <3>2. count'.visual = count.visual + 0
      BY <2>1, <3>1, VisitingMoves
    <3> QED BY <3>1, <3>2
  <2>2. CASE \E a \in {0, 1} : Brand!Visiting(a, 0)
    BY <2>1, <2>2
  <2>3. CASE Brand!Select
    BY <2>3 DEF Brand!Select
  <2>4. CASE Brand!Change
    <3>1. count' = [count EXCEPT !.changes = count.changes + 1]
      BY <2>4 DEF Brand!Change
    <3> QED BY <3>1 DEF BrandTypeOK
  <2> QED BY <2>2, <2>3, <2>4 DEF Brand!Visit, Brand!Pick, Brand!Turn, Brand!SelectProfile,
          Brand!Apply
<1> QED BY <1>1, <1>2, PictureStays

\* Nor do the reads of a view.
LEMMA PictureAndReads ==
  ASSUME BrandTypeOK, PictureInv, Brand!Answered \/ Brand!Reconciled
  PROVE  PictureInv'
<1>1. UNCHANGED <<seen, picture, draws, live>>
  BY DEF Brand!Answered, Brand!Reconciled
<1>2. ASSUME NEW i \in LoadIdentities, NEW p \in Nat, NEW pending \in SUBSET ReadState,
             Brand!RunLoad(i, p, work, pending)
      PROVE  count'.visual = count.visual
  <2>1. work \in WorkState
    BY DEF BrandTypeOK
  <2> QED BY <1>2, <2>1, RunLoadMoves
<1>3. CASE Brand!Answered
  <2>1. PICK read \in reads :
          \/ UNCHANGED count
          \/ Brand!RunLoad(read.identity, 1, work, reads \ {read})
          \/ count' = [count EXCEPT !.given = TRUE]
    BY <1>3 DEF Brand!Answered
  <2>2. read.identity \in LoadIdentities /\ reads \ {read} \in SUBSET ReadState
    BY DEF BrandTypeOK, ReadState
  <2>3. count' = [count EXCEPT !.given = TRUE] => count'.visual = count.visual
    BY DEF BrandTypeOK
  <2> QED BY <1>1, <1>2, <2>1, <2>2, <2>3, PictureStays
<1>4. CASE Brand!Reconciled
  <2>1. PICK plan \in applies :
          \/ UNCHANGED count
          \/ Brand!RunLoad(plan.identity, plan.page, work, reads)
    BY <1>4 DEF Brand!Reconciled
  <2>2. plan.identity \in LoadIdentities /\ plan.page \in Nat /\ reads \in SUBSET ReadState
    BY DEF BrandTypeOK, PlanState
  <2> QED BY <1>1, <1>2, <2>1, <2>2, PictureStays
<1> QED BY <1>3, <1>4

LEMMA EffectsKeepPicture ==
  ASSUME BrandTypeOK, PictureInv, Brand!Effects
  PROVE  PictureInv'
<1> DEFINE n == IF seen.load # Brand!LoadIdentity /\ app.ready /\ app.project # None
                THEN count.load + 1 ELSE count.load
           drawn == seen.visual # Brand!VisualIdentity
           m == IF drawn THEN count.visual + 1 ELSE count.visual
<1>1. /\ count' = [count EXCEPT !.load = n, !.visual = m] /\ draws' = draws
      /\ picture' = IF drawn THEN Brand!NoPicture ELSE picture
      /\ live' = IF drawn THEN {} ELSE live
      /\ seen' = [load |-> Brand!LoadIdentity, visual |-> Brand!VisualIdentity]
  BY DEF Brand!Effects
<1>2. n \in Nat /\ m \in Nat
  BY DEF BrandTypeOK
<1> HIDE DEF n
<1>3. count'.visual = m
  <2> HIDE DEF m
  <2> QED BY <1>1, <1>2 DEF BrandTypeOK
<1>4. CASE drawn
  BY <1>1, <1>3, <1>4, PictureGivenUp
<1>5. CASE ~drawn
  <2>1. seen'.visual = seen.visual
    BY <1>1, <1>5
  <2> QED BY <1>1, <1>3, <1>5, <2>1, PictureStays
<1> QED BY <1>4, <1>5

LEMMA ReconcileKeepsPicture ==
  ASSUME BrandTypeOK, PictureInv, Brand!Reconcile
  PROVE  PictureInv'
<1>1. UNCHANGED <<seen, draws>>
  BY DEF Brand!Reconcile
<1>2. \/ /\ picture' = Brand!NoPicture /\ live' = {}
         /\ count' = [count EXCEPT !.visual = count.visual + 1]
      \/ UNCHANGED <<picture, live, count>>
  BY DEF Brand!Reconcile
<1>3. CASE UNCHANGED <<picture, live, count>>
  BY <1>1, <1>3, PictureStays
<1>4. CASE /\ picture' = Brand!NoPicture /\ live' = {}
           /\ count' = [count EXCEPT !.visual = count.visual + 1]
  <2>1. count'.visual = count.visual + 1
    <3> DEFINE n == count.visual + 1
    <3>1. count' = [count EXCEPT !.visual = n]
      BY <1>4
    <3> HIDE DEF n
    <3>2. count'.visual = n
      BY <3>1 DEF BrandTypeOK
    <3> QED BY <3>2 DEF n
  <2> QED BY <1>1, <1>4, <2>1, PictureGivenUp
<1> QED BY <1>2, <1>3, <1>4

\* Nothing that was asked for before has the number of a new call.
LEMMA RenderVisualKeepsPicture ==
  ASSUME BrandTypeOK, PictureInv, Brand!RenderVisual
  PROVE  PictureInv'
<1> DEFINE d == [seq |-> count.visual + 1, identity |-> Brand!VisualIdentity,
                 stage |-> "asked", urls |-> {}]
<1>1. /\ UNCHANGED <<seen, live>> /\ draws' = draws \cup {d} /\ ~Brand!Due
      /\ picture' = [picture EXCEPT !.loading = TRUE]
  BY DEF Brand!RenderVisual, Brand!Visiting
<1>2. count'.visual = count.visual + 1
  BY VisitingMoves DEF Brand!RenderVisual
<1>3. DrawsInOrder /\ PictureInOrder /\ ShownIsRevoked /\ Brand!NoUrlLeaks
  BY DEF PictureInv
<1>4. /\ d.seq = count'.visual /\ d.identity = seen.visual /\ d.stage = "asked" /\ d.urls = {}
      /\ DrawShape(d)
  BY <1>1, <1>2, NotDue DEF DrawShape
<1> HIDE DEF d
<1>5. /\ count.visual \in Nat /\ count'.visual \in Nat /\ d.seq <= count'.visual
      /\ \A e \in draws : e.seq <= count'.visual /\ e.seq # count'.visual
  BY <1>2, <1>3, <1>4 DEF DrawsInOrder
<1>6. DrawsInOrder'
  <2>1. \A e \in draws' : e = d \/ e \in draws
    BY <1>1
  <2>2. \A e \in draws' :
          /\ DrawShape(e) /\ e.seq \in Nat /\ e.seq <= count'.visual
          /\ e.seq = count'.visual => e.identity = seen'.visual
          /\ e.stage = "asked" => e.urls = {}
    BY <1>1, <1>3, <1>4, <1>5, <2>1 DEF DrawsInOrder
  <2>3. \A e, f \in draws' : e.seq = f.seq => e = f
    BY <1>3, <1>4, <1>5, <2>1 DEF DrawsInOrder
  <2> QED BY <1>5, <2>2, <2>3 DEF DrawsInOrder, DrawShape
<1>7. /\ picture'.shown = picture.shown
      /\ picture' = [shown |-> picture'.shown, loading |-> picture'.loading]
  BY <1>1, <1>3 DEF PictureInOrder
<1>8. PictureInOrder'
  BY <1>1, <1>3, <1>7 DEF PictureInOrder
<1>9. ShownIsRevoked'
  BY <1>1, <1>4, <1>5 DEF ShownIsRevoked
<1>10. MadeUrls \subseteq MadeUrls'
  BY <1>1, UrlsOfDraws
<1>11. Brand!NoUrlLeaks'
  BY <1>1, <1>3, <1>7, <1>10 DEF MadeUrls, Brand!NoUrlLeaks
<1> QED BY <1>6, <1>8, <1>9, <1>11 DEF PictureInv

\* The evidence arrives: what was shown is revoked.
LEMMA DrawnKeepsPicture ==
  ASSUME PictureInv, Brand!Drawn
  PROVE  PictureInv'
<1>1. UNCHANGED <<seen, count>>
  BY DEF Brand!Drawn
<1>2. PICK d \in draws :
        /\ d.stage = "asked"
        /\ \/ /\ draws' = (draws \ {d}) \cup {[d EXCEPT !.stage = "making"]}
              /\ live' = {} /\ UNCHANGED picture
           \/ draws' = draws \ {d} /\ picture' = Brand!Ended(d) /\ UNCHANGED live
  BY DEF Brand!Drawn
<1>3. DrawShape(d) /\ d.urls = {}
  BY <1>2 DEF PictureInv, DrawsInOrder
<1>4. [d EXCEPT !.stage = "making"] =
        [seq |-> d.seq, identity |-> d.identity, stage |-> "making", urls |-> d.urls]
  BY <1>3 DEF DrawShape
<1>5. CASE /\ draws' = (draws \ {d}) \cup {[d EXCEPT !.stage = "making"]}
           /\ live' = {} /\ UNCHANGED picture
  BY <1>1, <1>4, <1>5, DrawGoesOn
<1>6. CASE draws' = draws \ {d} /\ picture' = Brand!Ended(d) /\ UNCHANGED live
  BY <1>1, <1>3, <1>6, DrawEnds DEF Brand!Ended
<1> QED BY <1>2, <1>5, <1>6

LEMMA MadeKeepsPicture ==
  ASSUME NoneIsNoPicture, PictureInv, Brand!Made
  PROVE  PictureInv'
<1>1. UNCHANGED <<seen, count>>
  BY DEF Brand!Made
<1>2. PICK d, us :
        /\ d \in draws /\ d.urls \subseteq us /\ d.stage = "making"
        /\ \/ /\ draws' = (draws \ {d}) \cup {[d EXCEPT !.urls = us]}
              /\ live' = live \cup (us \ d.urls) /\ UNCHANGED picture
           \/ /\ draws' = draws \ {d}
              /\ IF Brand!IsCurrentDraw(d)
                 THEN /\ picture' = [shown |-> [identity |-> d.identity, urls |-> us],
                                     loading |-> FALSE]
                      /\ live' = live \cup (us \ d.urls)
                 ELSE live' = live \ us /\ UNCHANGED picture
           \/ draws' = draws \ {d} /\ live' = {} /\ picture' = Brand!Ended(d)
  BY DEF Brand!Made
<1>3. DrawShape(d)
  BY <1>2 DEF PictureInv, DrawsInOrder
<1>4. [d EXCEPT !.urls = us] =
        [seq |-> d.seq, identity |-> d.identity, stage |-> "making", urls |-> us]
  BY <1>2, <1>3 DEF DrawShape
<1>5. CASE /\ draws' = (draws \ {d}) \cup {[d EXCEPT !.urls = us]}
           /\ live' = live \cup (us \ d.urls) /\ UNCHANGED picture
  BY <1>1, <1>2, <1>4, <1>5, DrawGoesOn
<1>6. CASE draws' = draws \ {d} /\ live' = {} /\ picture' = Brand!Ended(d)
  BY <1>1, <1>2, <1>6, DrawEnds DEF Brand!Ended
<1>7. CASE /\ draws' = draws \ {d} /\ Brand!IsCurrentDraw(d)
           /\ picture' = [shown |-> [identity |-> d.identity, urls |-> us], loading |-> FALSE]
           /\ live' = live \cup (us \ d.urls)
  BY <1>1, <1>2, <1>7, DrawIsShown
<1>8. CASE draws' = draws \ {d} /\ live' = live \ us /\ UNCHANGED picture
  <2>1. live' \subseteq live \ d.urls
    BY <1>2, <1>8
  <2> QED BY <1>1, <1>2, <1>8, <2>1, DrawEnds
<1> QED BY <1>2, <1>5, <1>6, <1>7, <1>8

LEMMA PictureInvStep ==
  ASSUME NoneIsNoPicture, BrandInv, PictureInv, [Next]_vars
  PROVE  PictureInv'
<1>1. BrandTypeOK
  BY DEF BrandInv
<1>2. CASE InBrand(Brand!Next)
  <2>1. CASE Brand!User \/ Brand!Change
    BY <1>1, <2>1, PictureOutOfIt, RenderVisualKeepsPicture DEF Brand!User
  <2>2. CASE Brand!Continue
    BY <1>1, <2>2, EffectsKeepPicture, PictureAndReads, ReconcileKeepsPicture,
       DrawnKeepsPicture, MadeKeepsPicture
    DEF Brand!Continue
  <2> QED BY <1>2, <2>1, <2>2 DEF InBrand, Brand!Next
<1>3. CASE ~InBrand(Brand!Next)
  <2>1. UNCHANGED <<seen, picture, draws, live, count>>
    BY <1>3 DEF Next, InVector, InTheme, InExchange, vars, brandVars
  <2> QED BY <2>1, PictureStays
<1> QED BY <1>2, <1>3

LEMMA PictureInvHolds ==
  ASSUME NoneIsNoNumber, NoneIsNoPicture
  PROVE  Spec => []PictureInv
<1>1. Init => PictureInv
  BY PictureInvInit DEF Init
<1> QED BY <1>1, BrandInvHolds, PictureInvStep, PTL DEF Spec

\* Once its effects have run, the brand workbench shows data and a visual of the host, the
\* project, the sources and the selection of now, and every object URL alive is shown or has
\* a call of renderVisual that will show it or revoke it (BrandWorkbench.tsx,
\* blob-manager.ts).
THEOREM BrandShowsNow ==
  ASSUME NoneIsNoNumber, NoneIsNoPicture
  PROVE  Spec => [](Brand!ViewIsCurrent /\ Brand!VisualIsCurrent /\ Brand!NoUrlLeaks)
<1>1. PictureInv => Brand!VisualIsCurrent /\ Brand!NoUrlLeaks
  BY NotDue DEF PictureInv, PictureInOrder, Brand!VisualIsCurrent
<1> QED BY <1>1, BrandInvHolds, PictureInvHolds, ViewOfNow, PTL

-----------------------------------------------------------------------------
\* What the workbenches show is alive and of now: the picture of the vector workbench, the
\* candidates of the design exchange with their trust and its proposal, the views and the
\* visual of the brand workbench (blob-preview.ts, DesignExchange.tsx, BrandWorkbench.tsx).
THEOREM WhatIsShownIsLive ==
  ASSUME NoneIsNothing, NoneIsNoPicture
  PROVE  Spec => []ShownIsLive
<1>1. NoneIsNoNumber
  BY DEF NoneIsNothing, NoneIsNoNumber
<1>2. /\ Spec => []Vector!ShownUrlIsLive
      /\ Spec => [](Exchange!KeptUrlsAreLive /\ Exchange!TrustIsSwept
                    /\ Exchange!FormFollowsPage)
      /\ Spec => [](Brand!ViewIsCurrent /\ Brand!VisualIsCurrent /\ Brand!NoUrlLeaks)
  BY <1>1, VectorPictureIsLive, ExchangeIsShownTrue, BrandShowsNow
<1> QED BY <1>2, PTL DEF ShownIsLive
=============================================================================
