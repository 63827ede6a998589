-------------------------- MODULE EngineRunnerProofs --------------------------
(***************************************************************************)
(* Proofs about EngineRunner, for any number of calls and cancellations.   *)
(* One call at a time has the slot, and only it has a process and the      *)
(* registered token.  A cancellation of the scene moves the epoch on first *)
(* and the token after that, so a call that it finds without a process     *)
(* meets either of them before it starts one.                              *)
(***************************************************************************)
EXTENDS EngineRunner, TLAPS

Queueing == {"queue", "wait", "woken"}
Registered == {"recheck", "start", "poll", "look", "join", "clear"}
Holding == Registered \cup {"register", "release"}
Early == {"idle", "check", "signal", "unpend", "queue"}
BeforeStart == {"check", "queue", "wait", "woken", "register", "recheck"}

\* Which calls there are in which runner, and what their fields hold.
CallShape ==
  /\ DOMAIN req = Requests
  /\ \A r \in Requests :
       /\ DOMAIN req[r] = {"pc", "ticket", "epoch", "token", "child", "cut", "answer"}
       /\ req[r].epoch \in Nat
       /\ req[r].pc \in Early => req[r].ticket = None
       /\ req[r].pc \in {"wait", "woken"} => req[r].ticket \in Nat

SlotShape ==
  /\ DOMAIN slot = {"active", "pending", "next", "registered", "epoch", "unavailable",
                    "serving", "cutoff"}
  /\ slot.next \in Nat /\ slot.epoch \in Nat /\ slot.cutoff \in Nat

StopShape ==
  /\ DOMAIN stop = {"pc", "close", "n", "seen"}
  /\ stop.n \in Nat /\ stop.seen \subseteq Requests

Kinds ==
  /\ kind \in {"scene", "theme", "document"}
  /\ \A r \in Requests :
       /\ req[r].pc \in Early \cup {"wait", "woken", "done"} \cup Holding
       /\ req[r].pc \in {"check", "recheck"} => kind = "scene"
       /\ req[r].pc \in {"signal", "unpend"} => kind = "theme"
       /\ req[r].pc \in {"register", "release"} => kind # "document"
  /\ stop.pc \in {"unavailable", "bump", "drain", "closed"} => kind = "scene"
  /\ stop.pc = "documents" => kind = "document"
  /\ stop.seen # {} => kind = "scene"
  /\ stop.pc \in {"unavailable", "drain", "closed"} => stop.close

RunnerShape == CallShape /\ SlotShape /\ StopShape /\ Kinds

\* One call has the slot, the token that is registered and the process.
HolderIsActive == \A r \in Requests : req[r].pc \in Holding => slot.active
OneAtATime == \A r, q \in Requests : req[r].pc \in Holding /\ req[q].pc \in Holding => r = q
HolderIsRegistered == \A r \in Requests : req[r].pc \in Registered => slot.registered = r
RegisteredHolds ==
  slot.registered # None =>
    slot.registered \in Requests /\ req[slot.registered].pc \in Registered
TokenIsHeld == \A r \in Requests : req[r].token => req[r].pc \in Registered \cup {"release"}
ChildIsHeld == \A r \in Requests : req[r].child # "none" => req[r].pc \in {"poll", "look", "join"}

OneHolder == /\ HolderIsActive /\ OneAtATime /\ HolderIsRegistered /\ RegisteredHolds
             /\ TokenIsHeld /\ ChildIsHeld

\* A close refuses new calls first and outdates the earlier ones after that.
EpochsPast == \A r \in Requests : req[r].epoch <= slot.epoch
ClosingRefuses ==
  stop.close /\ stop.pc \in {"bump", "token", "pending", "drain", "closed"} =>
    slot.unavailable /\ kind = "scene"
ClosingOutdates ==
  stop.close /\ stop.pc \in {"token", "pending", "drain", "closed"} =>
    \A r \in Requests : req[r].pc \in Queueing => req[r].epoch < slot.epoch
ClosedIsFree == stop.pc = "closed" => ~slot.active

Closing == EpochsPast /\ ClosingRefuses /\ ClosingOutdates /\ ClosedIsFree

\* Where a call stands that can no longer deliver.
Lost(r) ==
  /\ kind # "theme" /\ req[r].answer # "ok"
  /\ req[r].pc \in BeforeStart \cup {"start", "clear", "release", "done"}
  /\ req[r].pc = "start" => req[r].token
  /\ kind = "scene" /\ req[r].pc \in BeforeStart => req[r].epoch < slot.epoch
  /\ kind = "document" =>
       /\ req[r].pc \in {"wait", "woken", "start", "clear", "done"}
       /\ req[r].pc \in {"wait", "woken"} => req[r].ticket < slot.cutoff

CutIsLost == \A r \in Requests : req[r].cut => Lost(r)
NoAnswerYet ==
  \A r \in Requests :
    req[r].pc \in Early \cup BeforeStart \cup {"start", "poll", "look"} => req[r].answer = "none"
JoinFails == \A r \in Requests : req[r].pc = "join" => req[r].answer # "ok"

\* A cancellation of the scene outdates the calls it saw and sets the token of the one that
\* is past the last look at the epoch.
SeenIsOutdated ==
  stop.pc \in {"token", "pending"} =>
    \A r \in stop.seen :
      /\ req[r].pc # "idle"
      /\ req[r].pc \in BeforeStart => req[r].epoch < slot.epoch
SeenHasToken ==
  stop.pc = "pending" => \A r \in stop.seen : req[r].pc = "start" => req[r].token

CutOffs == CutIsLost /\ NoAnswerYet /\ JoinFails /\ SeenIsOutdated /\ SeenHasToken

\* Without a stop: the last ticket is the one that waits, and only a later call of the theme
\* may set the token of an earlier one or empty the place.
Follower(places) == \E s \in Requests : req[s].pc \in places

LastTicket(r) == req[r].ticket # None /\ req[r].ticket + 1 = slot.next

NotLost(r) ==
  /\ req[r].epoch = 0
  /\ kind # "theme" => ~req[r].token
  /\ kind = "document" => req[r].answer # "cancelled"
  /\ LastTicket(r) =>
       /\ req[r].token => Follower({"unpend", "queue"})
       /\ req[r].answer = "cancelled" => Follower({"unpend", "queue"})
       /\ req[r].pc \in {"wait", "woken"} /\ kind # "document" =>
            slot.pending = req[r].ticket \/ Follower({"queue"})

Undisturbed ==
  stop.n = 0 =>
    /\ slot.epoch = 0 /\ slot.cutoff = 0 /\ stop.pc = "idle"
    /\ \A r \in Requests : NotLost(r)

\* Tickets are handed out once.
Numbered ==
  \A r \in Requests :
    req[r].ticket # None => req[r].ticket \in Nat /\ req[r].ticket < slot.next
OwnTicket ==
  \A r, q \in Requests : req[r].ticket # None /\ req[r].ticket = req[q].ticket => r = q

Tickets == Numbered /\ OwnTicket

RunnerInv == RunnerShape /\ OneHolder /\ Closing /\ CutOffs /\ Tickets /\ Undisturbed
-----------------------------------------------------------------------------
\* What a step leaves of the calls that do not make it: they may only be woken.
Kept(q) ==
  /\ req'[q].ticket = req[q].ticket /\ req'[q].epoch = req[q].epoch
  /\ req'[q].token = req[q].token /\ req'[q].child = req[q].child
  /\ req'[q].cut = req[q].cut /\ req'[q].answer = req[q].answer
  /\ req'[q].pc = req[q].pc \/ (req[q].pc = "wait" /\ req'[q].pc = "woken")

\* The calls with their fields.
Fields == {"pc", "ticket", "epoch", "token", "child", "cut", "answer"}
Domains(q) == DOMAIN q = Requests /\ \A r \in Requests : DOMAIN q[r] = Fields

\* RunnerAssumption, where a lemma needs it.
NamesApart == None \notin Nat /\ MaxCalls \in Nat

\* The token of o is set if it is the registered one.
TokenSet(o, q) ==
  /\ \A f \in Fields \ {"token"} : q[o][f] = req[o][f]
  /\ q[o].token <=> req[o].token \/ slot.registered = o

\* The same for a step.
Signalled(q) ==
  /\ req'[q].ticket = req[q].ticket /\ req'[q].epoch = req[q].epoch /\ req'[q].pc = req[q].pc
  /\ req'[q].child = req[q].child /\ req'[q].cut = req[q].cut /\ req'[q].answer = req[q].answer
  /\ req'[q].token <=> req[q].token \/ slot.registered = q

\* What a cancellation leaves of a call that it may cut off, without and with the token.
CutKept(q) ==
  /\ req'[q].ticket = req[q].ticket /\ req'[q].epoch = req[q].epoch
  /\ req'[q].token = req[q].token /\ req'[q].child = req[q].child
  /\ req'[q].answer = req[q].answer
  /\ req'[q].pc = req[q].pc \/ (req[q].pc = "wait" /\ req'[q].pc = "woken")

CutKeptSignalled(q) ==
  /\ req'[q].ticket = req[q].ticket /\ req'[q].epoch = req[q].epoch
  /\ req'[q].child = req[q].child /\ req'[q].answer = req[q].answer
  /\ req'[q].token <=> req[q].token \/ slot.registered = q
  /\ req'[q].pc = req[q].pc \/ (req[q].pc = "wait" /\ req'[q].pc = "woken")

-----------------------------------------------------------------------------
(* What the helpers change, field by field.                                *)

LEMMA SetTokenEffect ==
  ASSUME NamesApart, RunnerInv, Domains(req)
  PROVE  /\ Domains(SetToken(req))
         /\ \A o \in Requests : TokenSet(o, SetToken(req))
         /\ \A o \in Requests : slot.registered # o => SetToken(req)[o] = req[o]
<1>1. CASE slot.registered = None
  <2>1. SetToken(req) = req
    BY <1>1 DEF SetToken
  <2>2. None \notin Requests
    BY DEF NamesApart, Requests
  <2> QED BY <1>1, <2>1, <2>2 DEF TokenSet
<1>2. CASE slot.registered # None
  <2>1. slot.registered \in Requests
    BY <1>2 DEF RunnerInv, OneHolder, RegisteredHolds
  <2>2. PICK h \in Requests : h = slot.registered
    BY <2>1
  <2>3. SetToken(req) = [req EXCEPT ![h].token = TRUE]
    BY <1>2, <2>2 DEF SetToken
  <2>4. Domains([req EXCEPT ![h].token = TRUE])
    BY DEF Domains, Fields
  <2>5. \A o \in Requests : h # o => [req EXCEPT ![h].token = TRUE][o] = req[o]
    BY DEF Domains
  <2>6. [req EXCEPT ![h].token = TRUE][h].token
    BY Zenon DEF Domains, Fields
  <2>7. \A f \in Fields \ {"token"} : [req EXCEPT ![h].token = TRUE][h][f] = req[h][f]
    BY DEF Domains, Fields
  <2>8. \A o \in Requests : TokenSet(o, [req EXCEPT ![h].token = TRUE])
    BY <2>2, <2>5, <2>6, <2>7 DEF TokenSet
  <2> QED BY <2>2, <2>3, <2>4, <2>5, <2>8
<1> QED BY <1>1, <1>2

LEMMA CutOffEffect ==
  ASSUME NEW q, Domains(q), NEW rs
  PROVE  /\ Domains(CutOff(q, rs))
         /\ \A o \in Requests :
              /\ \A f \in Fields \ {"cut"} : CutOff(q, rs)[o][f] = q[o][f]
              /\ CutOff(q, rs)[o].cut <=> q[o].cut \/ (o \in rs /\ NoChildYet(o))
<1>1. Domains(CutOff(q, rs))
  BY DEF Domains, Fields, CutOff
<1>2. \A o \in Requests : \A f \in Fields \ {"cut"} : CutOff(q, rs)[o][f] = q[o][f]
  BY DEF Domains, Fields, CutOff
<1>3. \A o \in Requests :
        CutOff(q, rs)[o] = [q[o] EXCEPT !.cut = @ \/ (o \in rs /\ NoChildYet(o))]
  BY DEF CutOff
<1>4. ASSUME NEW o \in Requests
      PROVE  CutOff(q, rs)[o].cut <=> q[o].cut \/ (o \in rs /\ NoChildYet(o))
  BY <1>3, Zenon DEF Domains, Fields
<1> QED BY <1>1, <1>2, <1>4

LEMMA GoEffect ==
  ASSUME NEW q, Domains(q), NEW r \in Requests, NEW pc
  PROVE  /\ Domains(Go(q, r, pc))
         /\ \A o \in Requests \ {r} : Go(q, r, pc)[o] = q[o]
         /\ Go(q, r, pc)[r].pc = pc
         /\ \A f \in Fields \ {"pc"} : Go(q, r, pc)[r][f] = q[r][f]
  BY DEF Domains, Fields, Go

LEMMA AnswerEffect ==
  ASSUME NEW q, Domains(q), NEW r \in Requests, NEW a
  PROVE  /\ Domains(Answer(q, r, a))
         /\ \A o \in Requests \ {r} : Answer(q, r, a)[o] = q[o]
         /\ Answer(q, r, a)[r].pc = "done" /\ Answer(q, r, a)[r].answer = a
         /\ ~Answer(q, r, a)[r].token /\ Answer(q, r, a)[r].epoch = 0
         /\ Answer(q, r, a)[r].ticket = q[r].ticket
         /\ Answer(q, r, a)[r].child = q[r].child
         /\ Answer(q, r, a)[r].cut = q[r].cut
<1>1. Domains(Answer(q, r, a))
  BY DEF Domains, Fields, Answer
<1>2. \A o \in Requests \ {r} : Answer(q, r, a)[o] = q[o]
  BY DEF Domains, Fields, Answer
<1>3. Answer(q, r, a)[r].pc = "done" /\ Answer(q, r, a)[r].answer = a
  BY DEF Domains, Fields, Answer
<1>4. ~Answer(q, r, a)[r].token /\ Answer(q, r, a)[r].epoch = 0
  BY DEF Domains, Fields, Answer
<1>5. /\ Answer(q, r, a)[r].ticket = q[r].ticket
      /\ Answer(q, r, a)[r].child = q[r].child
      /\ Answer(q, r, a)[r].cut = q[r].cut
  BY DEF Domains, Fields, Answer
<1> QED BY <1>1, <1>2, <1>3, <1>4, <1>5

LEMMA WakeEffect ==
  ASSUME NEW q, Domains(q)
  PROVE  /\ Domains(Wake(q))
         /\ \A o \in Requests :
              /\ \A f \in Fields \ {"pc"} : Wake(q)[o][f] = q[o][f]
              /\ Wake(q)[o].pc = IF q[o].pc = "wait" THEN "woken" ELSE q[o].pc
<1>1. Domains(Wake(q))
  BY DEF Domains, Fields, Wake
<1>2. \A o \in Requests : \A f \in Fields \ {"pc"} : Wake(q)[o][f] = q[o][f]
  BY DEF Domains, Fields, Wake
<1>3. \A o \in Requests : Wake(q)[o].pc = IF q[o].pc = "wait" THEN "woken" ELSE q[o].pc
  BY DEF Domains, Fields, Wake
<1> QED BY <1>1, <1>2, <1>3

\* The state of the others in q, when they may have been woken.
WokenIn(o, q) ==
  /\ \A f \in Fields \ {"pc"} : q[o][f] = req[o][f]
  /\ q[o].pc = req[o].pc \/ (req[o].pc = "wait" /\ q[o].pc = "woken")

\* What the loop makes of a call that looks at the state s and q.
Outcome(r, s, q) ==
  /\ Domains(req') /\ \A o \in Requests \ {r} : WokenIn(o, req')
  /\ req'[r].ticket = q[r].ticket /\ req'[r].child = q[r].child /\ req'[r].cut = q[r].cut
  /\ DOMAIN slot' = DOMAIN s /\ slot'.next = s.next /\ slot'.epoch = s.epoch
  /\ slot'.unavailable = s.unavailable /\ slot'.cutoff = s.cutoff
  /\ \/ /\ req'[r].pc = "done" /\ req'[r].answer = "cancelled"
        /\ ~req'[r].token /\ req'[r].epoch = 0
        /\ slot'.active = s.active /\ slot'.registered = s.registered
           /\ slot'.pending = s.pending
        /\ \/ kind = "document" /\ q[r].ticket < s.cutoff
           \/ kind # "document" /\ s.pending # q[r].ticket
           \/ kind = "scene" /\ q[r].epoch # s.epoch
     \/ /\ req'[r].pc = "wait" /\ req'[r].answer = q[r].answer
        /\ req'[r].token = q[r].token /\ req'[r].epoch = q[r].epoch
        /\ slot'.active = s.active /\ slot'.registered = s.registered
           /\ slot'.pending = s.pending
        /\ kind = "document" => ~(q[r].ticket < s.cutoff)
        /\ kind # "document" => s.pending = q[r].ticket
     \/ /\ req'[r].pc = IF kind = "document" THEN "start" ELSE "register"
        /\ req'[r].answer = q[r].answer /\ req'[r].token = q[r].token
           /\ req'[r].epoch = q[r].epoch
        /\ ~s.active /\ slot'.active
        /\ kind = "document" => /\ ~(q[r].ticket < s.cutoff)
                                /\ slot'.registered = r /\ slot'.pending = s.pending
        /\ kind # "document" => /\ slot'.registered = s.registered /\ slot'.pending = None
                                /\ s.pending = q[r].ticket
        /\ kind = "scene" => q[r].epoch = s.epoch

\* The same for a step, with the ticket and the place as the call finds them.
Looked(r, ticket, pending) ==
  \/ /\ req'[r].pc = "done" /\ req'[r].answer = "cancelled" /\ ~req'[r].token
        /\ req'[r].epoch = 0
     /\ slot'.active = slot.active /\ slot'.registered = slot.registered
        /\ slot'.pending = pending
     /\ \/ kind = "document" /\ ticket < slot.cutoff
        \/ kind # "document" /\ pending # ticket
        \/ kind = "scene" /\ req[r].epoch # slot.epoch
  \/ /\ req'[r].pc = "wait" /\ req'[r].answer = req[r].answer
     /\ req'[r].token = req[r].token /\ req'[r].epoch = req[r].epoch
     /\ slot'.active = slot.active /\ slot'.registered = slot.registered
        /\ slot'.pending = pending
     /\ kind = "document" => ~(ticket < slot.cutoff)
     /\ kind # "document" => pending = ticket
  \/ /\ req'[r].pc = IF kind = "document" THEN "start" ELSE "register"
     /\ req'[r].answer = req[r].answer /\ req'[r].token = req[r].token
     /\ req'[r].epoch = req[r].epoch /\ ~slot.active /\ slot'.active
     /\ kind = "document" => /\ ~(ticket < slot.cutoff)
                             /\ slot'.registered = r /\ slot'.pending = pending
     /\ kind # "document" => /\ slot'.registered = slot.registered /\ slot'.pending = None
                             /\ pending = ticket
     /\ kind = "scene" => req[r].epoch = slot.epoch

LEMMA LoopEffect ==
  ASSUME NEW s, NEW q, NEW r \in Requests, Domains(q), DOMAIN s = DOMAIN slot, SlotShape,
         \A o \in Requests \ {r} : WokenIn(o, q), Loop(r, s, q)
  PROVE  Outcome(r, s, q)
<1>0. \A o \in Requests \ {r} : WokenIn(o, Wake(q))
  BY WakeEffect DEF WokenIn, Fields
<1>1. CASE Displaced(s, q[r].ticket) /\ slot' = s /\ req' = Answer(q, r, "cancelled")
  <2>1. \/ kind = "document" /\ q[r].ticket < s.cutoff
        \/ kind # "document" /\ s.pending # q[r].ticket
    BY <1>1 DEF Displaced
  <2>2. Domains(req') /\ \A o \in Requests \ {r} : WokenIn(o, req')
    BY <1>1, AnswerEffect DEF WokenIn
  <2> QED BY <1>1, <2>1, <2>2, AnswerEffect DEF Outcome
<1>2. CASE /\ ~MyTurn(s, q[r].ticket) /\ ~Displaced(s, q[r].ticket)
           /\ slot' = s /\ req' = Go(q, r, "wait")
  <2>1. /\ kind = "document" => ~(q[r].ticket < s.cutoff)
        /\ kind # "document" => s.pending = q[r].ticket
    BY <1>2 DEF Displaced
  <2>2. Domains(req') /\ \A o \in Requests \ {r} : WokenIn(o, req')
    BY <1>2, GoEffect DEF WokenIn
  <2> QED BY <1>2, <2>1, <2>2, GoEffect DEF Outcome, Fields
<1>3. CASE /\ kind = "document" /\ TooLate(s, q[r])
           /\ slot' = [s EXCEPT !.serving = Served(s)] /\ req' = Answer(Wake(q), r, "cancelled")
  <2>1. q[r].ticket < s.cutoff
    BY <1>3 DEF TooLate
  <2>2. Domains(Wake(q)) /\ Wake(q)[r].ticket = q[r].ticket
        /\ Wake(q)[r].child = q[r].child /\ Wake(q)[r].cut = q[r].cut
    BY WakeEffect DEF Fields
  <2>3. Domains(req') /\ \A o \in Requests \ {r} : WokenIn(o, req')
    BY <1>0, <1>3, <2>2, AnswerEffect DEF WokenIn
  <2>4. DOMAIN slot' = DOMAIN s /\ \A f \in DOMAIN s \ {"serving"} : slot'[f] = s[f]
    BY <1>3 DEF SlotShape
  <2> QED BY <1>3, <2>1, <2>2, <2>3, <2>4, AnswerEffect DEF Outcome, SlotShape
<1>4. CASE /\ kind # "document" /\ TooLate(s, q[r])
           /\ slot' = s /\ req' = Answer(q, r, "cancelled")
  <2>1. kind = "scene" /\ q[r].epoch # s.epoch
    BY <1>4 DEF TooLate
  <2>2. Domains(req') /\ \A o \in Requests \ {r} : WokenIn(o, req')
    BY <1>4, AnswerEffect DEF WokenIn
  <2> QED BY <1>4, <2>1, <2>2, AnswerEffect DEF Outcome
<1>5. CASE /\ kind = "document" /\ MyTurn(s, q[r].ticket) /\ ~TooLate(s, q[r])
           /\ slot' = [s EXCEPT !.active = TRUE, !.registered = r] /\ req' = Go(q, r, "start")
  <2>1. ~s.active /\ ~(q[r].ticket < s.cutoff)
    BY <1>5 DEF MyTurn, TooLate
  <2>2. Domains(req') /\ \A o \in Requests \ {r} : WokenIn(o, req')
    BY <1>5, GoEffect DEF WokenIn
  <2>3. slot'.active
    BY <1>5, Zenon DEF SlotShape
  <2>4. /\ DOMAIN slot' = DOMAIN s /\ slot'.registered = r
        /\ \A f \in DOMAIN s \ {"active", "registered"} : slot'[f] = s[f]
    BY <1>5 DEF SlotShape
  <2>5. /\ slot'.next = s.next /\ slot'.epoch = s.epoch /\ slot'.unavailable = s.unavailable
        /\ slot'.cutoff = s.cutoff /\ slot'.registered = r /\ slot'.pending = s.pending
    BY <2>4 DEF SlotShape
  <2>6. /\ req'[r].pc = "start" /\ req'[r].answer = q[r].answer /\ req'[r].token = q[r].token
        /\ req'[r].epoch = q[r].epoch /\ req'[r].ticket = q[r].ticket
        /\ req'[r].child = q[r].child /\ req'[r].cut = q[r].cut
    BY <1>5, GoEffect DEF Fields
  <2> QED BY <1>5, <2>1, <2>2, <2>3, <2>4, <2>5, <2>6 DEF Outcome
<1>6. CASE /\ kind # "document" /\ MyTurn(s, q[r].ticket) /\ ~TooLate(s, q[r])
           /\ slot' = [s EXCEPT !.active = TRUE, !.pending = None]
              /\ req' = Go(q, r, "register")
  <2>1. ~s.active /\ s.pending = q[r].ticket /\ (kind = "scene" => q[r].epoch = s.epoch)
    BY <1>6 DEF MyTurn, TooLate
  <2>2. Domains(req') /\ \A o \in Requests \ {r} : WokenIn(o, req')
    BY <1>6, GoEffect DEF WokenIn
  <2>3. slot'.active
    BY <1>6, Zenon DEF SlotShape
  <2>4. /\ DOMAIN slot' = DOMAIN s /\ slot'.pending = None
        /\ \A f \in DOMAIN s \ {"active", "pending"} : slot'[f] = s[f]
    BY <1>6 DEF SlotShape
  <2>5. /\ slot'.next = s.next /\ slot'.epoch = s.epoch /\ slot'.unavailable = s.unavailable
        /\ slot'.cutoff = s.cutoff /\ slot'.registered = s.registered /\ slot'.pending = None
    BY <2>4 DEF SlotShape
  <2>6. /\ req'[r].pc = "register" /\ req'[r].answer = q[r].answer /\ req'[r].token = q[r].token
        /\ req'[r].epoch = q[r].epoch /\ req'[r].ticket = q[r].ticket
        /\ req'[r].child = q[r].child /\ req'[r].cut = q[r].cut
    BY <1>6, GoEffect DEF Fields
  <2> QED BY <1>6, <2>1, <2>2, <2>3, <2>4, <2>5, <2>6 DEF Outcome
<1> QED BY <1>1, <1>2, <1>3, <1>4, <1>5, <1>6 DEF Loop

\* A call that looks at the queue keeps the invariant, whichever of the two steps it is.
LEMMA LookedStep ==
  ASSUME NamesApart, RunnerInv, NEW r \in Requests, NEW ticket \in Nat, NEW pending,
         Looked(r, ticket, pending), Domains(req'), \A q \in Requests \ {r} : Kept(q),
         req'[r].ticket = ticket, req'[r].child = req[r].child, req'[r].cut = req[r].cut,
         DOMAIN slot' = DOMAIN slot, slot'.epoch = slot.epoch, slot'.cutoff = slot.cutoff,
         slot'.unavailable = slot.unavailable, kind' = kind, stop' = stop,
         \/ /\ req[r].pc = "queue" /\ ticket = slot.next /\ slot'.next = slot.next + 1
            /\ kind # "document" => pending = slot.next
         \/ /\ req[r].pc = "woken" /\ ticket = req[r].ticket /\ slot'.next = slot.next
            /\ pending = slot.pending
  PROVE  RunnerInv'
<1>1. ~req[r].token /\ req[r].child = "none" /\ req[r].answer = "none"
  BY DEF RunnerInv, OneHolder, TokenIsHeld, ChildIsHeld, CutOffs, NoAnswerYet, Early,
         BeforeStart,
         Registered
<1>2. ~slot.active => /\ \A q \in Requests : req[q].pc \notin Holding
                      /\ slot.registered = None
  BY DEF RunnerInv, OneHolder, HolderIsActive, RegisteredHolds, Holding
<1>3. slot.next \in Nat /\ slot.epoch \in Nat /\ slot.cutoff \in Nat /\ req[r].epoch \in Nat
  BY DEF RunnerInv, RunnerShape, SlotShape, CallShape
<1>4. /\ req'[r].pc \in {"done", "wait", "start", "register"}
      /\ req'[r].pc = "register" => kind # "document"
      /\ ~req'[r].token /\ req'[r].epoch \in Nat /\ req'[r].epoch <= slot.epoch
      /\ req'[r].answer \in {"none", "cancelled"}
      /\ req'[r].pc # "done" => req'[r].answer = "none" /\ req'[r].epoch = req[r].epoch
  BY <1>1, <1>3 DEF Looked, RunnerInv, Closing, EpochsPast
<1>5. RunnerShape'
  <2>1. CallShape'
    BY <1>4 DEF RunnerInv, RunnerShape, CallShape, Early, Kept, Domains, Fields
  <2>2. SlotShape'
    BY <1>3 DEF RunnerInv, RunnerShape, SlotShape
  <2>3. StopShape'
    BY DEF RunnerInv, RunnerShape, StopShape
  <2>4. Kinds'
    BY <1>4 DEF RunnerInv, RunnerShape, Kinds, Kept, Early, Holding, Registered
  <2> QED BY <2>1, <2>2, <2>3, <2>4 DEF RunnerShape
<1>6. OneHolder'
  <2>1. CASE req'[r].pc \notin Holding /\ slot'.active = slot.active
             /\ slot'.registered = slot.registered
    <3>1. slot.registered # r
      BY DEF RunnerInv, OneHolder, RegisteredHolds, Registered, NamesApart, Requests
    <3> QED BY <1>1, <1>4, <2>1, <3>1 DEF RunnerInv, OneHolder, HolderIsActive, OneAtATime,
               HolderIsRegistered, RegisteredHolds, TokenIsHeld, ChildIsHeld, Holding,
                Registered, Kept
  <2>2. CASE /\ ~slot.active /\ slot'.active /\ req'[r].pc \in {"start", "register"}
             /\ req'[r].pc = "start" => slot'.registered = r
             /\ req'[r].pc = "register" => slot'.registered = slot.registered
    BY <1>1, <1>2, <1>4, <2>2 DEF RunnerInv, OneHolder, HolderIsActive, OneAtATime,
       HolderIsRegistered, RegisteredHolds, TokenIsHeld, ChildIsHeld, Holding,
                Registered, Kept
  <2> QED BY <2>1, <2>2 DEF Looked, Holding, Registered
<1>7. Closing'
  <2>1. EpochsPast'
    BY <1>4 DEF RunnerInv, Closing, EpochsPast, Kept
  <2>2. ClosingRefuses'
    BY DEF RunnerInv, Closing, ClosingRefuses
  <2>3. ClosingOutdates'
    BY <1>4 DEF RunnerInv, Closing, ClosingOutdates, Queueing, Kept
  <2>4. ClosedIsFree'
    <3>1. stop.pc = "closed" => /\ kind = "scene" /\ req[r].epoch < slot.epoch
                               /\ ~slot.active
      BY DEF RunnerInv, RunnerShape, Kinds, Closing, ClosingOutdates, ClosedIsFree, Queueing
    <3> QED BY <1>3, <3>1 DEF Looked, ClosedIsFree
  <2> QED BY <2>1, <2>2, <2>3, <2>4 DEF Closing
<1>8. CutOffs'
  <2>1. CutIsLost'
    <3>1. \A q \in Requests : req[q].cut => Lost(q)
      BY DEF RunnerInv, CutOffs, CutIsLost
    <3>2. req[r].cut => req'[r].pc \in {"done", "wait"}
          /\ (kind = "document" => req'[r].pc = "done")
      <4> SUFFICES ASSUME req[r].cut
                   PROVE  req'[r].pc \in {"done", "wait"}
                   /\ (kind = "document" => req'[r].pc = "done")
        OBVIOUS
      <4>1. Lost(r) /\ kind \in {"scene", "document"}
        BY <3>1 DEF Lost, RunnerInv, RunnerShape, Kinds
      <4>2. CASE kind = "scene"
        <5>1. req[r].epoch < slot.epoch
          BY <4>1, <4>2 DEF Lost, BeforeStart
        <5>2. req[r].epoch # slot.epoch
          BY <1>3, <5>1
        <5> QED BY <4>2, <5>2 DEF Looked
      <4>3. CASE kind = "document"
        <5>1. ticket < slot.cutoff
          BY <4>1, <4>3 DEF Lost
        <5> QED BY <4>3, <5>1 DEF Looked
      <4> QED BY <4>1, <4>2, <4>3
    <3> QED BY <1>4, <3>1, <3>2 DEF CutIsLost, Lost, BeforeStart, Kept
  <2>2. NoAnswerYet'
    BY <1>4 DEF RunnerInv, CutOffs, NoAnswerYet, Early, BeforeStart, Kept
  <2>3. JoinFails'
    BY <1>4 DEF RunnerInv, CutOffs, JoinFails, Kept
  <2>4. SeenIsOutdated'
    BY <1>4 DEF RunnerInv, RunnerShape, StopShape, CutOffs, SeenIsOutdated, BeforeStart, Kept
  <2>5. SeenHasToken'
    <3>1. stop.pc = "pending" /\ r \in stop.seen => req'[r].pc # "start"
      <4>1. r \in stop.seen => kind = "scene"
        BY DEF RunnerInv, RunnerShape, Kinds
      <4> QED BY <4>1 DEF Looked
    <3> QED BY <3>1 DEF RunnerInv, RunnerShape, StopShape, CutOffs, SeenHasToken, Kept
  <2> QED BY <2>1, <2>2, <2>3, <2>4, <2>5 DEF CutOffs
<1>9. Tickets'
  <2>1. Numbered'
    BY <1>3 DEF RunnerInv, Tickets, Numbered, Kept, NamesApart
  <2>2. OwnTicket'
    BY <1>3 DEF RunnerInv, Tickets, Numbered, OwnTicket, Kept, NamesApart
  <2> QED BY <2>1, <2>2 DEF Tickets
<1>10. Undisturbed'
  <2> SUFFICES ASSUME stop.n = 0
               PROVE  /\ slot.epoch = 0 /\ slot.cutoff = 0 /\ stop.pc = "idle"
                      /\ \A q \in Requests : NotLost(q)'
    BY DEF Undisturbed
  <2>1. /\ slot.epoch = 0 /\ slot.cutoff = 0 /\ stop.pc = "idle"
        /\ \A q \in Requests : NotLost(q)
    BY DEF RunnerInv, Undisturbed
  <2>2. req[r].epoch = 0 /\ req'[r].epoch = 0
    BY <1>3, <1>4, <2>1 DEF NotLost, Looked
  <2>3. kind = "document" => req'[r].answer # "cancelled"
    BY <1>1, <1>3, <2>1 DEF Looked
  <2>4. CASE req[r].pc = "queue"
    <3>1. \A q \in Requests \ {r} : ~LastTicket(q)'
      BY <1>3, <2>4 DEF LastTicket, RunnerInv, Tickets, Numbered, Kept
    <3>2. kind # "document" => req'[r].answer # "cancelled"
      BY <1>1, <2>1, <2>2, <2>4 DEF Looked
    <3>3. req'[r].pc = "wait" /\ kind # "document" => slot'.pending = req'[r].ticket
      BY DEF Looked
    <3>4. NotLost(r)'
      BY <1>1, <1>4, <2>2, <2>3, <3>2, <3>3 DEF NotLost
    <3>5. \A q \in Requests \ {r} : NotLost(q)'
      BY <2>1, <3>1 DEF NotLost, Kept
    <3> QED BY <2>1, <3>4, <3>5
  <2>5. CASE req[r].pc = "woken"
    <3>1. \A places \in {{"queue"}, {"unpend", "queue"}} : Follower(places) => Follower(places)'
      BY <2>5 DEF Follower, Kept
    <3>2. \A q \in Requests : LastTicket(q)' <=> LastTicket(q)
      BY <2>5 DEF LastTicket, Kept
    <3>3. LastTicket(r) /\ kind # "document" => slot.pending = ticket \/ Follower({"queue"})
      BY <2>1, <2>5 DEF NotLost
    <3>4. NotLost(r)'
      <4>1. LastTicket(r) /\ req'[r].answer = "cancelled" => Follower({"queue"})
        BY <1>1, <2>1, <2>2, <2>3, <2>5, <3>3 DEF Looked
      <4>2. Follower({"queue"}) => Follower({"unpend", "queue"})
        BY DEF Follower
      <4> QED BY <1>4, <2>2, <2>3, <2>5, <3>1, <3>2, <3>3, <4>1, <4>2 DEF NotLost, Looked
    <3>5. \A q \in Requests \ {r} : NotLost(q)'
      <4> SUFFICES ASSUME NEW q \in Requests \ {r}
                   PROVE  NotLost(q)'
        OBVIOUS
      <4>1. CASE slot'.pending = slot.pending
        BY <2>1, <2>5, <3>1, <3>2, <4>1 DEF NotLost, Kept
      <4>2. CASE slot'.pending = None /\ slot.pending = ticket
        <5>1. req[q].ticket # ticket
          BY <2>5, NamesApart DEF RunnerInv, Tickets, OwnTicket, NamesApart
        <5> QED BY <2>1, <2>5, <3>1, <3>2, <4>2, <5>1 DEF NotLost, Kept
      <4> QED BY <2>5, <4>1, <4>2 DEF Looked
    <3> QED BY <2>1, <3>4, <3>5
  <2> QED BY <2>4, <2>5
<1> QED BY <1>5, <1>6, <1>7, <1>8, <1>9, <1>10 DEF RunnerInv

-----------------------------------------------------------------------------
(* Each step keeps the invariant: its effect first, then the parts.        *)

LEMMA StartStep ==
  ASSUME NamesApart, RunnerInv, NEW r \in Requests, StartChild(r)
  PROVE  RunnerInv'
<1>0. Domains(req)
  BY DEF RunnerInv, RunnerShape, CallShape, Domains, Fields
<1>1. /\ Domains(req')
      /\ \A q \in Requests \ {r} : Kept(q)
      /\ req[r].pc = "start"
      /\ \/ req[r].token /\ req'[r].pc = "clear" /\ req'[r].answer = "cancelled"
            /\ req'[r].child = "none"
         \/ ~req[r].token /\ req'[r].pc = "poll" /\ req'[r].answer = req[r].answer
         \/ ~req[r].token /\ req'[r].pc = "clear" /\ req'[r].answer = "failed"
            /\ req'[r].child = "none"
      /\ req'[r].ticket = req[r].ticket
      /\ req'[r].epoch = req[r].epoch
      /\ req'[r].token = req[r].token
      /\ req'[r].cut = req[r].cut
      /\ kind' = kind
      /\ slot' = slot
      /\ stop' = stop
  <2>1. CASE req[r].token /\ req' = Result(r, "cancelled", "none")
    BY <1>0, <2>1 DEF Domains, Fields, At, Kept, StartChild, Result
  <2>2. CASE ~req[r].token /\ req' = [req EXCEPT ![r].pc = "poll", ![r].child = "running"]
    BY <1>0, <2>2 DEF Domains, Fields, At, Kept, StartChild, Result
  <2>3. CASE ~req[r].token /\ req' = Result(r, "failed", "none")
    BY <1>0, <2>3 DEF Domains, Fields, At, Kept, StartChild, Result
  <2> QED BY <2>1, <2>2, <2>3 DEF StartChild, Result, At
<1>2. RunnerShape'
  BY <1>1 DEF RunnerInv, RunnerShape, CallShape, SlotShape, StopShape, Kinds, Kept, Domains,
              Fields, Early, Holding, Registered
<1>3. OneHolder'
  BY <1>1 DEF RunnerInv, OneHolder, HolderIsActive, OneAtATime, HolderIsRegistered,
              RegisteredHolds, TokenIsHeld, ChildIsHeld, Holding, Registered, Kept
<1>4. Closing'
  BY <1>1 DEF RunnerInv, RunnerShape, SlotShape, Closing, EpochsPast, ClosingRefuses,
              ClosingOutdates, ClosedIsFree, Kept, Queueing
<1>5. CutOffs'
  <2>1. CutIsLost'
    BY <1>1 DEF RunnerInv, CutOffs, CutIsLost, Lost, BeforeStart, Kept
  <2>2. NoAnswerYet'
    BY <1>1 DEF RunnerInv, CutOffs, NoAnswerYet, Early, BeforeStart, Kept
  <2>3. JoinFails'
    BY <1>1 DEF RunnerInv, CutOffs, JoinFails, Kept
  <2>4. SeenIsOutdated'
    BY <1>1 DEF RunnerInv, RunnerShape, StopShape, CutOffs, SeenIsOutdated, BeforeStart, Kept
  <2>5. SeenHasToken'
    BY <1>1 DEF RunnerInv, RunnerShape, StopShape, CutOffs, SeenIsOutdated, SeenHasToken,
                BeforeStart, Kept
  <2> QED BY <2>1, <2>2, <2>3, <2>4, <2>5 DEF CutOffs
<1>6. Tickets'
  BY <1>1 DEF RunnerInv, RunnerShape, SlotShape, CallShape, Early, Tickets, Numbered, OwnTicket,
              Kept
<1>7. Undisturbed'
  BY <1>1 DEF RunnerInv, RunnerShape, SlotShape, Undisturbed, NotLost, LastTicket, Follower,
              Kept
<1> QED BY <1>2, <1>3, <1>4, <1>5, <1>6, <1>7 DEF RunnerInv

LEMMA EnterStep ==
  ASSUME NamesApart, RunnerInv, NEW r \in Requests, Enter(r)
  PROVE  RunnerInv'
<1>0. Domains(req)
  BY DEF RunnerInv, RunnerShape, CallShape, Domains, Fields
<1>1. /\ Domains(req')
      /\ \A q \in Requests \ {r} : Kept(q)
      /\ req[r].pc = "idle"
      /\ \/ kind = "scene" /\ req'[r].pc = "check"
         \/ kind = "theme" /\ req'[r].pc = "signal"
         \/ kind = "document" /\ req'[r].pc = "queue"
      /\ req'[r].epoch = slot.epoch
      /\ req'[r].ticket = req[r].ticket
      /\ req'[r].token = req[r].token
      /\ req'[r].child = req[r].child
      /\ req'[r].cut = req[r].cut
      /\ req'[r].answer = req[r].answer
      /\ kind' = kind
      /\ slot' = slot
      /\ stop' = stop
  <2>1. CASE kind = "scene"
    BY <1>0, <2>1 DEF Domains, Fields, At, Kept, Enter, RunnerInv, RunnerShape, Kinds
  <2>2. CASE kind = "theme"
    BY <1>0, <2>2 DEF Domains, Fields, At, Kept, Enter, RunnerInv, RunnerShape, Kinds
  <2>3. CASE kind = "document"
    BY <1>0, <2>3 DEF Domains, Fields, At, Kept, Enter, RunnerInv, RunnerShape, Kinds
  <2> QED BY <2>1, <2>2, <2>3 DEF Enter, RunnerInv, RunnerShape, Kinds, At
<1>2. RunnerShape'
  BY <1>1 DEF RunnerInv, RunnerShape, CallShape, SlotShape, StopShape, Kinds, Kept, Domains,
              Fields, Early, Holding, Registered
<1>3. OneHolder'
  <2>1. HolderIsActive'
    BY <1>1 DEF RunnerInv, OneHolder, HolderIsActive, Holding, Registered, Kept
  <2>2. OneAtATime'
    BY <1>1 DEF RunnerInv, OneHolder, OneAtATime, Holding, Registered, Kept
  <2>3. HolderIsRegistered'
    BY <1>1 DEF RunnerInv, OneHolder, HolderIsRegistered, Holding, Registered, Kept
  <2>4. RegisteredHolds'
    BY <1>1 DEF RunnerInv, OneHolder, RegisteredHolds, Holding, Registered, Kept
  <2>5. TokenIsHeld'
    BY <1>1 DEF RunnerInv, OneHolder, TokenIsHeld, Holding, Registered, Kept
  <2>6. ChildIsHeld'
    BY <1>1 DEF RunnerInv, OneHolder, ChildIsHeld, Holding, Registered, Kept
  <2> QED BY <2>1, <2>2, <2>3, <2>4, <2>5, <2>6 DEF OneHolder
<1>4. Closing'
  BY <1>1 DEF RunnerInv, RunnerShape, SlotShape, Closing, EpochsPast, ClosingRefuses,
              ClosingOutdates, ClosedIsFree, Kept, Queueing
<1>5. CutOffs'
  <2>1. CutIsLost'
    BY <1>1 DEF RunnerInv, CutOffs, CutIsLost, Lost, BeforeStart, Kept
  <2>2. NoAnswerYet'
    BY <1>1 DEF RunnerInv, CutOffs, NoAnswerYet, Early, BeforeStart, Kept
  <2>3. JoinFails'
    BY <1>1 DEF RunnerInv, CutOffs, JoinFails, Kept
  <2>4. SeenIsOutdated'
    <3>1. stop.pc \in {"token", "pending"} => r \notin stop.seen
      <4>1. SeenIsOutdated /\ req[r].pc = "idle"
        BY DEF Enter, At, RunnerInv, CutOffs
      <4> QED BY <4>1 DEF SeenIsOutdated
    <3> QED BY <1>1, <3>1 DEF RunnerInv, RunnerShape, StopShape, CutOffs, SeenIsOutdated,
               BeforeStart, Kept
  <2>5. SeenHasToken'
    BY <1>1 DEF RunnerInv, RunnerShape, StopShape, CutOffs, SeenIsOutdated, SeenHasToken,
                BeforeStart, Kept
  <2> QED BY <2>1, <2>2, <2>3, <2>4, <2>5 DEF CutOffs
<1>6. Tickets'
  BY <1>1 DEF RunnerInv, RunnerShape, SlotShape, CallShape, Early, Tickets, Numbered, OwnTicket,
              Kept
<1>7. Undisturbed'
  BY <1>1 DEF RunnerInv, RunnerShape, SlotShape, Undisturbed, NotLost, LastTicket, Follower,
              Kept
<1> QED BY <1>2, <1>3, <1>4, <1>5, <1>6, <1>7 DEF RunnerInv

LEMMA CheckStep ==
  ASSUME NamesApart, RunnerInv, NEW r \in Requests, Check(r)
  PROVE  RunnerInv'
<1>0. Domains(req)
  BY DEF RunnerInv, RunnerShape, CallShape, Domains, Fields
<1>1. /\ Domains(req')
      /\ \A q \in Requests \ {r} : Kept(q)
      /\ req[r].pc = "check"
      /\ \/ /\ slot.unavailable
            /\ req'[r].pc = "done" /\ req'[r].answer = "failed" /\ ~req'[r].token
               /\ req'[r].epoch = 0
         \/ /\ ~slot.unavailable
            /\ req'[r].pc = "queue" /\ req'[r].answer = req[r].answer
               /\ req'[r].token = req[r].token
            /\ req'[r].epoch = req[r].epoch
      /\ req'[r].ticket = req[r].ticket
      /\ req'[r].child = req[r].child
      /\ req'[r].cut = req[r].cut
      /\ kind' = kind
      /\ slot' = slot
      /\ stop' = stop
  <2>1. CASE slot.unavailable
    BY <1>0, <2>1 DEF Domains, Fields, At, Kept, Check, Answer, Go
  <2>2. CASE ~slot.unavailable
    BY <1>0, <2>2 DEF Domains, Fields, At, Kept, Check, Answer, Go
  <2> QED BY <2>1, <2>2 DEF Check, Answer, Go, At
<1>2. RunnerShape'
  BY <1>1 DEF RunnerInv, RunnerShape, CallShape, SlotShape, StopShape, Kinds, Kept, Domains,
              Fields, Early, Holding, Registered
<1>3. OneHolder'
  BY <1>1 DEF RunnerInv, OneHolder, HolderIsActive, OneAtATime, HolderIsRegistered,
              RegisteredHolds, TokenIsHeld, ChildIsHeld, Holding, Registered, Kept
<1>4. Closing'
  BY <1>1 DEF RunnerInv, RunnerShape, SlotShape, Closing, EpochsPast, ClosingRefuses,
              ClosingOutdates, ClosedIsFree, Kept, Queueing
<1>5. CutOffs'
  <2>1. CutIsLost'
    BY <1>1 DEF RunnerInv, CutOffs, CutIsLost, Lost, BeforeStart, Kept
  <2>2. NoAnswerYet'
    BY <1>1 DEF RunnerInv, CutOffs, NoAnswerYet, Early, BeforeStart, Kept
  <2>3. JoinFails'
    BY <1>1 DEF RunnerInv, CutOffs, JoinFails, Kept
  <2>4. SeenIsOutdated'
    BY <1>1 DEF RunnerInv, RunnerShape, StopShape, CutOffs, SeenIsOutdated, BeforeStart, Kept
  <2>5. SeenHasToken'
    BY <1>1 DEF RunnerInv, RunnerShape, StopShape, CutOffs, SeenIsOutdated, SeenHasToken,
                BeforeStart, Kept
  <2> QED BY <2>1, <2>2, <2>3, <2>4, <2>5 DEF CutOffs
<1>6. Tickets'
  BY <1>1 DEF RunnerInv, RunnerShape, SlotShape, CallShape, Early, Tickets, Numbered, OwnTicket,
              Kept
<1>7. Undisturbed'
  BY <1>1 DEF RunnerInv, RunnerShape, SlotShape, Undisturbed, NotLost, LastTicket, Follower,
              Kept
<1> QED BY <1>2, <1>3, <1>4, <1>5, <1>6, <1>7 DEF RunnerInv

LEMMA SignalPendingStep ==
  ASSUME NamesApart, RunnerInv, NEW r \in Requests, SignalPending(r)
  PROVE  RunnerInv'
<1>0. Domains(req)
  BY DEF RunnerInv, RunnerShape, CallShape, Domains, Fields
<1>1. /\ Domains(req')
      /\ \A q \in Requests \ {r} : Kept(q)
      /\ req[r].pc = "unpend"
      /\ req'[r].pc = "queue"
      /\ req'[r].ticket = req[r].ticket
      /\ req'[r].epoch = req[r].epoch
      /\ req'[r].token = req[r].token
      /\ req'[r].child = req[r].child
      /\ req'[r].cut = req[r].cut
      /\ req'[r].answer = req[r].answer
      /\ slot'.pending = None
      /\ slot'.active = slot.active
      /\ slot'.next = slot.next
      /\ slot'.registered = slot.registered
      /\ slot'.epoch = slot.epoch
      /\ slot'.unavailable = slot.unavailable
      /\ slot'.serving = slot.serving
      /\ slot'.cutoff = slot.cutoff
      /\ DOMAIN slot' = DOMAIN slot
      /\ kind' = kind
      /\ stop' = stop
  BY <1>0 DEF Domains, Fields, At, Kept, SignalPending, Go, Wake, RunnerInv, RunnerShape,
              SlotShape
<1>2. RunnerShape'
  BY <1>1 DEF RunnerInv, RunnerShape, CallShape, SlotShape, StopShape, Kinds, Kept, Domains,
              Fields, Early, Holding, Registered
<1>3. OneHolder'
  BY <1>1 DEF RunnerInv, OneHolder, HolderIsActive, OneAtATime, HolderIsRegistered,
              RegisteredHolds, TokenIsHeld, ChildIsHeld, Holding, Registered, Kept
<1>4. Closing'
  <2>1. EpochsPast'
    BY <1>1 DEF RunnerInv, RunnerShape, SlotShape, Closing, EpochsPast, Kept
  <2>2. ClosingRefuses'
    BY <1>1 DEF RunnerInv, Closing, ClosingRefuses
  <2>3. ClosingOutdates'
    <3>1. kind = "theme"
      BY <1>1 DEF RunnerInv, RunnerShape, Kinds
    <3> QED BY <1>1, <3>1 DEF RunnerInv, Closing, ClosingRefuses, ClosingOutdates
  <2>4. ClosedIsFree'
    BY <1>1 DEF RunnerInv, RunnerShape, Kinds, Closing, ClosingOutdates, ClosedIsFree, Queueing
  <2> QED BY <2>1, <2>2, <2>3, <2>4 DEF Closing
<1>5. CutOffs'
  <2>1. CutIsLost'
    BY <1>1 DEF RunnerInv, CutOffs, CutIsLost, Lost, BeforeStart, Kept
  <2>2. NoAnswerYet'
    BY <1>1 DEF RunnerInv, CutOffs, NoAnswerYet, Early, BeforeStart, Kept
  <2>3. JoinFails'
    BY <1>1 DEF RunnerInv, CutOffs, JoinFails, Kept
  <2>4. SeenIsOutdated'
    <3>1. stop.seen = {}
      BY <1>1 DEF RunnerInv, RunnerShape, Kinds
    <3> QED BY <1>1, <3>1 DEF SeenIsOutdated
  <2>5. SeenHasToken'
    BY <1>1 DEF RunnerInv, RunnerShape, StopShape, CutOffs, SeenIsOutdated, SeenHasToken,
                BeforeStart, Kept
  <2> QED BY <2>1, <2>2, <2>3, <2>4, <2>5 DEF CutOffs
<1>6. Tickets'
  BY <1>1 DEF RunnerInv, RunnerShape, SlotShape, CallShape, Early, Tickets, Numbered, OwnTicket,
              Kept
<1>7. Undisturbed'
  BY <1>1 DEF RunnerInv, RunnerShape, SlotShape, Undisturbed, NotLost, LastTicket, Follower,
              Kept
<1> QED BY <1>2, <1>3, <1>4, <1>5, <1>6, <1>7 DEF RunnerInv

LEMMA RegisterStep ==
  ASSUME NamesApart, RunnerInv, NEW r \in Requests, Register(r)
  PROVE  RunnerInv'
<1>0. Domains(req)
  BY DEF RunnerInv, RunnerShape, CallShape, Domains, Fields
<1>1. /\ Domains(req')
      /\ \A q \in Requests \ {r} : Kept(q)
      /\ req[r].pc = "register"
      /\ req'[r].pc = IF kind = "scene" THEN "recheck" ELSE "start"
      /\ req'[r].ticket = req[r].ticket
      /\ req'[r].epoch = req[r].epoch
      /\ req'[r].token = req[r].token
      /\ req'[r].child = req[r].child
      /\ req'[r].cut = req[r].cut
      /\ req'[r].answer = req[r].answer
      /\ slot'.registered = r
      /\ slot'.active = slot.active
      /\ slot'.next = slot.next
      /\ slot'.pending = slot.pending
      /\ slot'.epoch = slot.epoch
      /\ slot'.unavailable = slot.unavailable
      /\ slot'.serving = slot.serving
      /\ slot'.cutoff = slot.cutoff
      /\ DOMAIN slot' = DOMAIN slot
      /\ kind' = kind
      /\ stop' = stop
  BY <1>0 DEF Domains, Fields, At, Kept, Register, Go, RunnerInv, RunnerShape, SlotShape
<1>2. RunnerShape'
  BY <1>1 DEF RunnerInv, RunnerShape, CallShape, SlotShape, StopShape, Kinds, Kept, Domains,
              Fields, Early, Holding, Registered
<1>3. OneHolder'
  BY <1>1 DEF RunnerInv, OneHolder, HolderIsActive, OneAtATime, HolderIsRegistered,
              RegisteredHolds, TokenIsHeld, ChildIsHeld, Holding, Registered, Kept
<1>4. Closing'
  BY <1>1 DEF RunnerInv, RunnerShape, SlotShape, Closing, EpochsPast, ClosingRefuses,
              ClosingOutdates, ClosedIsFree, Kept, Queueing
<1>5. CutOffs'
  <2>1. CutIsLost'
    <3>1. kind = "scene" \/ kind = "theme"
      BY <1>1 DEF RunnerInv, RunnerShape, Kinds
    <3> QED BY <1>1, <3>1 DEF RunnerInv, CutOffs, CutIsLost, Lost, BeforeStart, Kept
  <2>2. NoAnswerYet'
    BY <1>1 DEF RunnerInv, CutOffs, NoAnswerYet, Early, BeforeStart, Kept
  <2>3. JoinFails'
    BY <1>1 DEF RunnerInv, CutOffs, JoinFails, Kept
  <2>4. SeenIsOutdated'
    BY <1>1 DEF RunnerInv, RunnerShape, StopShape, CutOffs, SeenIsOutdated, BeforeStart, Kept
  <2>5. SeenHasToken'
    <3>1. r \in stop.seen => kind = "scene"
      BY DEF RunnerInv, RunnerShape, Kinds
    <3> QED BY <1>1, <3>1 DEF RunnerInv, RunnerShape, StopShape, CutOffs, SeenHasToken, Kept
  <2> QED BY <2>1, <2>2, <2>3, <2>4, <2>5 DEF CutOffs
<1>6. Tickets'
  BY <1>1 DEF RunnerInv, RunnerShape, SlotShape, CallShape, Early, Tickets, Numbered, OwnTicket,
              Kept
<1>7. Undisturbed'
  BY <1>1 DEF RunnerInv, RunnerShape, SlotShape, Undisturbed, NotLost, LastTicket, Follower,
              Kept
<1> QED BY <1>2, <1>3, <1>4, <1>5, <1>6, <1>7 DEF RunnerInv

LEMMA RecheckStep ==
  ASSUME NamesApart, RunnerInv, NEW r \in Requests, Recheck(r)
  PROVE  RunnerInv'
<1>0. Domains(req)
  BY DEF RunnerInv, RunnerShape, CallShape, Domains, Fields
<1>1. /\ Domains(req')
      /\ \A q \in Requests \ {r} : Kept(q)
      /\ req[r].pc = "recheck"
      /\ req'[r].pc = "start"
      /\ req'[r].token <=> req[r].token \/ req[r].epoch # slot.epoch
      /\ req'[r].ticket = req[r].ticket
      /\ req'[r].epoch = req[r].epoch
      /\ req'[r].child = req[r].child
      /\ req'[r].cut = req[r].cut
      /\ req'[r].answer = req[r].answer
      /\ kind' = kind
      /\ slot' = slot
      /\ stop' = stop
  BY <1>0 DEF Domains, Fields, At, Kept, Recheck
<1>2. RunnerShape'
  BY <1>1 DEF RunnerInv, RunnerShape, CallShape, SlotShape, StopShape, Kinds, Kept, Domains,
              Fields, Early, Holding, Registered
<1>3. OneHolder'
  BY <1>1 DEF RunnerInv, OneHolder, HolderIsActive, OneAtATime, HolderIsRegistered,
              RegisteredHolds, TokenIsHeld, ChildIsHeld, Holding, Registered, Kept
<1>4. Closing'
  BY <1>1 DEF RunnerInv, RunnerShape, SlotShape, Closing, EpochsPast, ClosingRefuses,
              ClosingOutdates, ClosedIsFree, Kept, Queueing
<1>5. CutOffs'
  <2>1. CutIsLost'
    <3>1. kind = "scene" /\ req[r].epoch \in Nat /\ slot.epoch \in Nat
      BY <1>1 DEF RunnerInv, RunnerShape, Kinds, CallShape, SlotShape
    <3>2. req[r].cut => req'[r].token
      BY <1>1, <3>1 DEF RunnerInv, CutOffs, CutIsLost, Lost, BeforeStart
    <3> QED BY <1>1, <3>1, <3>2 DEF RunnerInv, CutOffs, CutIsLost, Lost, BeforeStart, Kept
  <2>2. NoAnswerYet'
    BY <1>1 DEF RunnerInv, CutOffs, NoAnswerYet, Early, BeforeStart, Kept
  <2>3. JoinFails'
    BY <1>1 DEF RunnerInv, CutOffs, JoinFails, Kept
  <2>4. SeenIsOutdated'
    BY <1>1 DEF RunnerInv, RunnerShape, StopShape, CutOffs, SeenIsOutdated, BeforeStart, Kept
  <2>5. SeenHasToken'
    <3>1. req[r].epoch \in Nat /\ slot.epoch \in Nat
      BY DEF RunnerInv, RunnerShape, CallShape, SlotShape
    <3>2. stop.pc = "pending" /\ r \in stop.seen => req'[r].token
      BY <1>1, <3>1 DEF RunnerInv, CutOffs, SeenIsOutdated, BeforeStart
    <3> QED BY <1>1, <3>2 DEF RunnerInv, RunnerShape, StopShape, CutOffs, SeenHasToken, Kept
  <2> QED BY <2>1, <2>2, <2>3, <2>4, <2>5 DEF CutOffs
<1>6. Tickets'
  BY <1>1 DEF RunnerInv, RunnerShape, SlotShape, CallShape, Early, Tickets, Numbered, OwnTicket,
              Kept
<1>7. Undisturbed'
  BY <1>1 DEF RunnerInv, RunnerShape, SlotShape, Undisturbed, NotLost, LastTicket, Follower,
              Kept
<1> QED BY <1>2, <1>3, <1>4, <1>5, <1>6, <1>7 DEF RunnerInv

LEMMA ExitStep ==
  ASSUME NamesApart, RunnerInv, NEW r \in Requests, Exit(r) \/ Late(r)
  PROVE  RunnerInv'
<1>0. Domains(req)
  BY DEF RunnerInv, RunnerShape, CallShape, Domains, Fields
<1>1. /\ Domains(req')
      /\ \A q \in Requests \ {r} : Kept(q)
      /\ req[r].child # "none"
      /\ req'[r].ticket = req[r].ticket
      /\ req'[r].epoch = req[r].epoch
      /\ req'[r].token = req[r].token
      /\ req'[r].cut = req[r].cut
      /\ req'[r].answer = req[r].answer
      /\ req'[r].pc = req[r].pc
      /\ kind' = kind
      /\ slot' = slot
      /\ stop' = stop
  BY <1>0 DEF Domains, Fields, At, Kept, Exit, Late
<1>2. RunnerShape'
  BY <1>1 DEF RunnerInv, RunnerShape, CallShape, SlotShape, StopShape, Kinds, Kept, Domains,
              Fields, Early, Holding, Registered
<1>3. OneHolder'
  BY <1>1 DEF RunnerInv, OneHolder, HolderIsActive, OneAtATime, HolderIsRegistered,
              RegisteredHolds, TokenIsHeld, ChildIsHeld, Holding, Registered, Kept
<1>4. Closing'
  BY <1>1 DEF RunnerInv, RunnerShape, SlotShape, Closing, EpochsPast, ClosingRefuses,
              ClosingOutdates, ClosedIsFree, Kept, Queueing
<1>5. CutOffs'
  <2>1. CutIsLost'
    BY <1>1 DEF RunnerInv, CutOffs, CutIsLost, Lost, BeforeStart, Kept
  <2>2. NoAnswerYet'
    BY <1>1 DEF RunnerInv, CutOffs, NoAnswerYet, Early, BeforeStart, Kept
  <2>3. JoinFails'
    BY <1>1 DEF RunnerInv, CutOffs, JoinFails, Kept
  <2>4. SeenIsOutdated'
    BY <1>1 DEF RunnerInv, RunnerShape, StopShape, CutOffs, SeenIsOutdated, BeforeStart, Kept
  <2>5. SeenHasToken'
    BY <1>1 DEF RunnerInv, RunnerShape, StopShape, CutOffs, SeenIsOutdated, SeenHasToken,
                BeforeStart, Kept
  <2> QED BY <2>1, <2>2, <2>3, <2>4, <2>5 DEF CutOffs
<1>6. Tickets'
  BY <1>1 DEF RunnerInv, RunnerShape, SlotShape, CallShape, Early, Tickets, Numbered, OwnTicket,
              Kept
<1>7. Undisturbed'
  BY <1>1 DEF RunnerInv, RunnerShape, SlotShape, Undisturbed, NotLost, LastTicket, Follower,
              Kept
<1> QED BY <1>2, <1>3, <1>4, <1>5, <1>6, <1>7 DEF RunnerInv

LEMMA PollStep ==
  ASSUME NamesApart, RunnerInv, NEW r \in Requests, Poll(r)
  PROVE  RunnerInv'
<1>0. Domains(req)
  BY DEF RunnerInv, RunnerShape, CallShape, Domains, Fields
<1>1. /\ Domains(req')
      /\ \A q \in Requests \ {r} : Kept(q)
      /\ req[r].pc = "poll"
      /\ \/ /\ req'[r].pc = "clear" /\ req'[r].child = "none"
               /\ slot'.unavailable = slot.unavailable
            /\ req'[r].answer = IF req[r].token THEN "cancelled" ELSE "failed"
         \/ /\ req'[r].pc = "join"
            /\ req'[r].answer = IF req[r].token THEN "cancelled" ELSE "failed"
            /\ slot'.unavailable <=> slot.unavailable \/ kind = "scene"
         \/ /\ req'[r].pc = "look" /\ req'[r].answer = req[r].answer
            /\ slot'.unavailable = slot.unavailable
      /\ req'[r].ticket = req[r].ticket
      /\ req'[r].epoch = req[r].epoch
      /\ req'[r].token = req[r].token
      /\ req'[r].cut = req[r].cut
      /\ slot'.active = slot.active
      /\ slot'.next = slot.next
      /\ slot'.registered = slot.registered
      /\ slot'.epoch = slot.epoch
      /\ slot'.pending = slot.pending
      /\ slot'.serving = slot.serving
      /\ slot'.cutoff = slot.cutoff
      /\ DOMAIN slot' = DOMAIN slot
      /\ kind' = kind
      /\ stop' = stop
  <2>1. CASE (req[r].token \/ req[r].child = "late")
             /\ req' = Result(r, IF req[r].token THEN "cancelled" ELSE "failed", "none")
                /\ slot' = slot
    BY <1>0, <2>1 DEF Domains, Fields, At, Kept, Poll, Result
  <2>2. CASE /\ req[r].token \/ req[r].child = "late"
             /\ req' = [req EXCEPT ![r].pc = "join", ![r].child = "lingers",
                                   ![r].answer = IF req[r].token THEN "cancelled" ELSE "failed"]
             /\ slot' = [slot EXCEPT !.unavailable = @ \/ kind = "scene"]
    <3>1. slot'.unavailable <=> slot.unavailable \/ kind = "scene"
      BY <2>2, Zenon DEF RunnerInv, RunnerShape, SlotShape
    <3>2. Domains(req') /\ \A q \in Requests \ {r} : Kept(q)
      BY <1>0, <2>2 DEF Domains, Fields, Kept
    <3>3. /\ req'[r].pc = "join"
          /\ req'[r].answer = IF req[r].token THEN "cancelled" ELSE "failed"
          /\ req'[r].ticket = req[r].ticket /\ req'[r].epoch = req[r].epoch
          /\ req'[r].token = req[r].token /\ req'[r].cut = req[r].cut
      BY <1>0, <2>2 DEF Domains, Fields
    <3>4. /\ DOMAIN slot' = DOMAIN slot
          /\ \A f \in DOMAIN slot \ {"unavailable"} : slot'[f] = slot[f]
      BY <2>2 DEF RunnerInv, RunnerShape, SlotShape
    <3>5. kind' = kind /\ stop' = stop /\ req[r].pc = "poll"
      BY DEF Poll, At
    <3> QED BY <3>1, <3>2, <3>3, <3>4, <3>5 DEF RunnerInv, RunnerShape, SlotShape
  <2>3. CASE req' = Go(req, r, "look") /\ slot' = slot
    BY <1>0, <2>3, GoEffect DEF Domains, Fields, At, Kept, Poll
  <2> QED BY <2>1, <2>2, <2>3 DEF Poll
<1>2. RunnerShape'
  BY <1>1 DEF RunnerInv, RunnerShape, CallShape, SlotShape, StopShape, Kinds, Kept, Domains,
              Fields, Early, Holding, Registered
<1>3. OneHolder'
  BY <1>1 DEF RunnerInv, OneHolder, HolderIsActive, OneAtATime, HolderIsRegistered,
              RegisteredHolds, TokenIsHeld, ChildIsHeld, Holding, Registered, Kept
<1>4. Closing'
  BY <1>1 DEF RunnerInv, RunnerShape, SlotShape, Closing, EpochsPast, ClosingRefuses,
              ClosingOutdates, ClosedIsFree, Kept, Queueing
<1>5. CutOffs'
  <2>1. CutIsLost'
    BY <1>1 DEF RunnerInv, CutOffs, CutIsLost, Lost, BeforeStart, Kept
  <2>2. NoAnswerYet'
    BY <1>1 DEF RunnerInv, CutOffs, NoAnswerYet, Early, BeforeStart, Kept
  <2>3. JoinFails'
    BY <1>1 DEF RunnerInv, CutOffs, JoinFails, Kept
  <2>4. SeenIsOutdated'
    BY <1>1 DEF RunnerInv, RunnerShape, StopShape, CutOffs, SeenIsOutdated, BeforeStart, Kept
  <2>5. SeenHasToken'
    BY <1>1 DEF RunnerInv, RunnerShape, StopShape, CutOffs, SeenIsOutdated, SeenHasToken,
                BeforeStart, Kept
  <2> QED BY <2>1, <2>2, <2>3, <2>4, <2>5 DEF CutOffs
<1>6. Tickets'
  BY <1>1 DEF RunnerInv, RunnerShape, SlotShape, CallShape, Early, Tickets, Numbered, OwnTicket,
              Kept
<1>7. Undisturbed'
  BY <1>1 DEF RunnerInv, RunnerShape, SlotShape, Undisturbed, NotLost, LastTicket, Follower,
              Kept
<1> QED BY <1>2, <1>3, <1>4, <1>5, <1>6, <1>7 DEF RunnerInv

LEMMA LookStep ==
  ASSUME NamesApart, RunnerInv, NEW r \in Requests, Look(r)
  PROVE  RunnerInv'
<1>0. Domains(req)
  BY DEF RunnerInv, RunnerShape, CallShape, Domains, Fields
<1>1. /\ Domains(req')
      /\ \A q \in Requests \ {r} : Kept(q)
      /\ req[r].pc = "look"
      /\ \/ req'[r].pc = "clear" /\ req'[r].child = "none"
            /\ req'[r].answer \in {"ok", "failed"}
         \/ req'[r].pc = "poll" /\ req'[r].child = req[r].child
            /\ req'[r].answer = req[r].answer
      /\ req'[r].ticket = req[r].ticket
      /\ req'[r].epoch = req[r].epoch
      /\ req'[r].token = req[r].token
      /\ req'[r].cut = req[r].cut
      /\ kind' = kind
      /\ slot' = slot
      /\ stop' = stop
  <2>1. CASE req' = Result(r, "ok", "none")
    BY <1>0, <2>1 DEF Domains, Fields, At, Kept, Look, Result, Go
  <2>2. CASE req' = Result(r, "failed", "none")
    BY <1>0, <2>2 DEF Domains, Fields, At, Kept, Look, Result, Go
  <2>3. CASE req' = Go(req, r, "poll")
    BY <1>0, <2>3 DEF Domains, Fields, At, Kept, Look, Result, Go
  <2> QED BY <2>1, <2>2, <2>3 DEF Look, Result, Go, At
<1>2. RunnerShape'
  BY <1>1 DEF RunnerInv, RunnerShape, CallShape, SlotShape, StopShape, Kinds, Kept, Domains,
              Fields, Early, Holding, Registered
<1>3. OneHolder'
  BY <1>1 DEF RunnerInv, OneHolder, HolderIsActive, OneAtATime, HolderIsRegistered,
              RegisteredHolds, TokenIsHeld, ChildIsHeld, Holding, Registered, Kept
<1>4. Closing'
  BY <1>1 DEF RunnerInv, RunnerShape, SlotShape, Closing, EpochsPast, ClosingRefuses,
              ClosingOutdates, ClosedIsFree, Kept, Queueing
<1>5. CutOffs'
  <2>1. CutIsLost'
    BY <1>1 DEF RunnerInv, CutOffs, CutIsLost, Lost, BeforeStart, Kept
  <2>2. NoAnswerYet'
    BY <1>1 DEF RunnerInv, CutOffs, NoAnswerYet, Early, BeforeStart, Kept
  <2>3. JoinFails'
    BY <1>1 DEF RunnerInv, CutOffs, JoinFails, Kept
  <2>4. SeenIsOutdated'
    BY <1>1 DEF RunnerInv, RunnerShape, StopShape, CutOffs, SeenIsOutdated, BeforeStart, Kept
  <2>5. SeenHasToken'
    BY <1>1 DEF RunnerInv, RunnerShape, StopShape, CutOffs, SeenIsOutdated, SeenHasToken,
                BeforeStart, Kept
  <2> QED BY <2>1, <2>2, <2>3, <2>4, <2>5 DEF CutOffs
<1>6. Tickets'
  BY <1>1 DEF RunnerInv, RunnerShape, SlotShape, CallShape, Early, Tickets, Numbered, OwnTicket,
              Kept
<1>7. Undisturbed'
  BY <1>1 DEF RunnerInv, RunnerShape, SlotShape, Undisturbed, NotLost, LastTicket, Follower,
              Kept
<1> QED BY <1>2, <1>3, <1>4, <1>5, <1>6, <1>7 DEF RunnerInv

LEMMA JoinStep ==
  ASSUME NamesApart, RunnerInv, NEW r \in Requests, Join(r)
  PROVE  RunnerInv'
<1>0. Domains(req)
  BY DEF RunnerInv, RunnerShape, CallShape, Domains, Fields
<1>1. /\ Domains(req')
      /\ \A q \in Requests \ {r} : Kept(q)
      /\ req[r].pc = "join"
      /\ req'[r].pc = "clear"
      /\ req'[r].child = "none"
      /\ req'[r].ticket = req[r].ticket
      /\ req'[r].epoch = req[r].epoch
      /\ req'[r].token = req[r].token
      /\ req'[r].cut = req[r].cut
      /\ req'[r].answer = req[r].answer
      /\ kind' = kind
      /\ slot' = slot
      /\ stop' = stop
  BY <1>0 DEF Domains, Fields, At, Kept, Join, Result
<1>2. RunnerShape'
  BY <1>1 DEF RunnerInv, RunnerShape, CallShape, SlotShape, StopShape, Kinds, Kept, Domains,
              Fields, Early, Holding, Registered
<1>3. OneHolder'
  BY <1>1 DEF RunnerInv, OneHolder, HolderIsActive, OneAtATime, HolderIsRegistered,
              RegisteredHolds, TokenIsHeld, ChildIsHeld, Holding, Registered, Kept
<1>4. Closing'
  BY <1>1 DEF RunnerInv, RunnerShape, SlotShape, Closing, EpochsPast, ClosingRefuses,
              ClosingOutdates, ClosedIsFree, Kept, Queueing
<1>5. CutOffs'
  <2>1. CutIsLost'
    BY <1>1 DEF RunnerInv, CutOffs, CutIsLost, Lost, BeforeStart, Kept
  <2>2. NoAnswerYet'
    BY <1>1 DEF RunnerInv, CutOffs, NoAnswerYet, Early, BeforeStart, Kept
  <2>3. JoinFails'
    BY <1>1 DEF RunnerInv, CutOffs, JoinFails, Kept
  <2>4. SeenIsOutdated'
    BY <1>1 DEF RunnerInv, RunnerShape, StopShape, CutOffs, SeenIsOutdated, BeforeStart, Kept
  <2>5. SeenHasToken'
    BY <1>1 DEF RunnerInv, RunnerShape, StopShape, CutOffs, SeenIsOutdated, SeenHasToken,
                BeforeStart, Kept
  <2> QED BY <2>1, <2>2, <2>3, <2>4, <2>5 DEF CutOffs
<1>6. Tickets'
  BY <1>1 DEF RunnerInv, RunnerShape, SlotShape, CallShape, Early, Tickets, Numbered, OwnTicket,
              Kept
<1>7. Undisturbed'
  BY <1>1 DEF RunnerInv, RunnerShape, SlotShape, Undisturbed, NotLost, LastTicket, Follower,
              Kept
<1> QED BY <1>2, <1>3, <1>4, <1>5, <1>6, <1>7 DEF RunnerInv

LEMMA ClearStep ==
  ASSUME NamesApart, RunnerInv, NEW r \in Requests, Clear(r)
  PROVE  RunnerInv'
<1>0. Domains(req)
  BY DEF RunnerInv, RunnerShape, CallShape, Domains, Fields
<1>1. /\ Domains(req')
      /\ \A q \in Requests \ {r} : Kept(q)
      /\ req[r].pc = "clear"
      /\ kind # "document"
      /\ req'[r].pc = "release"
      /\ req'[r].ticket = req[r].ticket
      /\ req'[r].epoch = req[r].epoch
      /\ req'[r].token = req[r].token
      /\ req'[r].child = req[r].child
      /\ req'[r].cut = req[r].cut
      /\ req'[r].answer = req[r].answer
      /\ slot'.registered = IF slot.registered = r THEN None ELSE slot.registered
      /\ slot'.active = slot.active
      /\ slot'.next = slot.next
      /\ slot'.pending = slot.pending
      /\ slot'.epoch = slot.epoch
      /\ slot'.unavailable = slot.unavailable
      /\ slot'.serving = slot.serving
      /\ slot'.cutoff = slot.cutoff
      /\ DOMAIN slot' = DOMAIN slot
      /\ kind' = kind
      /\ stop' = stop
  BY <1>0 DEF Domains, Fields, At, Kept, Clear, Go, RunnerInv, RunnerShape, SlotShape
<1>2. RunnerShape'
  BY <1>1 DEF RunnerInv, RunnerShape, CallShape, SlotShape, StopShape, Kinds, Kept, Domains,
              Fields, Early, Holding, Registered
<1>3. OneHolder'
  BY <1>1 DEF RunnerInv, OneHolder, HolderIsActive, OneAtATime, HolderIsRegistered,
              RegisteredHolds, TokenIsHeld, ChildIsHeld, Holding, Registered, Kept
<1>4. Closing'
  BY <1>1 DEF RunnerInv, RunnerShape, SlotShape, Closing, EpochsPast, ClosingRefuses,
              ClosingOutdates, ClosedIsFree, Kept, Queueing
<1>5. CutOffs'
  <2>1. CutIsLost'
    BY <1>1 DEF RunnerInv, CutOffs, CutIsLost, Lost, BeforeStart, Kept
  <2>2. NoAnswerYet'
    BY <1>1 DEF RunnerInv, CutOffs, NoAnswerYet, Early, BeforeStart, Kept
  <2>3. JoinFails'
    BY <1>1 DEF RunnerInv, CutOffs, JoinFails, Kept
  <2>4. SeenIsOutdated'
    BY <1>1 DEF RunnerInv, RunnerShape, StopShape, CutOffs, SeenIsOutdated, BeforeStart, Kept
  <2>5. SeenHasToken'
    BY <1>1 DEF RunnerInv, RunnerShape, StopShape, CutOffs, SeenIsOutdated, SeenHasToken,
                BeforeStart, Kept
  <2> QED BY <2>1, <2>2, <2>3, <2>4, <2>5 DEF CutOffs
<1>6. Tickets'
  BY <1>1 DEF RunnerInv, RunnerShape, SlotShape, CallShape, Early, Tickets, Numbered, OwnTicket,
              Kept
<1>7. Undisturbed'
  BY <1>1 DEF RunnerInv, RunnerShape, SlotShape, Undisturbed, NotLost, LastTicket, Follower,
              Kept
<1> QED BY <1>2, <1>3, <1>4, <1>5, <1>6, <1>7 DEF RunnerInv

LEMMA ReleaseStep ==
  ASSUME NamesApart, RunnerInv, NEW r \in Requests, Release(r)
  PROVE  RunnerInv'
<1>0. Domains(req)
  BY DEF RunnerInv, RunnerShape, CallShape, Domains, Fields
<1>1. /\ Domains(req')
      /\ \A q \in Requests \ {r} : Kept(q)
      /\ req[r].pc = IF kind = "document" THEN "clear" ELSE "release"
      /\ req'[r].pc = "done"
      /\ ~req'[r].token
      /\ req'[r].epoch = 0
      /\ req'[r].ticket = req[r].ticket
      /\ req'[r].child = req[r].child
      /\ req'[r].cut = req[r].cut
      /\ req'[r].answer = req[r].answer
      /\ ~slot'.active
      /\ slot'.registered = IF kind = "document"
         /\ slot.registered = r THEN None ELSE slot.registered
      /\ slot'.next = slot.next
      /\ slot'.pending = slot.pending
      /\ slot'.epoch = slot.epoch
      /\ slot'.unavailable = slot.unavailable
      /\ slot'.cutoff = slot.cutoff
      /\ DOMAIN slot' = DOMAIN slot
      /\ kind' = kind
      /\ stop' = stop
  <2>1. At(r, IF kind = "document" THEN "clear" ELSE "release")
    BY DEF Release
  <2>2. req[r].pc # "wait"
    BY <2>1 DEF At
  <2>3. req' = Answer(Wake(req), r, req[r].answer)
    BY DEF Release
  <2>4. Domains(req') /\ \A q \in Requests \ {r} : Kept(q)
    BY <1>0, <2>3, WakeEffect, AnswerEffect DEF Kept, Fields
  <2>5. /\ req'[r].pc = "done" /\ ~req'[r].token /\ req'[r].epoch = 0
        /\ req'[r].ticket = req[r].ticket /\ req'[r].child = req[r].child
        /\ req'[r].cut = req[r].cut /\ req'[r].answer = req[r].answer
    BY <1>0, <2>3, WakeEffect, AnswerEffect DEF Fields
  <2>6. CASE kind = "document"
    BY <2>1, <2>4, <2>5, <2>6 DEF Release, At, RunnerInv, RunnerShape, SlotShape
  <2>7. CASE kind # "document"
    BY <2>1, <2>4, <2>5, <2>7 DEF Release, At, RunnerInv, RunnerShape, SlotShape
  <2> QED BY <2>6, <2>7
<1>2. RunnerShape'
  BY <1>1 DEF RunnerInv, RunnerShape, CallShape, SlotShape, StopShape, Kinds, Kept, Domains,
              Fields, Early, Holding, Registered
<1>3. OneHolder'
  BY <1>1 DEF RunnerInv, OneHolder, HolderIsActive, OneAtATime, HolderIsRegistered,
              RegisteredHolds, TokenIsHeld, ChildIsHeld, Holding, Registered, Kept
<1>4. Closing'
  BY <1>1 DEF RunnerInv, RunnerShape, SlotShape, Closing, EpochsPast, ClosingRefuses,
              ClosingOutdates, ClosedIsFree, Kept, Queueing
<1>5. CutOffs'
  <2>1. CutIsLost'
    BY <1>1 DEF RunnerInv, CutOffs, CutIsLost, Lost, BeforeStart, Kept
  <2>2. NoAnswerYet'
    BY <1>1 DEF RunnerInv, CutOffs, NoAnswerYet, Early, BeforeStart, Kept
  <2>3. JoinFails'
    BY <1>1 DEF RunnerInv, CutOffs, JoinFails, Kept
  <2>4. SeenIsOutdated'
    BY <1>1 DEF RunnerInv, RunnerShape, StopShape, CutOffs, SeenIsOutdated, BeforeStart, Kept
  <2>5. SeenHasToken'
    BY <1>1 DEF RunnerInv, RunnerShape, StopShape, CutOffs, SeenIsOutdated, SeenHasToken,
                BeforeStart, Kept
  <2> QED BY <2>1, <2>2, <2>3, <2>4, <2>5 DEF CutOffs
<1>6. Tickets'
  BY <1>1 DEF RunnerInv, RunnerShape, SlotShape, CallShape, Early, Tickets, Numbered, OwnTicket,
              Kept
<1>7. Undisturbed'
  BY <1>1 DEF RunnerInv, RunnerShape, SlotShape, Undisturbed, NotLost, LastTicket, Follower,
              Kept
<1> QED BY <1>2, <1>3, <1>4, <1>5, <1>6, <1>7 DEF RunnerInv

LEMMA SignalActiveStep ==
  ASSUME NamesApart, RunnerInv, NEW r \in Requests, SignalActive(r)
  PROVE  RunnerInv'
<1>0. Domains(req)
  BY DEF RunnerInv, RunnerShape, CallShape, Domains, Fields
<1>1. /\ Domains(req')
      /\ req[r].pc = "signal"
      /\ req'[r].pc = "unpend"
      /\ req'[r].ticket = req[r].ticket
      /\ req'[r].epoch = req[r].epoch
      /\ req'[r].child = req[r].child
      /\ req'[r].cut = req[r].cut
      /\ req'[r].answer = req[r].answer
      /\ req'[r].token = req[r].token
      /\ \A q \in Requests \ {r} : Signalled(q)
      /\ kind' = kind
      /\ slot' = slot
      /\ stop' = stop
  <2>1. kind = "theme" /\ req[r].pc = "signal" /\ kind' = kind /\ slot' = slot /\ stop' = stop
    BY DEF SignalActive, At, RunnerInv, RunnerShape, Kinds
  <2>2. slot.registered # r
    BY <2>1 DEF RunnerInv, OneHolder, RegisteredHolds, Registered, NamesApart, Requests
  <2>3. req' = Go(SetToken(req), r, "unpend")
    BY DEF SignalActive
  <2>4. PICK q : q = SetToken(req)
    OBVIOUS
  <2>5. Domains(q) /\ q[r] = req[r] /\ \A o \in Requests \ {r} : TokenSet(o, q)
    BY <1>0, <2>2, <2>4, SetTokenEffect
  <2>6. Domains(req') /\ (\A o \in Requests \ {r} : req'[o] = q[o]) /\ req'[r].pc = "unpend"
        /\ \A f \in Fields \ {"pc"} : req'[r][f] = q[r][f]
    BY <2>3, <2>4, <2>5, GoEffect
  <2> QED BY <2>1, <2>5, <2>6 DEF Signalled, TokenSet, Fields
<1>2. RunnerShape'
  BY <1>1 DEF RunnerInv, RunnerShape, CallShape, SlotShape, StopShape, Kinds, Signalled,
              Domains, Fields, Early, Holding, Registered
<1>3. OneHolder'
  <2>1. HolderIsActive'
    BY <1>1 DEF RunnerInv, OneHolder, HolderIsActive, Holding, Registered, Signalled
  <2>2. OneAtATime'
    BY <1>1 DEF RunnerInv, OneHolder, OneAtATime, Holding, Registered, Signalled
  <2>3. HolderIsRegistered'
    BY <1>1 DEF RunnerInv, OneHolder, HolderIsRegistered, Holding, Registered, Signalled
  <2>4. RegisteredHolds'
    BY <1>1 DEF RunnerInv, OneHolder, RegisteredHolds, Holding, Registered, Signalled
  <2>5. TokenIsHeld'
    <3>1. \A q \in Requests : slot.registered = q => req[q].pc \in Registered
      BY DEF NamesApart, Requests, RunnerInv, OneHolder, RegisteredHolds
    <3> QED BY <1>1, <3>1 DEF RunnerInv, OneHolder, TokenIsHeld, Registered, Signalled
  <2>6. ChildIsHeld'
    BY <1>1 DEF RunnerInv, OneHolder, ChildIsHeld, Holding, Registered, Signalled
  <2> QED BY <2>1, <2>2, <2>3, <2>4, <2>5, <2>6 DEF OneHolder
<1>4. Closing'
  BY <1>1 DEF RunnerInv, RunnerShape, SlotShape, Closing, EpochsPast, ClosingRefuses,
              ClosingOutdates, ClosedIsFree, Signalled, Queueing
<1>5. CutOffs'
  <2>1. CutIsLost'
    BY <1>1 DEF RunnerInv, CutOffs, CutIsLost, Lost, BeforeStart, Signalled
  <2>2. NoAnswerYet'
    BY <1>1 DEF RunnerInv, CutOffs, NoAnswerYet, Early, BeforeStart, Signalled
  <2>3. JoinFails'
    BY <1>1 DEF RunnerInv, CutOffs, JoinFails, Signalled
  <2>4. SeenIsOutdated'
    BY <1>1 DEF RunnerInv, RunnerShape, StopShape, CutOffs, SeenIsOutdated, BeforeStart,
                Signalled
  <2>5. SeenHasToken'
    BY <1>1 DEF RunnerInv, RunnerShape, StopShape, CutOffs, SeenIsOutdated, SeenHasToken,
                BeforeStart, Signalled
  <2> QED BY <2>1, <2>2, <2>3, <2>4, <2>5 DEF CutOffs
<1>6. Tickets'
  BY <1>1 DEF RunnerInv, RunnerShape, SlotShape, CallShape, Early, Tickets, Numbered, OwnTicket,
              Signalled
<1>7. Undisturbed'
  <2>1. Follower({"unpend", "queue"})'
    BY <1>1 DEF Follower
  <2>2. Follower({"queue"}) => Follower({"queue"})'
    BY <1>1 DEF Follower, Signalled
  <2>3. kind = "theme"
    BY <1>1 DEF RunnerInv, RunnerShape, Kinds
  <2>4. stop.n = 0 => \A q \in Requests : NotLost(q)'
    BY <1>1, <2>1, <2>2, <2>3 DEF RunnerInv, Undisturbed, NotLost, LastTicket, Signalled
  <2> QED BY <1>1, <2>4 DEF RunnerInv, Undisturbed
<1> QED BY <1>2, <1>3, <1>4, <1>5, <1>6, <1>7 DEF RunnerInv

LEMMA BeginStopStep ==
  ASSUME NamesApart, RunnerInv, BeginStop
  PROVE  RunnerInv'
<1>0. Domains(req)
  BY DEF RunnerInv, RunnerShape, CallShape, Domains, Fields
<1>1. /\ Domains(req')
      /\ stop.pc = "idle"
      /\ stop'.n = stop.n + 1
      /\ stop'.seen = {}
      /\ DOMAIN stop' = DOMAIN stop
      /\ \/ kind = "document" /\ stop'.pc = "documents"
         \/ kind = "theme" /\ ~stop'.close /\ stop'.pc = "token"
         \/ kind = "scene" /\ stop'.close /\ stop'.pc = "unavailable"
         \/ kind = "scene" /\ ~stop'.close /\ stop'.pc = "bump"
      /\ req' = req
      /\ kind' = kind
      /\ slot' = slot
  <2>1. PICK close \in BOOLEAN :
          /\ close => kind = "scene"
          /\ stop' = [stop EXCEPT !.n = @ + 1, !.close = close, !.seen = {},
               !.pc = CASE kind = "document" -> "documents" [] kind = "theme" -> "token"
                        [] kind = "scene" -> IF close THEN "unavailable" ELSE "bump"]
    BY DEF BeginStop
  <2>2. stop.pc = "idle" /\ req' = req /\ kind' = kind /\ slot' = slot
    BY DEF BeginStop
  <2>3. stop'.close = close
    BY <2>1, Zenon DEF RunnerInv, RunnerShape, StopShape
  <2>4. stop'.n = stop.n + 1 /\ stop'.seen = {} /\ DOMAIN stop' = DOMAIN stop
    BY <2>1 DEF RunnerInv, RunnerShape, StopShape
  <2>5. CASE kind = "document"
    BY <1>0, <2>1, <2>2, <2>3, <2>4, <2>5 DEF RunnerInv, RunnerShape, StopShape
  <2>6. CASE kind = "theme"
    BY <1>0, <2>1, <2>2, <2>3, <2>4, <2>6 DEF RunnerInv, RunnerShape, StopShape
  <2>7. CASE kind = "scene"
    BY <1>0, <2>1, <2>2, <2>3, <2>4, <2>7 DEF RunnerInv, RunnerShape, StopShape
  <2> QED BY <2>5, <2>6, <2>7 DEF RunnerInv, RunnerShape, Kinds
<1>2. RunnerShape'
  BY <1>1 DEF RunnerInv, RunnerShape, CallShape, SlotShape, StopShape, Kinds, Kept, Domains,
              Fields, Early, Holding, Registered
<1>3. OneHolder'
  BY <1>1 DEF RunnerInv, OneHolder, HolderIsActive, OneAtATime, HolderIsRegistered,
              RegisteredHolds, TokenIsHeld, ChildIsHeld, Holding, Registered, Kept
<1>4. Closing'
  BY <1>1 DEF RunnerInv, RunnerShape, SlotShape, Closing, EpochsPast, ClosingRefuses,
              ClosingOutdates, ClosedIsFree, Kept, Queueing
<1>5. CutOffs'
  <2>1. CutIsLost'
    BY <1>1 DEF RunnerInv, CutOffs, CutIsLost, Lost
  <2>2. NoAnswerYet'
    BY <1>1 DEF RunnerInv, CutOffs, NoAnswerYet, Early, BeforeStart, Kept
  <2>3. JoinFails'
    BY <1>1 DEF RunnerInv, CutOffs, JoinFails, Kept
  <2>4. SeenIsOutdated'
    BY <1>1 DEF RunnerInv, RunnerShape, StopShape, CutOffs, SeenIsOutdated, BeforeStart, Kept
  <2>5. SeenHasToken'
    BY <1>1 DEF RunnerInv, RunnerShape, StopShape, CutOffs, SeenIsOutdated, SeenHasToken,
                BeforeStart, Kept
  <2> QED BY <2>1, <2>2, <2>3, <2>4, <2>5 DEF CutOffs
<1>6. Tickets'
  BY <1>1 DEF RunnerInv, RunnerShape, SlotShape, CallShape, Early, Tickets, Numbered, OwnTicket,
              Kept
<1>7. Undisturbed'
  BY <1>1 DEF RunnerInv, RunnerShape, StopShape, Undisturbed
<1> QED BY <1>2, <1>3, <1>4, <1>5, <1>6, <1>7 DEF RunnerInv

LEMMA MakeUnavailableStep ==
  ASSUME NamesApart, RunnerInv, MakeUnavailable
  PROVE  RunnerInv'
<1>0. Domains(req)
  BY DEF RunnerInv, RunnerShape, CallShape, Domains, Fields
<1>1. /\ Domains(req')
      /\ stop.pc = "unavailable"
      /\ stop'.pc = "bump"
      /\ DOMAIN stop' = DOMAIN stop
      /\ slot'.unavailable
      /\ DOMAIN slot' = DOMAIN slot
      /\ req' = req
      /\ kind' = kind
      /\ stop'.close = stop.close
      /\ stop'.n = stop.n
      /\ stop'.seen = stop.seen
      /\ slot'.active = slot.active
      /\ slot'.pending = slot.pending
      /\ slot'.next = slot.next
      /\ slot'.registered = slot.registered
      /\ slot'.epoch = slot.epoch
      /\ slot'.serving = slot.serving
      /\ slot'.cutoff = slot.cutoff
  <2>1. slot'.unavailable
    BY Zenon DEF MakeUnavailable, RunnerInv, RunnerShape, SlotShape
  <2> QED BY <1>0, <2>1 DEF MakeUnavailable, RunnerInv, RunnerShape, SlotShape, StopShape
<1>2. RunnerShape'
  BY <1>1 DEF RunnerInv, RunnerShape, CallShape, SlotShape, StopShape, Kinds, Kept, Domains,
              Fields, Early, Holding, Registered
<1>3. OneHolder'
  BY <1>1 DEF RunnerInv, OneHolder, HolderIsActive, OneAtATime, HolderIsRegistered,
              RegisteredHolds, TokenIsHeld, ChildIsHeld, Holding, Registered, Kept
<1>4. Closing'
  <2>1. EpochsPast'
    BY <1>1 DEF RunnerInv, RunnerShape, SlotShape, Closing, EpochsPast, Kept
  <2>2. ClosingRefuses'
    BY <1>1 DEF RunnerInv, RunnerShape, Kinds, ClosingRefuses
  <2>3. ClosingOutdates'
    BY <1>1 DEF RunnerInv, RunnerShape, SlotShape, Closing, ClosingRefuses, ClosingOutdates,
                Queueing, Kept
  <2>4. ClosedIsFree'
    BY <1>1 DEF RunnerInv, RunnerShape, Kinds, Closing, ClosingOutdates, ClosedIsFree, Queueing
  <2> QED BY <2>1, <2>2, <2>3, <2>4 DEF Closing
<1>5. CutOffs'
  <2>1. CutIsLost'
    BY <1>1 DEF RunnerInv, CutOffs, CutIsLost, Lost, BeforeStart, Kept
  <2>2. NoAnswerYet'
    BY <1>1 DEF RunnerInv, CutOffs, NoAnswerYet, Early, BeforeStart, Kept
  <2>3. JoinFails'
    BY <1>1 DEF RunnerInv, CutOffs, JoinFails, Kept
  <2>4. SeenIsOutdated'
    BY <1>1 DEF RunnerInv, RunnerShape, StopShape, CutOffs, SeenIsOutdated, BeforeStart, Kept
  <2>5. SeenHasToken'
    BY <1>1 DEF RunnerInv, RunnerShape, StopShape, CutOffs, SeenIsOutdated, SeenHasToken,
                BeforeStart, Kept
  <2> QED BY <2>1, <2>2, <2>3, <2>4, <2>5 DEF CutOffs
<1>6. Tickets'
  BY <1>1 DEF RunnerInv, RunnerShape, SlotShape, CallShape, Early, Tickets, Numbered, OwnTicket,
              Kept
<1>7. Undisturbed'
  BY <1>1 DEF RunnerInv, RunnerShape, SlotShape, Undisturbed, NotLost, LastTicket, Follower,
              Kept
<1> QED BY <1>2, <1>3, <1>4, <1>5, <1>6, <1>7 DEF RunnerInv

LEMMA BumpStep ==
  ASSUME NamesApart, RunnerInv, Bump
  PROVE  RunnerInv'
<1>0. Domains(req)
  BY DEF RunnerInv, RunnerShape, CallShape, Domains, Fields
<1>1. /\ Domains(req')
      /\ stop.pc = "bump"
      /\ kind = "scene"
      /\ stop'.pc = "token"
      /\ DOMAIN stop' = DOMAIN stop
      /\ slot'.epoch = slot.epoch + 1
      /\ DOMAIN slot' = DOMAIN slot
      /\ stop'.seen \subseteq Requests
      /\ \A q \in stop'.seen : req[q].pc # "idle"
      /\ slot'.epoch \in Nat
      /\ \A q \in Requests : req[q].epoch \in Nat /\ req[q].epoch < slot'.epoch
      /\ req' = req
      /\ kind' = kind
      /\ stop'.close = stop.close
      /\ stop'.n = stop.n
      /\ slot'.active = slot.active
      /\ slot'.pending = slot.pending
      /\ slot'.next = slot.next
      /\ slot'.registered = slot.registered
      /\ slot'.unavailable = slot.unavailable
      /\ slot'.serving = slot.serving
      /\ slot'.cutoff = slot.cutoff
  <2>1. /\ stop.pc = "bump" /\ stop'.pc = "token" /\ DOMAIN stop' = DOMAIN stop
        /\ stop'.close = stop.close /\ stop'.n = stop.n /\ stop'.seen = Begun
    BY DEF Bump, RunnerInv, RunnerShape, StopShape
  <2>2. slot.epoch \in Nat /\ slot'.epoch = slot.epoch + 1
    BY DEF Bump, RunnerInv, RunnerShape, SlotShape
  <2>3. \A q \in Requests : req[q].epoch \in Nat /\ req[q].epoch <= slot.epoch
    BY DEF RunnerInv, RunnerShape, CallShape, Closing, EpochsPast
  <2>4. \A q \in Requests : req[q].epoch < slot'.epoch
    BY <2>2, <2>3
  <2> QED BY <1>0, <2>1, <2>2, <2>3, <2>4 DEF Bump, Begun, RunnerInv, RunnerShape, SlotShape,
             Kinds
<1>2. RunnerShape'
  <2>1. CallShape'
    BY <1>1 DEF RunnerInv, RunnerShape, CallShape, Early, Kept, Domains, Fields
  <2>2. SlotShape'
    BY <1>1 DEF RunnerInv, RunnerShape, SlotShape
  <2>3. StopShape'
    BY <1>1 DEF RunnerInv, RunnerShape, StopShape
  <2>4. Kinds'
    BY <1>1 DEF RunnerInv, RunnerShape, Kinds, Kept, Early, Holding, Registered
  <2> QED BY <2>1, <2>2, <2>3, <2>4 DEF RunnerShape
<1>3. OneHolder'
  BY <1>1 DEF RunnerInv, OneHolder, HolderIsActive, OneAtATime, HolderIsRegistered,
              RegisteredHolds, TokenIsHeld, ChildIsHeld, Holding, Registered, Kept
<1>4. Closing'
  <2>1. EpochsPast'
    BY <1>1 DEF RunnerInv, RunnerShape, SlotShape, Closing, EpochsPast, Kept
  <2>2. ClosingRefuses'
    BY <1>1 DEF RunnerInv, Closing, ClosingRefuses
  <2>3. ClosingOutdates'
    BY <1>1 DEF RunnerInv, RunnerShape, SlotShape, Closing, ClosingRefuses, ClosingOutdates,
                Queueing, Kept
  <2>4. ClosedIsFree'
    BY <1>1 DEF RunnerInv, RunnerShape, Kinds, Closing, ClosingOutdates, ClosedIsFree, Queueing
  <2> QED BY <2>1, <2>2, <2>3, <2>4 DEF Closing
<1>5. CutOffs'
  <2>1. CutIsLost'
    BY <1>1 DEF RunnerInv, CutOffs, CutIsLost, Lost, BeforeStart, Kept
  <2>2. NoAnswerYet'
    BY <1>1 DEF RunnerInv, CutOffs, NoAnswerYet, Early, BeforeStart, Kept
  <2>3. JoinFails'
    BY <1>1 DEF RunnerInv, CutOffs, JoinFails, Kept
  <2>4. SeenIsOutdated'
    BY <1>1 DEF RunnerInv, RunnerShape, StopShape, CutOffs, SeenIsOutdated, BeforeStart, Kept
  <2>5. SeenHasToken'
    BY <1>1 DEF RunnerInv, RunnerShape, StopShape, CutOffs, SeenIsOutdated, SeenHasToken,
                BeforeStart, Kept
  <2> QED BY <2>1, <2>2, <2>3, <2>4, <2>5 DEF CutOffs
<1>6. Tickets'
  BY <1>1 DEF RunnerInv, RunnerShape, SlotShape, CallShape, Early, Tickets, Numbered, OwnTicket,
              Kept
<1>7. Undisturbed'
  BY <1>1 DEF RunnerInv, RunnerShape, SlotShape, Undisturbed, NotLost, LastTicket, Follower,
              Kept
<1> QED BY <1>2, <1>3, <1>4, <1>5, <1>6, <1>7 DEF RunnerInv

LEMMA CancelTokenStep ==
  ASSUME NamesApart, RunnerInv, CancelToken
  PROVE  RunnerInv'
<1>0. Domains(req)
  BY DEF RunnerInv, RunnerShape, CallShape, Domains, Fields
<1>1. /\ Domains(req')
      /\ stop.pc = "token"
      /\ stop'.pc = "pending"
      /\ DOMAIN stop' = DOMAIN stop
      /\ \A q \in Requests : Signalled(q)
      /\ slot' = slot
      /\ kind' = kind
      /\ stop'.close = stop.close
      /\ stop'.n = stop.n
      /\ stop'.seen = stop.seen
  <2>1. req' = SetToken(req)
    BY DEF CancelToken
  <2>2. Domains(req') /\ \A q \in Requests : TokenSet(q, req')
    BY <1>0, <2>1, SetTokenEffect
  <2>3. /\ stop.pc = "token" /\ stop'.pc = "pending" /\ DOMAIN stop' = DOMAIN stop
        /\ stop'.close = stop.close /\ stop'.n = stop.n /\ stop'.seen = stop.seen
    BY DEF CancelToken, RunnerInv, RunnerShape, StopShape
  <2>4. \A q \in Requests : Signalled(q)
    BY <2>2 DEF TokenSet, Signalled, Fields
  <2> QED BY <2>2, <2>3, <2>4 DEF CancelToken
<1>2. RunnerShape'
  BY <1>1 DEF RunnerInv, RunnerShape, CallShape, SlotShape, StopShape, Kinds, Signalled,
              Domains, Fields, Early, Holding, Registered
<1>3. OneHolder'
  <2>1. HolderIsActive'
    BY <1>1 DEF RunnerInv, OneHolder, HolderIsActive, Holding, Registered, Signalled
  <2>2. OneAtATime'
    BY <1>1 DEF RunnerInv, OneHolder, OneAtATime, Holding, Registered, Signalled
  <2>3. HolderIsRegistered'
    BY <1>1 DEF RunnerInv, OneHolder, HolderIsRegistered, Holding, Registered, Signalled
  <2>4. RegisteredHolds'
    BY <1>1 DEF RunnerInv, OneHolder, RegisteredHolds, Holding, Registered, Signalled
  <2>5. TokenIsHeld'
    <3>1. \A q \in Requests : slot.registered = q => req[q].pc \in Registered
      BY DEF NamesApart, Requests, RunnerInv, OneHolder, RegisteredHolds
    <3> QED BY <1>1, <3>1 DEF RunnerInv, OneHolder, TokenIsHeld, Registered, Signalled
  <2>6. ChildIsHeld'
    BY <1>1 DEF RunnerInv, OneHolder, ChildIsHeld, Holding, Registered, Signalled
  <2> QED BY <2>1, <2>2, <2>3, <2>4, <2>5, <2>6 DEF OneHolder
<1>4. Closing'
  BY <1>1 DEF RunnerInv, RunnerShape, SlotShape, Closing, EpochsPast, ClosingRefuses,
              ClosingOutdates, ClosedIsFree, Signalled, Queueing
<1>5. CutOffs'
  <2>1. CutIsLost'
    BY <1>1 DEF RunnerInv, CutOffs, CutIsLost, Lost, BeforeStart, Signalled
  <2>2. NoAnswerYet'
    BY <1>1 DEF RunnerInv, CutOffs, NoAnswerYet, Early, BeforeStart, Signalled
  <2>3. JoinFails'
    BY <1>1 DEF RunnerInv, CutOffs, JoinFails, Signalled
  <2>4. SeenIsOutdated'
    BY <1>1 DEF RunnerInv, RunnerShape, StopShape, CutOffs, SeenIsOutdated, BeforeStart,
                Signalled
  <2>5. SeenHasToken'
    <3>1. \A q \in Requests : req[q].pc = "start" => slot.registered = q
      BY DEF RunnerInv, OneHolder, HolderIsRegistered, Registered
    <3> QED BY <1>1, <3>1 DEF RunnerInv, RunnerShape, StopShape, SeenHasToken, Signalled
  <2> QED BY <2>1, <2>2, <2>3, <2>4, <2>5 DEF CutOffs
<1>6. Tickets'
  BY <1>1 DEF RunnerInv, RunnerShape, SlotShape, CallShape, Early, Tickets, Numbered, OwnTicket,
              Signalled
<1>7. Undisturbed'
  BY <1>1 DEF RunnerInv, RunnerShape, SlotShape, Undisturbed, NotLost, LastTicket, Follower,
              Signalled
<1> QED BY <1>2, <1>3, <1>4, <1>5, <1>6, <1>7 DEF RunnerInv

LEMMA DrainStep ==
  ASSUME NamesApart, RunnerInv, Drained \/ GiveUp
  PROVE  RunnerInv'
<1>0. Domains(req)
  BY DEF RunnerInv, RunnerShape, CallShape, Domains, Fields
<1>1. /\ Domains(req')
      /\ stop.pc = "drain"
      /\ \/ stop'.pc = "closed" /\ ~slot.active
         \/ stop'.pc = "idle"
      /\ DOMAIN stop' = DOMAIN stop
      /\ req' = req
      /\ kind' = kind
      /\ slot' = slot
      /\ stop'.close = stop.close
      /\ stop'.n = stop.n
      /\ stop'.seen = stop.seen
  BY <1>0 DEF Kept, RunnerInv, RunnerShape, SlotShape, StopShape, Kinds, Drained, GiveUp
<1>2. RunnerShape'
  BY <1>1 DEF RunnerInv, RunnerShape, CallShape, SlotShape, StopShape, Kinds, Kept, Domains,
              Fields, Early, Holding, Registered
<1>3. OneHolder'
  BY <1>1 DEF RunnerInv, OneHolder, HolderIsActive, OneAtATime, HolderIsRegistered,
              RegisteredHolds, TokenIsHeld, ChildIsHeld, Holding, Registered, Kept
<1>4. Closing'
  BY <1>1 DEF RunnerInv, RunnerShape, SlotShape, Closing, EpochsPast, ClosingRefuses,
              ClosingOutdates, ClosedIsFree, Kept, Queueing
<1>5. CutOffs'
  <2>1. CutIsLost'
    BY <1>1 DEF RunnerInv, CutOffs, CutIsLost, Lost, BeforeStart, Kept
  <2>2. NoAnswerYet'
    BY <1>1 DEF RunnerInv, CutOffs, NoAnswerYet, Early, BeforeStart, Kept
  <2>3. JoinFails'
    BY <1>1 DEF RunnerInv, CutOffs, JoinFails, Kept
  <2>4. SeenIsOutdated'
    BY <1>1 DEF RunnerInv, RunnerShape, StopShape, CutOffs, SeenIsOutdated, BeforeStart, Kept
  <2>5. SeenHasToken'
    BY <1>1 DEF RunnerInv, RunnerShape, StopShape, CutOffs, SeenIsOutdated, SeenHasToken,
                BeforeStart, Kept
  <2> QED BY <2>1, <2>2, <2>3, <2>4, <2>5 DEF CutOffs
<1>6. Tickets'
  BY <1>1 DEF RunnerInv, RunnerShape, SlotShape, CallShape, Early, Tickets, Numbered, OwnTicket,
              Kept
<1>7. Undisturbed'
  BY <1>1 DEF RunnerInv, RunnerShape, SlotShape, Undisturbed, NotLost, LastTicket, Follower,
              Kept
<1> QED BY <1>2, <1>3, <1>4, <1>5, <1>6, <1>7 DEF RunnerInv

LEMMA CancelPendingStep ==
  ASSUME NamesApart, RunnerInv, CancelPending
  PROVE  RunnerInv'
<1>0. Domains(req)
  BY DEF RunnerInv, RunnerShape, CallShape, Domains, Fields
<1>1. /\ Domains(req')
      /\ stop.pc = "pending"
      /\ \/ ~stop.close /\ stop'.pc = "idle"
         \/ stop.close /\ stop'.pc = "drain"
      /\ DOMAIN stop' = DOMAIN stop
      /\ kind' = kind
      /\ stop'.close = stop.close
      /\ stop'.n = stop.n
      /\ stop'.seen = stop.seen
      /\ \A q \in Requests : CutKept(q)
      /\ \A q \in Requests : req'[q].cut => req[q].cut \/ (q \in stop.seen /\ NoChildYet(q))
      /\ slot'.active = slot.active
      /\ slot'.next = slot.next
      /\ slot'.registered = slot.registered
      /\ slot'.epoch = slot.epoch
      /\ slot'.unavailable = slot.unavailable
      /\ slot'.serving = slot.serving
      /\ slot'.cutoff = slot.cutoff
      /\ DOMAIN slot' = DOMAIN slot
  <2>1. req' = Wake(CutOff(req, stop.seen))
    BY DEF CancelPending
  <2>2. Domains(CutOff(req, stop.seen))
    BY <1>0, CutOffEffect
  <2>3. Domains(req')
    BY <2>1, <2>2, WakeEffect
  <2>4. \A q \in Requests : CutKept(q)
    BY <1>0, <2>1, <2>2, CutOffEffect, WakeEffect DEF CutKept, Fields
  <2>5. \A q \in Requests : req'[q].cut => req[q].cut \/ (q \in stop.seen /\ NoChildYet(q))
    BY <1>0, <2>1, <2>2, CutOffEffect, WakeEffect DEF Fields
  <2>6. /\ stop.pc = "pending" /\ kind' = kind /\ DOMAIN stop' = DOMAIN stop
        /\ \/ ~stop.close /\ stop'.pc = "idle"
           \/ stop.close /\ stop'.pc = "drain"
        /\ stop'.close = stop.close /\ stop'.n = stop.n /\ stop'.seen = stop.seen
    BY DEF CancelPending, RunnerInv, RunnerShape, StopShape
  <2>7. /\ slot'.active = slot.active /\ slot'.next = slot.next
        /\ slot'.registered = slot.registered /\ slot'.epoch = slot.epoch
        /\ slot'.unavailable = slot.unavailable /\ slot'.serving = slot.serving
        /\ slot'.cutoff = slot.cutoff /\ DOMAIN slot' = DOMAIN slot
    BY DEF CancelPending, RunnerInv, RunnerShape, SlotShape
  <2> QED BY <2>3, <2>4, <2>5, <2>6, <2>7
<1>2. RunnerShape'
  <2>1. CallShape'
    BY <1>1 DEF RunnerInv, RunnerShape, CallShape, Early, CutKept, Domains, Fields
  <2>2. SlotShape'
    BY <1>1 DEF RunnerInv, RunnerShape, SlotShape
  <2>3. StopShape'
    BY <1>1 DEF RunnerInv, RunnerShape, StopShape
  <2>4. Kinds'
    <3>1. stop.close => kind = "scene"
      BY <1>1 DEF RunnerInv, Closing, ClosingRefuses
    <3> QED BY <1>1, <3>1 DEF RunnerInv, RunnerShape, Kinds, CutKept, Early, Holding, Registered
  <2> QED BY <2>1, <2>2, <2>3, <2>4 DEF RunnerShape
<1>3. OneHolder'
  <2>1. HolderIsActive'
    BY <1>1 DEF RunnerInv, OneHolder, HolderIsActive, Holding, Registered, CutKept
  <2>2. OneAtATime'
    BY <1>1 DEF RunnerInv, OneHolder, OneAtATime, Holding, Registered, CutKept
  <2>3. HolderIsRegistered'
    BY <1>1 DEF RunnerInv, OneHolder, HolderIsRegistered, Holding, Registered, CutKept
  <2>4. RegisteredHolds'
    BY <1>1 DEF RunnerInv, OneHolder, RegisteredHolds, Holding, Registered, CutKept
  <2>5. TokenIsHeld'
    BY <1>1 DEF RunnerInv, OneHolder, TokenIsHeld, Holding, Registered, CutKept
  <2>6. ChildIsHeld'
    BY <1>1 DEF RunnerInv, OneHolder, ChildIsHeld, Holding, Registered, CutKept
  <2> QED BY <2>1, <2>2, <2>3, <2>4, <2>5, <2>6 DEF OneHolder
<1>4. Closing'
  <2>1. EpochsPast'
    BY <1>1 DEF RunnerInv, RunnerShape, SlotShape, Closing, EpochsPast, CutKept
  <2>2. ClosingRefuses'
    BY <1>1 DEF RunnerInv, Closing, ClosingRefuses
  <2>3. ClosingOutdates'
    BY <1>1 DEF RunnerInv, RunnerShape, SlotShape, Closing, ClosingRefuses, ClosingOutdates,
                Queueing, CutKept
  <2>4. ClosedIsFree'
    BY <1>1 DEF RunnerInv, RunnerShape, Kinds, Closing, ClosingOutdates, ClosedIsFree, Queueing
  <2> QED BY <2>1, <2>2, <2>3, <2>4 DEF Closing
<1>5. CutOffs'
  <2>1. CutIsLost'
    <3>1. \A q \in Requests : req[q].cut => Lost(q)
      BY DEF RunnerInv, CutOffs, CutIsLost
    <3>2. \A q \in Requests : q \in stop.seen /\ NoChildYet(q) => Lost(q)
      <4>1. stop.seen # {} => kind = "scene"
        BY DEF RunnerInv, RunnerShape, Kinds
      <4> QED BY <1>1, <4>1 DEF RunnerInv, CutOffs, NoAnswerYet, SeenIsOutdated, SeenHasToken,
                                NoChildYet, BeforeStart, Lost
    <3> QED BY <1>1, <3>1, <3>2 DEF CutIsLost, CutKept, Lost, BeforeStart
  <2>2. NoAnswerYet'
    BY <1>1 DEF RunnerInv, CutOffs, NoAnswerYet, Early, BeforeStart, CutKept
  <2>3. JoinFails'
    BY <1>1 DEF RunnerInv, CutOffs, JoinFails, CutKept
  <2>4. SeenIsOutdated'
    BY <1>1 DEF RunnerInv, RunnerShape, StopShape, CutOffs, SeenIsOutdated, BeforeStart, CutKept
  <2>5. SeenHasToken'
    BY <1>1 DEF RunnerInv, RunnerShape, StopShape, CutOffs, SeenIsOutdated, SeenHasToken,
                BeforeStart, CutKept
  <2> QED BY <2>1, <2>2, <2>3, <2>4, <2>5 DEF CutOffs
<1>6. Tickets'
  BY <1>1 DEF RunnerInv, RunnerShape, SlotShape, CallShape, Early, Tickets, Numbered, OwnTicket,
              CutKept
<1>7. Undisturbed'
  BY <1>1 DEF RunnerInv, RunnerShape, SlotShape, Undisturbed, NotLost, LastTicket, Follower,
              CutKept
<1> QED BY <1>2, <1>3, <1>4, <1>5, <1>6, <1>7 DEF RunnerInv

LEMMA CancelDocumentsStep ==
  ASSUME NamesApart, RunnerInv, CancelDocuments
  PROVE  RunnerInv'
<1>0. Domains(req)
  BY DEF RunnerInv, RunnerShape, CallShape, Domains, Fields
<1>1. /\ Domains(req')
      /\ stop.pc = "documents"
      /\ kind = "document"
      /\ stop'.pc = "idle"
      /\ DOMAIN stop' = DOMAIN stop
      /\ kind' = kind
      /\ stop'.close = stop.close
      /\ stop'.n = stop.n
      /\ stop'.seen = stop.seen
      /\ \A q \in Requests : CutKeptSignalled(q)
      /\ \A q \in Requests : req'[q].cut => req[q].cut \/ (req[q].ticket # None
         /\ NoChildYet(q))
      /\ slot'.cutoff = slot.next
      /\ slot'.active = slot.active
      /\ slot'.next = slot.next
      /\ slot'.registered = slot.registered
      /\ slot'.epoch = slot.epoch
      /\ slot'.unavailable = slot.unavailable
      /\ slot'.pending = slot.pending
      /\ DOMAIN slot' = DOMAIN slot
  <2>1. PICK q : q = SetToken(req)
    OBVIOUS
  <2>2. Domains(q) /\ \A o \in Requests : TokenSet(o, q)
    BY <1>0, <2>1, SetTokenEffect
  <2>3. PICK rs : rs = {o \in Requests : req[o].ticket # None}
    OBVIOUS
  <2>4. req' = Wake(CutOff(q, rs))
    BY <2>1, <2>3 DEF CancelDocuments
  <2>5. Domains(CutOff(q, rs))
    BY <2>2, CutOffEffect
  <2>6. Domains(req')
    BY <2>4, <2>5, WakeEffect
  <2>7. \A o \in Requests : CutKeptSignalled(o)
    BY <2>2, <2>4, <2>5, CutOffEffect, WakeEffect DEF CutKeptSignalled, TokenSet, Fields
  <2>8. \A o \in Requests : req'[o].cut => req[o].cut \/ (req[o].ticket # None /\ NoChildYet(o))
    BY <2>2, <2>3, <2>4, <2>5, CutOffEffect, WakeEffect DEF TokenSet, Fields
  <2>9. /\ stop.pc = "documents" /\ kind' = kind /\ DOMAIN stop' = DOMAIN stop
           /\ stop'.pc = "idle"
        /\ stop'.close = stop.close /\ stop'.n = stop.n /\ stop'.seen = stop.seen
        /\ kind = "document"
    BY DEF CancelDocuments, RunnerInv, RunnerShape, StopShape, Kinds
  <2>10. /\ slot'.active = slot.active /\ slot'.next = slot.next
         /\ slot'.registered = slot.registered /\ slot'.epoch = slot.epoch
         /\ slot'.unavailable = slot.unavailable /\ slot'.pending = slot.pending
         /\ slot'.cutoff = slot.next /\ DOMAIN slot' = DOMAIN slot
    BY DEF CancelDocuments, RunnerInv, RunnerShape, SlotShape
  <2> QED BY <2>6, <2>7, <2>8, <2>9, <2>10
<1>2. RunnerShape'
  <2>1. CallShape'
    BY <1>1 DEF RunnerInv, RunnerShape, CallShape, Early, CutKeptSignalled, Domains, Fields
  <2>2. SlotShape'
    BY <1>1 DEF RunnerInv, RunnerShape, SlotShape
  <2>3. StopShape'
    BY <1>1 DEF RunnerInv, RunnerShape, StopShape
  <2>4. Kinds'
    BY <1>1 DEF RunnerInv, RunnerShape, Kinds, CutKeptSignalled, Early, Holding, Registered
  <2> QED BY <2>1, <2>2, <2>3, <2>4 DEF RunnerShape
<1>3. OneHolder'
  <2>1. HolderIsActive'
    BY <1>1 DEF RunnerInv, OneHolder, HolderIsActive, Holding, Registered, CutKeptSignalled
  <2>2. OneAtATime'
    BY <1>1 DEF RunnerInv, OneHolder, OneAtATime, Holding, Registered, CutKeptSignalled
  <2>3. HolderIsRegistered'
    BY <1>1 DEF RunnerInv, OneHolder, HolderIsRegistered, Holding, Registered, CutKeptSignalled
  <2>4. RegisteredHolds'
    BY <1>1 DEF RunnerInv, OneHolder, RegisteredHolds, Holding, Registered, CutKeptSignalled
  <2>5. TokenIsHeld'
    <3>1. \A q \in Requests : slot.registered = q => req[q].pc \in Registered
      BY DEF NamesApart, Requests, RunnerInv, OneHolder, RegisteredHolds
    <3> QED BY <1>1, <3>1 DEF RunnerInv, OneHolder, TokenIsHeld, Registered, CutKeptSignalled
  <2>6. ChildIsHeld'
    BY <1>1 DEF RunnerInv, OneHolder, ChildIsHeld, Holding, Registered, CutKeptSignalled
  <2> QED BY <2>1, <2>2, <2>3, <2>4, <2>5, <2>6 DEF OneHolder
<1>4. Closing'
  <2>1. EpochsPast'
    BY <1>1 DEF RunnerInv, RunnerShape, SlotShape, Closing, EpochsPast, CutKeptSignalled
  <2>2. ClosingRefuses'
    BY <1>1 DEF RunnerInv, Closing, ClosingRefuses
  <2>3. ClosingOutdates'
    BY <1>1 DEF RunnerInv, RunnerShape, SlotShape, Closing, ClosingRefuses, ClosingOutdates,
                Queueing, CutKeptSignalled
  <2>4. ClosedIsFree'
    BY <1>1 DEF RunnerInv, RunnerShape, Kinds, Closing, ClosingOutdates, ClosedIsFree, Queueing
  <2> QED BY <2>1, <2>2, <2>3, <2>4 DEF Closing
<1>5. CutOffs'
  <2>1. CutIsLost'
    <3>1. \A q \in Requests : req[q].cut => Lost(q)
      BY DEF RunnerInv, CutOffs, CutIsLost
    <3>2. \A q \in Requests : req'[q].cut => Lost(q)'
      <4> SUFFICES ASSUME NEW q \in Requests, req'[q].cut
                   PROVE  Lost(q)'
        OBVIOUS
      <4>1. req[q].ticket # None => req[q].ticket < slot'.cutoff
        BY <1>1 DEF RunnerInv, Tickets, Numbered
      <4>2. CASE req[q].cut
        <5>1. Lost(q)
          BY <3>1, <4>2
        <5>2. req[q].pc \in {"wait", "woken"} => req[q].ticket # None
          BY DEF RunnerInv, RunnerShape, CallShape, NamesApart
        <5> QED BY <1>1, <4>1, <5>1, <5>2 DEF Lost, CutKeptSignalled, BeforeStart
      <4>3. CASE req[q].ticket # None /\ NoChildYet(q)
        <5>1. req[q].pc \in {"wait", "woken", "start"}
          BY <1>1, <4>3 DEF NoChildYet, RunnerInv, RunnerShape, Kinds, CallShape, Early
        <5>2. req[q].pc = "start" => slot.registered = q
          BY DEF RunnerInv, OneHolder, HolderIsRegistered, Registered
        <5>3. req[q].answer = "none"
          BY <5>1 DEF RunnerInv, CutOffs, NoAnswerYet, BeforeStart
        <5> QED BY <1>1, <4>1, <4>3, <5>1, <5>2, <5>3 DEF Lost, CutKeptSignalled, BeforeStart
      <4> QED BY <1>1, <4>2, <4>3
    <3> QED BY <3>2 DEF CutIsLost
  <2>2. NoAnswerYet'
    BY <1>1 DEF RunnerInv, CutOffs, NoAnswerYet, Early, BeforeStart, CutKeptSignalled
  <2>3. JoinFails'
    BY <1>1 DEF RunnerInv, CutOffs, JoinFails, CutKeptSignalled
  <2>4. SeenIsOutdated'
    BY <1>1 DEF RunnerInv, RunnerShape, StopShape, CutOffs, SeenIsOutdated, BeforeStart,
                CutKeptSignalled
  <2>5. SeenHasToken'
    BY <1>1 DEF RunnerInv, RunnerShape, StopShape, CutOffs, SeenIsOutdated, SeenHasToken,
                BeforeStart, CutKeptSignalled
  <2> QED BY <2>1, <2>2, <2>3, <2>4, <2>5 DEF CutOffs
<1>6. Tickets'
  BY <1>1 DEF RunnerInv, RunnerShape, SlotShape, CallShape, Early, Tickets, Numbered, OwnTicket,
              CutKeptSignalled
<1>7. Undisturbed'
  BY <1>1 DEF RunnerInv, RunnerShape, SlotShape, Undisturbed, NotLost, LastTicket, Follower,
              CutKeptSignalled
<1> QED BY <1>2, <1>3, <1>4, <1>5, <1>6, <1>7 DEF RunnerInv

LEMMA QueueStep ==
  ASSUME NamesApart, RunnerInv, NEW r \in Requests, Queue(r)
  PROVE  RunnerInv'
<1>0. Domains(req)
  BY DEF RunnerInv, RunnerShape, CallShape, Domains, Fields
<1>1. PICK q : q = [req EXCEPT ![r].ticket = slot.next]
  OBVIOUS
<1>2. /\ Domains(q) /\ q[r].ticket = slot.next /\ (\A o \in Requests \ {r} : q[o] = req[o])
      /\ \A f \in Fields \ {"ticket"} : q[r][f] = req[r][f]
  BY <1>0, <1>1 DEF Domains, Fields
<1>3. PICK w : w = IF kind = "document" THEN q ELSE Wake(q)
  OBVIOUS
<1>4. req[r].pc = "queue" /\ kind' = kind /\ stop' = stop /\ Loop(r, Queued(slot), w)
  BY <1>1, <1>3 DEF Queue, At
<1>5. /\ Domains(w) /\ w[r].ticket = slot.next
      /\ \A f \in Fields \ {"ticket"} : w[r][f] = req[r][f]
      /\ \A o \in Requests \ {r} : WokenIn(o, w)
  <2>1. CASE kind = "document"
    BY <1>2, <1>3, <2>1 DEF WokenIn, Fields
  <2>2. CASE kind # "document"
    BY <1>2, <1>3, <1>4, <2>2, WakeEffect DEF WokenIn, Fields
  <2> QED BY <2>1, <2>2
<1>6. PICK s : s = Queued(slot)
  OBVIOUS
<1>7. /\ DOMAIN s = DOMAIN slot /\ s.next = slot.next + 1
      /\ s.pending = IF kind = "document" THEN slot.pending ELSE slot.next
      /\ s.active = slot.active /\ s.registered = slot.registered /\ s.epoch = slot.epoch
      /\ s.unavailable = slot.unavailable /\ s.serving = slot.serving /\ s.cutoff = slot.cutoff
  BY <1>6 DEF Queued, RunnerInv, RunnerShape, SlotShape
<1>8. Outcome(r, s, w)
  BY <1>0, <1>4, <1>5, <1>6, <1>7, LoopEffect DEF RunnerInv, RunnerShape, SlotShape
<1>9. Looked(r, slot.next, IF kind = "document" THEN slot.pending ELSE slot.next)
  BY <1>5, <1>7, <1>8 DEF Outcome, Looked, Fields
<1>10. /\ Domains(req') /\ req'[r].ticket = slot.next
       /\ req'[r].child = req[r].child /\ req'[r].cut = req[r].cut
       /\ DOMAIN slot' = DOMAIN slot /\ slot'.next = slot.next + 1 /\ slot'.epoch = slot.epoch
       /\ slot'.unavailable = slot.unavailable /\ slot'.cutoff = slot.cutoff
  BY <1>5, <1>7, <1>8 DEF Outcome, Fields
<1>11. \A o \in Requests \ {r} : Kept(o)
  BY <1>8 DEF Outcome, WokenIn, Kept, Fields
<1>12. slot.next \in Nat
  BY DEF RunnerInv, RunnerShape, SlotShape
<1> QED BY <1>4, <1>9, <1>10, <1>11, <1>12, LookedStep

LEMMA WokenStep ==
  ASSUME NamesApart, RunnerInv, NEW r \in Requests, Woken(r)
  PROVE  RunnerInv'
<1>0. Domains(req)
  BY DEF RunnerInv, RunnerShape, CallShape, Domains, Fields
<1>1. req[r].pc = "woken" /\ kind' = kind /\ stop' = stop /\ Loop(r, slot, req)
  BY DEF Woken, At
<1>2. \A o \in Requests \ {r} : WokenIn(o, req)
  BY DEF WokenIn
<1>3. Outcome(r, slot, req)
  BY <1>0, <1>1, <1>2, LoopEffect DEF RunnerInv, RunnerShape
<1>4. Looked(r, req[r].ticket, slot.pending)
  BY <1>3 DEF Outcome, Looked
<1>5. /\ Domains(req') /\ req'[r].ticket = req[r].ticket
      /\ req'[r].child = req[r].child /\ req'[r].cut = req[r].cut
      /\ DOMAIN slot' = DOMAIN slot /\ slot'.next = slot.next /\ slot'.epoch = slot.epoch
      /\ slot'.unavailable = slot.unavailable /\ slot'.cutoff = slot.cutoff
  BY <1>3 DEF Outcome
<1>6. \A o \in Requests \ {r} : Kept(o)
  BY <1>3 DEF Outcome, WokenIn, Kept, Fields
<1>7. req[r].ticket \in Nat
  BY <1>1 DEF RunnerInv, RunnerShape, CallShape
<1> QED BY <1>1, <1>4, <1>5, <1>6, <1>7, LookedStep

LEMMA InitInv ==
  ASSUME NamesApart, RunnerInit
  PROVE  RunnerInv
<1>1. /\ DOMAIN req = Requests
      /\ \A r \in Requests :
           /\ DOMAIN req[r] = Fields
           /\ req[r].pc = "idle" /\ req[r].ticket = None /\ req[r].epoch = 0 /\ ~req[r].token
           /\ req[r].child = "none" /\ ~req[r].cut /\ req[r].answer = "none"
  BY DEF RunnerInit, Fields
<1>2. /\ DOMAIN slot = {"active", "pending", "next", "registered", "epoch", "unavailable",
                        "serving", "cutoff"}
      /\ ~slot.active /\ slot.next = 0 /\ slot.epoch = 0 /\ slot.cutoff = 0
      /\ slot.registered = None
  BY DEF RunnerInit
<1>3. /\ DOMAIN stop = {"pc", "close", "n", "seen"}
      /\ stop.pc = "idle" /\ ~stop.close /\ stop.n = 0 /\ stop.seen = {}
      /\ kind \in {"scene", "theme", "document"}
  BY DEF RunnerInit
<1>4. RunnerShape
  BY <1>1, <1>2, <1>3 DEF RunnerShape, CallShape, SlotShape, StopShape, Kinds, Early, Fields
<1>5. OneHolder
  BY <1>1, <1>2 DEF OneHolder, HolderIsActive, OneAtATime, HolderIsRegistered, RegisteredHolds,
                    TokenIsHeld, ChildIsHeld, Holding, Registered
<1>6. Closing
  BY <1>1, <1>2, <1>3 DEF Closing, EpochsPast, ClosingRefuses, ClosingOutdates, ClosedIsFree
<1>7. CutOffs
  BY <1>1, <1>3 DEF CutOffs, CutIsLost, NoAnswerYet, JoinFails, SeenIsOutdated, SeenHasToken
<1>8. Tickets
  BY <1>1 DEF Tickets, Numbered, OwnTicket
<1>9. Undisturbed
  BY <1>1, <1>2, <1>3 DEF Undisturbed, NotLost, LastTicket
<1> QED BY <1>4, <1>5, <1>6, <1>7, <1>8, <1>9 DEF RunnerInv

LEMMA StutterStep ==
  ASSUME RunnerInv, UNCHANGED runnerVars
  PROVE  RunnerInv'
<1>1. RunnerShape'
  BY DEF runnerVars, RunnerInv, RunnerShape, CallShape, SlotShape, StopShape, Kinds
<1>2. OneHolder'
  BY DEF runnerVars, RunnerInv, OneHolder, HolderIsActive, OneAtATime, HolderIsRegistered,
         RegisteredHolds, TokenIsHeld, ChildIsHeld
<1>3. Closing'
  BY DEF runnerVars, RunnerInv, Closing, EpochsPast, ClosingRefuses, ClosingOutdates, ClosedIsFree
<1>4. CutOffs'
  BY DEF runnerVars, RunnerInv, CutOffs, CutIsLost, Lost, NoAnswerYet, JoinFails, SeenIsOutdated,
         SeenHasToken
<1>5. Tickets'
  BY DEF runnerVars, RunnerInv, Tickets, Numbered, OwnTicket
<1>6. Undisturbed'
  BY DEF runnerVars, RunnerInv, Undisturbed, NotLost, LastTicket, Follower
<1> QED BY <1>1, <1>2, <1>3, <1>4, <1>5, <1>6 DEF RunnerInv

LEMMA NextInv ==
  ASSUME NamesApart, RunnerInv, [RunnerNext]_runnerVars
  PROVE  RunnerInv'
<1>1. CASE UNCHANGED runnerVars
  BY <1>1, StutterStep
<1>2. ASSUME NEW r \in Requests, Progress(r)
      PROVE  RunnerInv'
  BY <1>2, CheckStep, SignalActiveStep, SignalPendingStep, QueueStep, WokenStep, RegisterStep,
     RecheckStep, StartStep, PollStep, LookStep, JoinStep, ClearStep, ReleaseStep DEF Progress
<1>3. ASSUME NEW r \in Requests, Enter(r) \/ Exit(r) \/ Late(r)
      PROVE  RunnerInv'
  BY <1>3, EnterStep, ExitStep
<1>4. CASE BeginStop \/ MakeUnavailable \/ Bump \/ CancelToken
  BY <1>4, BeginStopStep, MakeUnavailableStep, BumpStep, CancelTokenStep
<1>5. CASE CancelPending \/ CancelDocuments \/ Drained \/ GiveUp
  BY <1>5, CancelPendingStep, CancelDocumentsStep, DrainStep
<1> QED BY <1>1, <1>2, <1>3, <1>4, <1>5 DEF RunnerNext

LEMMA RunnerAlways == RunnerSpec => []RunnerInv
<1> NamesApart
  BY RunnerAssumption DEF NamesApart
<1>1. RunnerInit => RunnerInv
  BY InitInv
<1>2. RunnerInv /\ [RunnerNext]_runnerVars => RunnerInv'
  BY NextInv
<1> QED BY <1>1, <1>2, PTL DEF RunnerSpec

-----------------------------------------------------------------------------
\* No two calls have a process at the same time.
ChildrenApart ==
  \A r, q \in Requests : req[r].child # "none" /\ req[q].child # "none" => r = q

\* One process at a time, whatever calls, cancellations and closings meet, a process that
\* could not be killed included (execute_batch, release_execution).
THEOREM OneChild == RunnerSpec => [](RunnerShape /\ ChildrenApart)
<1>1. RunnerInv => RunnerShape /\ ChildrenApart
  BY DEF RunnerInv, OneHolder, OneAtATime, ChildIsHeld, ChildrenApart, Holding, Registered
<1> QED BY <1>1, RunnerAlways, PTL

\* A close that answers true leaves no process and none is started after it, for any number
\* of calls that had already passed the check (SceneRunner::close).
THEOREM ClosedForGood == RunnerSpec => []ClosedMeansNoChild
<1>1. RunnerInv => ClosedMeansNoChild
  <2> SUFFICES ASSUME RunnerInv, stop.pc = "closed", NEW r \in Requests
               PROVE  req[r].child = "none"
    BY DEF ClosedMeansNoChild
  <2>1. ~slot.active
    BY DEF RunnerInv, Closing, ClosedIsFree
  <2>2. req[r].pc \notin Holding
    BY <2>1 DEF RunnerInv, OneHolder, HolderIsActive
  <2> QED BY <2>2 DEF RunnerInv, OneHolder, ChildIsHeld, Holding, Registered
<1> QED BY <1>1, RunnerAlways, PTL

LEMMA CutOffForGood == RunnerInv => CancelledNeverDelivers
  BY DEF RunnerInv, CutOffs, CutIsLost, Lost, CancelledNeverDelivers

LEMMA NewestIsServed == RunnerInv => LatestWins
<1> SUFFICES ASSUME RunnerInv, stop.n = 0, NEW r \in Requests, Last(r),
                    \A q \in Requests : req[q].pc \in {"idle", "done"}
             PROVE  req[r].answer # "cancelled"
  BY DEF LatestWins
<1>1. NotLost(r)
  BY DEF RunnerInv, Undisturbed
<1>2. ~Follower({"unpend", "queue"})
  BY DEF Follower
<1> QED BY <1>1, <1>2 DEF NotLost, LastTicket, Last

\* No call that a finished cancellation found without a process delivers a result, and
\* without a cancellation neither the newest call nor any document is answered as cancelled
\* (execute_batch, execute_document_process, cancel_active, cancel_documents).
THEOREM CancelledRightly == RunnerSpec => []CancelledExactly
<1>1. RunnerInv => CancelledExactly
  BY CutOffForGood, NewestIsServed DEF CancelledExactly
<1> QED BY <1>1, RunnerAlways, PTL
=============================================================================
