--------------------------- MODULE DesignExchange --------------------------
(***************************************************************************)
(* The design exchange of the page: DesignExchange.tsx with its reducer    *)
(* (design-session-state.ts) and the object URLs of its candidates         *)
(* (blob-identity.ts), and of App.tsx the project and the proposal it      *)
(* hands to the plan forms.                                                *)
(*                                                                         *)
(* An operation works with what the render that started it saw, and ends   *)
(* at any time.  A brief is the number of the project it was made for, and *)
(* a candidate on the page is the number of the operation that brought it. *)
(* Annotations and dispositions are left out but for the review they put   *)
(* away; a candidate has one picture.                                      *)
(***************************************************************************)
EXTENDS Naturals, FiniteSets

CONSTANTS None,
          Packets,      \* the candidates there are for every brief
          MaxExchanges, \* bound on the operations started
          MaxSwitches   \* bound on the changes of the identity

VARIABLES props,   \* the identity, its project, and App's proposal
          digest,  \* brandDigest: the project it was read for
          handled, \* previousIdentity
          desk,    \* DesignSessionState
          epoch,   \* the epoch of the URLs
          alive,   \* the object URLs not revoked
          jobs,    \* the operations under way
          busy,    \* the flag that disables most buttons
          started  \* operations so far

vars == <<props, digest, handled, desk, epoch, alive, jobs, busy, started>>

Empty == [brief |-> None, trust |-> None, candidates |-> {}, review |-> None, draft |-> None]

Init == /\ props = [identity |-> 0, project |-> None, form |-> None]
        /\ digest = None /\ handled = 0 /\ desk = Empty
        /\ epoch = 0 /\ alive = {} /\ jobs = {} /\ busy = FALSE /\ started = 0

Due == handled # props.identity

-----------------------------------------------------------------------------
(* App and the effects.                                                    *)

\* The host changes its state or a source is opened; a project is opened, or the host is
\* stopped: App takes its proposal back itself.
Switch ==
  /\ ~Due /\ props.identity < MaxSwitches
  /\ props' \in {[props EXCEPT !.identity = @ + 1],
                 [identity |-> props.identity + 1, project |-> props.identity + 1, form |-> None],
                 [identity |-> props.identity + 1, project |-> None, form |-> None]}
  /\ UNCHANGED <<digest, handled, desk, epoch, alive, jobs, busy, started>>

\* An operator named Wrong... has a bug in it; only the test of a property uses it.
WrongStale(d) == [d EXCEPT !.trust = "stale", !.draft = None]

\* The reducer's "stale".
Stale(d) ==
  [d EXCEPT !.trust = IF d.brief = None THEN @ ELSE "stale",
            !.candidates = {[c EXCEPT !.trust = "stale", !.url = None] : c \in @},
            !.draft = None]

Effects ==
  /\ Due
  /\ handled' = props.identity
  /\ epoch' = epoch + 1 /\ alive' = {} /\ desk' = Stale(desk)
  /\ props' = [props EXCEPT !.form = None]
  /\ digest' \in {None} \cup (IF digest = props.project THEN {digest} ELSE {})
  /\ UNCHANGED <<jobs, busy, started>>

\* The live packet context is read anew for every project and state of the host.
ContextRead ==
  /\ ~Due /\ digest = None /\ props.project # None
  /\ digest' = props.project
  /\ UNCHANGED <<props, handled, desk, epoch, alive, jobs, busy, started>>

-----------------------------------------------------------------------------
(* What the user starts.                                                   *)

\* The closure of the render, and the first step of operate.
Start(kind, candidate) ==
  /\ ~Due /\ started < MaxExchanges
  /\ started' = started + 1 /\ busy' = TRUE
  /\ jobs' = jobs \cup {[op |-> started + 1, kind |-> kind, stage |-> "asked",
                         identity |-> props.identity, project |-> props.project,
                         digest |-> digest, brief |-> desk.brief,
                         candidates |-> desk.candidates, candidate |-> candidate,
                         epoch |-> epoch]}
  /\ UNCHANGED <<props, digest, handled, desk, epoch, alive>>

CreateBrief == ~busy /\ props.project # None /\ digest # None /\ Start("create", None)
ImportBrief == ~busy /\ Start("brief", None)
ImportCandidate == ~busy /\ desk.brief # None /\ Start("candidate", None)
ImportReview == ~busy /\ desk.candidates # {} /\ Start("import", None)
ExportReview == ~busy /\ desk.candidates # {} /\ Start("export", None)

\* Not disabled while another operation is under way.
LoadProposal ==
  \E c \in desk.candidates :
    c.trust = "matched" /\ props.project # None /\ Start("proposal", c.op)

\* An annotation or a disposition.
Annotate ==
  /\ ~Due /\ desk.review # None
  /\ desk' = [desk EXCEPT !.review = None]
  /\ UNCHANGED <<props, digest, handled, epoch, alive, jobs, busy, started>>

\* The proposal stays on the form.
RemoveCandidate ==
  /\ ~Due
  /\ \E c \in desk.candidates :
       /\ desk' = [desk EXCEPT !.candidates = @ \ {c}, !.review = None, !.draft = None]
       /\ alive' = alive \ {c.url}
  /\ UNCHANGED <<props, digest, handled, epoch, jobs, busy, started>>

-----------------------------------------------------------------------------
(* How operations go on.                                                   *)

Advance(job, stage) ==
  jobs' = (jobs \ {job}) \cup {[job EXCEPT !.stage = stage, !.epoch = epoch]}

\* operate: whatever else is under way, the buttons are enabled again.
Close(job) == jobs' = jobs \ {job} /\ busy' = FALSE

\* Refused, cancelled or failed.  The digest of a new brief is computed once its evidence
\* has been found to be of one epoch.
Fails ==
  \E job \in jobs :
    /\ job.stage # "made" /\ Close(job)
    /\ UNCHANGED <<props, digest, handled, desk, epoch, alive, started>>

EvidenceRead ==
  \E job \in jobs :
    /\ job.kind = "create" /\ job.stage = "asked" /\ job.epoch = epoch
    /\ Advance(job, "digest")
    /\ UNCHANGED <<props, digest, handled, desk, epoch, alive, busy, started>>

\* trustForBrief, over the project and the digest of the closure.
TrustFor(brief, job) ==
  IF job.project = None \/ job.digest = None THEN "self-consistent"
  ELSE IF brief = job.project /\ brief = job.digest THEN "matched"
  ELSE "mismatch"

ShowBrief(brief, trust) ==
  /\ epoch' = epoch + 1 /\ alive' = {}
  /\ props' = [props EXCEPT !.form = None]
  /\ desk' = [Empty EXCEPT !.brief = brief, !.trust = trust]

\* createBrief goes on to save the packet it shows.
BriefCreated ==
  \E job \in jobs :
    /\ job.kind = "create" /\ job.stage = "digest"
    /\ ShowBrief(job.project, "current") /\ Advance(job, "saving")
    /\ UNCHANGED <<digest, handled, busy, started>>

BriefImported ==
  \E job \in jobs, brief \in 1..MaxSwitches :
    /\ job.kind = "brief"
    /\ ShowBrief(brief, TrustFor(brief, job)) /\ Close(job)
    /\ UNCHANGED <<digest, handled, started>>

\* The packet is read and is of the closure's brief: the epoch is taken only now, and
\* createCandidateArtifactUrls asks for it before and after every picture.
CandidateRead ==
  \E job \in jobs, packet \in Packets :
    /\ job.kind = "candidate" /\ job.stage = "asked"
    /\ \A c \in job.candidates : c.packet # packet
    /\ jobs' = (jobs \ {job}) \cup {[job EXCEPT !.stage = "drawing", !.candidate = packet,
                                                !.epoch = epoch]}
    /\ UNCHANGED <<props, digest, handled, desk, epoch, alive, busy, started>>

PictureMade ==
  \E job \in jobs :
    /\ job.stage = "drawing"
    /\ IF job.epoch = epoch THEN Advance(job, "made") /\ alive' = alive \cup {job.op} /\ UNCHANGED busy
                            ELSE Close(job) /\ UNCHANGED alive
    /\ UNCHANGED <<props, digest, handled, desk, epoch, started>>

Candidate(job) ==
  [op |-> job.op, packet |-> job.candidate, brief |-> job.brief, url |-> job.op,
   trust |-> TrustFor(job.brief, job), since |-> job.identity, landed |-> props.identity]

\* The reducer refuses the same packet twice; its picture then stays alive.
CandidateImported ==
  \E job \in jobs :
    /\ job.stage = "made" /\ Close(job)
    /\ IF job.epoch # epoch THEN alive' = alive \ {job.op} /\ UNCHANGED desk
       ELSE /\ UNCHANGED alive
            /\ desk' = IF \E c \in desk.candidates : c.packet = job.candidate /\ c.brief = job.brief
                       THEN desk
                       ELSE [desk EXCEPT !.candidates = @ \cup {Candidate(job)}, !.review = None]
    /\ UNCHANGED <<props, digest, handled, epoch, started>>

\* A review is of all the candidates the closure saw.
ReviewShown ==
  \E job \in jobs :
    /\ job.kind \in {"import", "export"} /\ job.brief # None
    /\ desk' = [desk EXCEPT !.review = {c.op : c \in job.candidates}] /\ Close(job)
    /\ UNCHANGED <<props, digest, handled, epoch, alive, started>>

ProposalLoaded ==
  \E job \in jobs :
    /\ job.kind = "proposal"
    /\ desk' = [desk EXCEPT !.draft = job.candidate]
    /\ props' = [props EXCEPT !.form = job.candidate] /\ Close(job)
    /\ UNCHANGED <<digest, handled, epoch, alive, started>>

-----------------------------------------------------------------------------
User == \/ CreateBrief \/ ImportBrief \/ ImportCandidate \/ ImportReview \/ ExportReview
        \/ LoadProposal \/ Annotate \/ RemoveCandidate

Continue == \/ Effects \/ Fails \/ EvidenceRead \/ BriefCreated \/ BriefImported \/ CandidateRead
            \/ PictureMade \/ CandidateImported \/ ReviewShown \/ ProposalLoaded

Next == User \/ Switch \/ ContextRead \/ Continue

\* Effects run, and operations end.
Spec == Init /\ [][Next]_vars /\ WF_vars(Continue)

-----------------------------------------------------------------------------
\* The picture of every candidate on the page is alive, whatever was removed, replaced or
\* found stale while it was made (createCandidateArtifactUrls).
KeptUrlsAreLive == \A c \in desk.candidates : c.url \in alive \cup {None}

\* Once the effects have run, a candidate called matched came under this identity, and
\* matches the project unless its import was started under an earlier one: an import under
\* way when the identity changes keeps the trust of the old project (DesignExchange.tsx:123).
TrustIsSwept ==
  ~Due => \A c \in desk.candidates :
            c.trust = "matched" =>
              /\ c.landed = props.identity
              /\ c.since = props.identity => c.brief = props.project

\* A proposal the page says is on the plan form is there (loadProposal, removeCandidate).
FormFollowsPage == ~Due /\ desk.draft # None => props.form = desk.draft
=============================================================================
